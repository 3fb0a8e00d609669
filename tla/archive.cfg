SPECIFICATION ArchiveSpec
CONSTANTS
  Published <- MCPublished
  NameOrder <- MCNameOrder
  AllServices = {"network", "witness"}
  top = 2
  Configs <- MCConfigs
  max_file_size = 4
  MaxRuns = 2
  MaxFaults = 2
CHECK_DEADLOCK FALSE
INVARIANTS
  ArchiveIsWhole
  StatsOfEventsAlone
PROPERTIES
  ShutdownEnds
