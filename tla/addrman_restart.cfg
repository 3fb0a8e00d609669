SPECIFICATION Spec
CONSTANTS
  WIDTH4 = 2
  WIDTH6 = 5
  OCTET = 2
  MAPPED = 1
  FC = 2
  UNROUTABLE <- MCUnroutable
  KEY_LEN = 2
  Checksum <- MCChecksum
  EnabledNets = {"Ipv4", "Ipv6"}
  Wire <- MCWire
  AnyWire <- MCAnyWire
  Wire1 <- MCWire1
  Typed <- MCTyped
  Names <- MCNames
  BanTexts <- MCBanTexts
  Addrs <- MCAddrs
  Routable <- MCRoutable
  Enabled <- MCEnabled
  Bootstrap <- MCBootstrap
  OperatorAddrs <- MCOperator
  BanNets <- MCBanNets
  PossibleOutcomes = {"Failed"}
  Services = {0}
  V2Services = {}
  Capacity = 2
  EVICTION_BATCH = 1
  EVICTION_BATCH_SHARE = 1
  DialsPerTick = 1
  MaxDialing = 1
  MAX_RECONNECTS_PER_TICK = 1
  MaxNow = 2
  MaxBatch = 1
  MaxRestarts = 1
  MANUAL_RETRY = 1
  OTHER_CHAIN = 3
  VIOLATION = 2
  STABLE_RECONNECT = 1
  PROXY_UNREACHABLE = 1
  NETWORK_UNREACHABLE = 2
  NETWORK_DISABLED = 3
  EVICTION_BASE = 1
  EVICTION_CAP = 2
  WAS_GOOD_BASE = 1
  WAS_GOOD_CAP = 2
  BAD_BASE = 1
  BAD_CAP = 3
  WAS_GOOD_FORGET_AFTER = 4
  BAD_ANNOUNCE_GRACE = 4
  BAD_FORGET_FAILURES_IF_STALE = 1
  BAD_FORGET_FAILURES_ALWAYS = 1
  U8Max = 1
  U32Max = 100
INVARIANTS
  ConfirmedBanSurvives
  PrintedIsRead
  ListRefusesWhatWasBanned
PROPERTIES
  BannedHostNeverDialled
