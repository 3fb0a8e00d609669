SPECIFICATION PipeSpec
CONSTANTS
  c1 = c1
  c2 = c2
  Senders = {c1, c2}
  KindOrder <- MCKindOrder
  Gossip = "address_announcement"
  EVENT_QUEUE = 3
  GOSSIP_SHED_BELOW = 2
  Blocks = {"b1", "x"}
  Parent <- MCParent
  Root = "root"
  Refused = {"x"}
  MAX_BLOCK_INVS_ANNOUNCED = 1
  MAX_HEADERS_ANNOUNCED = 1
  Offers <- MCOffers
  probe_compact_blocks = TRUE
  Answers = {"b1"}
  Reports <- MCReports
  Cost <- MCCost
  MaxCost <- MCMaxCost
  MetricKinds <- Kinds
  RECENT_BLOCKS = 1
  USER_AGENT_CAP = 1
  PROTOCOL_VERSION_CAP = 1
  KNOWN = {"inv"}
  ServiceName <- MCServices
  SKEW = 5
  HEIGHT_DELTA = 5
  FEE_FILTER = 5
  ADDRESS_AGE = 5
  MaxRestarts = 1
CHECK_DEADLOCK FALSE
INVARIANTS
  ReserveKept
  NewBlocksAreClaimed
  LossesAreTold
  PeersCannotGrowIt
SYMMETRY MCSymmetry
