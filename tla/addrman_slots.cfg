SPECIFICATION FairSpec
CONSTANTS
  a1 = a1
  a2 = a2
  Addrs = {a1, a2}
  Routable = {a1, a2}
  Enabled = {a1, a2}
  Bootstrap = {}
  OperatorAddrs = {a1}
  BanNets = {{a2}}
  PossibleOutcomes = {"Failed"}
  Services = {0}
  V2Services = {}
  Capacity = 2
  EVICTION_BATCH = 1
  EVICTION_BATCH_SHARE = 1
  DialsPerTick = 2
  MaxDialing = 2
  MAX_RECONNECTS_PER_TICK = 1
  MaxNow = 2
  MaxBatch = 1
  MaxRestarts = 0
  MANUAL_RETRY = 1
  OTHER_CHAIN = 3
  VIOLATION = 2
  STABLE_RECONNECT = 1
  PROXY_UNREACHABLE = 1
  NETWORK_UNREACHABLE = 2
  NETWORK_DISABLED = 3
  EVICTION_BASE = 1
  EVICTION_CAP = 2
  WAS_GOOD_BASE = 1
  WAS_GOOD_CAP = 2
  BAD_BASE = 1
  BAD_CAP = 3
  WAS_GOOD_FORGET_AFTER = 4
  BAD_ANNOUNCE_GRACE = 4
  BAD_FORGET_FAILURES_IF_STALE = 1
  BAD_FORGET_FAILURES_ALWAYS = 1
  U8Max = 1
  U32Max = 100
INVARIANTS
  TypeOK
  OneTaskPerAddress
  SlotsMatchTasks
PROPERTIES
  SlotReleased
