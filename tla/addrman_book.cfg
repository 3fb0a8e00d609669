SPECIFICATION Spec
CONSTANTS
  a1 = a1
  a2 = a2
  Addrs = {a1, a2}
  Routable = {a1, a2}
  Enabled = {a1}
  Bootstrap = {}
  OperatorAddrs = {a1}
  BanNets = {}
  PossibleOutcomes = {"Failed", "Short", "Stable", "OtherChain", "Violated", "NetworkUnreachable"}
  Services = {0, 1}
  V2Services = {1}
  Capacity = 1
  EVICTION_BATCH = 1
  EVICTION_BATCH_SHARE = 1
  DialsPerTick = 2
  MaxDialing = 2
  MAX_RECONNECTS_PER_TICK = 1
  MaxNow = 4
  MaxBatch = 1
  MaxRestarts = 0
  MANUAL_RETRY = 2
  OTHER_CHAIN = 3
  VIOLATION = 2
  STABLE_RECONNECT = 1
  PROXY_UNREACHABLE = 1
  NETWORK_UNREACHABLE = 2
  NETWORK_DISABLED = 3
  EVICTION_BASE = 1
  EVICTION_CAP = 2
  WAS_GOOD_BASE = 1
  WAS_GOOD_CAP = 2
  BAD_BASE = 1
  BAD_CAP = 3
  WAS_GOOD_FORGET_AFTER = 2
  BAD_ANNOUNCE_GRACE = 2
  BAD_FORGET_FAILURES_IF_STALE = 2
  BAD_FORGET_FAILURES_ALWAYS = 2
  U8Max = 2
  U32Max = 100
PROPERTIES
  ScheduleNeverMovesForward
  V2NeverDowngraded
  EvictionSparesKnownPeers
