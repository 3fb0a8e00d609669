SPECIFICATION SyncSpec
CONSTANTS
  p1 = p1
  p2 = p2
  p3 = p3
  Peers = {p1, p2, p3}
  Seeds <- TwoSeeds
  PeerTips <- MCPeerTips
  LoadedTips = {"g"}
  MaxHeaders = 2
  MaxSessions = 3
  MaxHangups = 1
  Blocks <- MCBlocks
  Genesis = "g"
  Parent <- MCParent
  HashOrder <- MCHashOrder
  Work <- MCWork
  Mined <- MCMined
  MinWork = 1
  AllowMinDifficulty = FALSE
  RetargetInterval = 4
  Adjusted <- MCAdjusted
  Checkpoints <- MCCheckpoints
  WEAKER_CHAIN_FACTOR = 4
  REJECTED_REMEMBERED = 2
  RECOVERY_INTERVAL = 1
  RECOVERY_PEERS = 2
  Announced = {}
  MaxBatch = 1
  MaxNow = 0
  MaxCrashes = 0
CHECK_DEADLOCK FALSE
INVARIANTS
  SyncCompleteIsTrue
  PeerOnOurChainKept
PROPERTIES
  MissedBlockIsFetched
  OtherChainIsLeft
