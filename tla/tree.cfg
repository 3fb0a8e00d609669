SPECIFICATION Spec
CONSTANTS
  Blocks <- MCBlocks
  Genesis = "g"
  Parent <- MCParent
  HashOrder <- MCHashOrder
  Work <- MCWork
  Mined <- MCMined
  MinWork = 1
  AllowMinDifficulty = FALSE
  RetargetInterval = 2
  Adjusted <- MCAdjusted
  Checkpoints <- MCCheckpoints
  WEAKER_CHAIN_FACTOR = 4
  REJECTED_REMEMBERED = 2
  RECOVERY_INTERVAL = 1
  RECOVERY_PEERS = 1
  Announced = {"a1"}
  MaxBatch = 2
  MaxNow = 1
  MaxCrashes = 1
CHECK_DEADLOCK FALSE
INVARIANTS
  TreeConnected
  OneChainUpToCheckpoint
  TipHasMostWork
  TipsTellTheForks
  CleanTreeIsTheSavedOne
PROPERTIES
  RefusalInUseIsKept
