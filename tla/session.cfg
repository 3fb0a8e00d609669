SPECIFICATION AttemptSpec
CONSTANTS
  PING_INTERVAL = 1
  PING_TIMEOUT = 4
  OUTSTANDING_PINGS = 2
  ADDR_BURST = 1
  GETHEADERS_BURST = 1
  REFILL = 2
  MESSAGES_BY_COMMAND_CAP = 1
  Gossips <- MCGossips
  Says <- MCSays
  MaxTime = 6
  MaxSays = 2
  MaxInbox = 2
  MaxKnown = 2
  MaxStalls = 1
  Nets = {"ip", "tor", "i2p"}
  TorEnabled = TRUE
  Long <- MCLong
CHECK_DEADLOCK FALSE
INVARIANTS
  AnsweringPeerKept
  NotHeldOpen
  RatesHold
  OneStoryPerAttempt
