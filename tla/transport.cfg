SPECIFICATION TransportSpec
CONSTANTS
  Frames <- MCFrames
  HEADER = 2
  MAX_V1_PAYLOAD = 1
  MaxFrames = 3
  MaxCancels = 1
  MaxRetries = 1
CHECK_DEADLOCK FALSE
PROPERTIES
  ImplementsChannel
  EveryFrameAnswered
