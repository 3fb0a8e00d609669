SPECIFICATION WsSpec
CONSTANTS
  Clients = {c1}
  Networks = {"main"}
  Subject <- MCSubject
  Given = {}
  ClientChoices <- MCChoices
  CLIENT_QUEUE = 2
  MaxMessages = 2
  MaxVersion = 2
  MaxFailures = 1
CHECK_DEADLOCK FALSE
INVARIANTS
  ClientSeesOneStream
  NoStatusMissed
PROPERTIES
  StatusServed
