SPECIFICATION Spec
CONSTANTS
  Ladder <- SmallLadder
  LeastPayload = 60
  SlotCount = 2
  Receives = 3
  Setups <- FewSetups
  Greeting <- Batch
  MaxTicks = 1
  MaxRepeats = 1
  MaxSessions = 1
  OrderWindow = 8
  DedupWindow = 8
  IndexSpace = 16777216
  SplitSpace = 65536
  PerDatagram = 1
  MaxInFlight = 8
  MaxRetries = 2
  MaxOutbox = 8
  MaxFragments = 8
  MaxPending = 2
  MaxBuffered = 8
INVARIANTS ReadAsMeant FitsPath PongAfterJoin
CHECK_DEADLOCK FALSE
