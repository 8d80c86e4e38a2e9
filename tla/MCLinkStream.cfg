SPECIFICATION Spec
CONSTANTS
  client = client
  server = server
  Ends = {client, server}
  Script <- Stream
  Allowed <- StreamAllows
  MaxLog = 3
  MaxRanges = 0
  MaxResends = 0
  MaxNet = 3
  OrderWindow = 3
  DedupWindow = 6
  IndexSpace = 64
  SplitSpace = 4
  PerDatagram = 2
  MaxInFlight = 3
  MaxRetries = 0
  MaxOutbox = 2
  MaxFragments = 4
  MaxPending = 1
  MaxBuffered = 4
INVARIANT AckedIsKept
CHECK_DEADLOCK FALSE
