SPECIFICATION Spec
CONSTANTS
  client = client
  server = server
  Ends = {client, server}
  Script <- Replies
  Allowed <- RepliesAllows
  MaxLog = 2
  MaxRanges = 0
  MaxResends = 0
  MaxNet = 2
  OrderWindow = 3
  DedupWindow = 4
  IndexSpace = 64
  SplitSpace = 4
  PerDatagram = 1
  MaxInFlight = 2
  MaxRetries = 1
  MaxOutbox = 2
  MaxFragments = 2
  MaxPending = 1
  MaxBuffered = 2
INVARIANT CompletedIsReturned
CHECK_DEADLOCK FALSE
