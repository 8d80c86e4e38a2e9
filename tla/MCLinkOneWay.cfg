SPECIFICATION Spec
CONSTANTS
  client = client
  server = server
  Ends = {client, server}
  Script <- OneWay
  Allowed <- OneWayAllows
  MaxLog = 2
  MaxRanges = 2
  MaxResends = 2
  MaxNet = 2
  OrderWindow = 2
  DedupWindow = 6
  IndexSpace = 64
  SplitSpace = 4
  PerDatagram = 2
  MaxInFlight = 2
  MaxRetries = 0
  MaxOutbox = 3
  MaxFragments = 3
  MaxPending = 2
  MaxBuffered = 3
INVARIANTS TypeOK AckedIsKept NothingSkipped BuffersMatchSent BuffersBounded PayloadsWhole
PROPERTY IsTwoChannels
CHECK_DEADLOCK FALSE
