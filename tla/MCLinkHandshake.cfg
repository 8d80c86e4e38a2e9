SPECIFICATION FairSpec
CONSTANTS
  client = client
  server = server
  Ends = {client, server}
  Script <- Handshake
  Allowed <- HandshakeAllows
  MaxLog = 2
  MaxRanges = 0
  MaxResends = 0
  MaxNet = 1
  OrderWindow = 3
  DedupWindow = 4
  IndexSpace = 64
  SplitSpace = 4
  PerDatagram = 1
  MaxInFlight = 1
  MaxRetries = 1
  MaxOutbox = 1
  MaxFragments = 1
  MaxPending = 1
  MaxBuffered = 2
INVARIANTS DisconnectCloses AnsweredOnce
PROPERTY InFlightSettles
CHECK_DEADLOCK FALSE
