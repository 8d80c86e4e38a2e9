\* Two clients for one slot; two sources for a map of one.
CONSTANTS
  Clients = {c1, c2}
  Speakers = {c1}
  Sources = {i1, i2}
  MaxUser = 1
  MaxStarts = 1
  MaxSessions = 1
  MaxTracked = 1
  PingInterval = 1
  Timeout = 1
SPECIFICATION FairSpec
INVARIANTS TypeOK EventsTellTheSession PayloadsToldInOrder PongsSpaced
PROPERTY SlotsFreed
