CONSTANTS
  Peers = {p1}
  Window = 7
  MaxRadius = 1
  Margin = 1
  Surface = 80
  Ground <- Stone
  Stages <- AllStages
  KeySets <- TwoKeySets
  Clocks <- TwoClocks
  Tokens <- SomeTokens
  Logins <- AllLogins
  Radii = {0, 2}
  Places <- FewPlaces
  MaxOpens = 2
  MaxTrips = 3
SPECIFICATION FairSpec
INVARIANTS TypeOK CountersInStep VouchedFor ColumnsArrive ViewCovered SpawnsIntoWorld
PROPERTY GetsIn
CHECK_DEADLOCK FALSE
