CONSTANTS
  OrderWindow = 3
  DedupWindow = 4
  MaxSent = 7
SPECIFICATION FairSpec
INVARIANTS TypeOK ReleasedInOrder WindowsBounded DuplicatesWereTaken RefusedIsLost
PROPERTY AllReleased
CHECK_DEADLOCK FALSE
