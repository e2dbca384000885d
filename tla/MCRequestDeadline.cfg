SPECIFICATION DeadlineSpec
CONSTANTS
  ConnectTimeout = 3
  ReadTimeout = 10
  BffTimeout = 15
  MaxStalls = 2
CHECK_DEADLOCK FALSE
INVARIANT
  OneStallGivesUpFirst
  WaitPerStall
PROPERTY
  LateSalesAreExplained
