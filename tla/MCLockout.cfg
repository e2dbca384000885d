SPECIFICATION Spec
CONSTANTS
  Call = {c1, c2, c3, c4, c5}
  MaxFailed = 2
  LockTime = 1
  MayBreak = TRUE
  MaxTime = 2
SYMMETRY Symmetry
CHECK_DEADLOCK FALSE
INVARIANTS
  TypeOK
  FailuresAreCounted
  LockEndsSessions
PROPERTY
  LockLasts
