SPECIFICATION Spec
CONSTANTS
  Call = {c1, c2, c3}
  Kinds = {"api", "logout", "login"}
  MayBreak = TRUE
  MaxPairs = 4
SYMMETRY Symmetry
CHECK_DEADLOCK FALSE
INVARIANTS
  TypeOK
  ExecutedOnce
  RefusedOnlyWhenUsedUp
  CookiesCanBeRenewed
  RegisterNeedsCookies
