SPECIFICATION Spec
CONSTANTS
  cola = cola
  colaAndRice = colaAndRice
  Contents = {cola, colaAndRice}
  Empty = Empty
  PriceOf <- MCPriceOf
  ScreenMayBeLost = TRUE
  MaxPresses = 3
  MaxCustomers = 2
CHECK_DEADLOCK FALSE
INVARIANTS
  TypeOK
  CompletedIsSold
  ClearedIsSold
  UndisturbedSoldOnce
