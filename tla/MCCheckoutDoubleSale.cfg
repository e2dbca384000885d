SPECIFICATION Spec
CONSTANTS
  cola = cola
  colaAndRice = colaAndRice
  Contents = {cola, colaAndRice}
  Empty = Empty
  PriceOf <- MCPriceOf
  ScreenMayBeLost = FALSE
  MaxPresses = 3
  MaxCustomers = 2
CHECK_DEADLOCK FALSE
INVARIANT
  NoDoubleSale
