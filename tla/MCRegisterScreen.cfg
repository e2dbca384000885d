SPECIFICATION Spec
CONSTANTS
  Product = {cola, rice}
  Member = {anna, ben}
  None = None
  QuantityMax = 2
  LinesMax = 2
  Call = {c1, c2}
  MaxCustomers = 2
SYMMETRY Symmetry
INVARIANTS
  TypeOK
  MemberFitsCart
  DrawnIsBought
PROPERTIES
  OnlyAnswersChargeUnseen
  GoodsLeaveByHand
  OnlyLateAnswersCarryOver
  OnlyLateAnswersMislead
