SPECIFICATION FairSpec
CONSTANTS
  first = first
  again = again
  other = other
  key = key
  MaxId = 3
  cola = cola
  anna = anna
  NoMember = NoMember
  NoSnapshot = NoSnapshot
  Unpriceable = Unpriceable
  Request = {first, again, other}
  Key = {key}
  Product = {cola}
  Member = {anna}
  Totals = {100, 110}
  KeyOf <- MCKeyOf
  CodesOf <- MCCodesOf
  MemberOf <- MCMemberOf
  Claimed <- MCClaimed
  MasterStates <- MCMasterStates
  Quote <- MCQuote
INVARIANTS
  TypeOK
  SoldAsClaimed
PROPERTIES
  ImplementsLedger
  RetryRecognised
  EveryRequestAnswered
