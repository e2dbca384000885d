------------------------ MODULE MCTransactionService ------------------------
(***************************************************************************)
(* Three requests.  "first" and "again" are one purchase sent twice, and   *)
(* "other" carries the same key with other totals (the same lines at       *)
(* another price).  Four states of the masters: as shown to the customer,  *)
(* another price, a discontinued product with the member gone, and no tax  *)
(* rate.  Prices and rules change together, so a sale that mixes two       *)
(* states shows.                                                           *)
(***************************************************************************)
EXTENDS TransactionService, TLC

CONSTANTS first, again, other, key, cola, anna

MCKeyOf == [r \in Request |-> key]

MCCodesOf == [r \in Request |-> {cola}]

MCMemberOf == [r \in Request |-> IF r = other THEN NoMember ELSE anna]

MCClaimed == [r \in Request |-> IF r = other THEN 110 ELSE 100]

MCMasterStates ==
  {[onSale |-> {cola}, members |-> {anna}, prices |-> 1, rules |-> 1],
   [onSale |-> {cola}, members |-> {anna}, prices |-> 2, rules |-> 2],
   [onSale |-> {},     members |-> {},     prices |-> 2, rules |-> 2],
   [onSale |-> {cola}, members |-> {},     prices |-> 2, rules |-> 3]}

(* Prices 1 make 100 and prices 2 make 110, whichever of the rules 1 and 2 *)
(* applies; rules 3 price nothing.                                         *)
MCQuote ==
  [p \in {1, 2} |-> [q \in {1, 2, 3} |-> [r \in Request |->
     IF q = 3 THEN Unpriceable ELSE IF p = 1 THEN 100 ELSE 110]]]
=============================================================================
