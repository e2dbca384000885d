--------------------------- MODULE MCPriceAgreement ---------------------------
(***************************************************************************)
(* Three products, one of them free, over three days.  The prices and      *)
(* rates make every floor matter (99 yen, 15 %, 8 %), the masters cover a  *)
(* campaign that ends with the day, overlapping campaigns, a new rate,     *)
(* price changes that a campaign or another line compensates, a            *)
(* discontinued product, a percentage above 100 and an unknown type.       *)
(***************************************************************************)
EXTENDS PriceAgreement, TLC

CONSTANTS cola, rice, bag

Percent(p, v, from, to) ==
  [product |-> p, type |-> "percent", value |-> v, first |-> from, last |-> to]

Amount(p, v, from, to) ==
  [product |-> p, type |-> "amount", value |-> v, first |-> from, last |-> to]

AllProducts == {cola, rice, bag}

Ordinary ==
  [onSale |-> AllProducts, price |-> (cola :> 99 @@ rice :> 250 @@ bag :> 0),
   rates |-> (0 :> 800 @@ 2 :> 1000),
   campaigns |-> {Percent(cola, 15, 0, 0), Amount(cola, 13, 0, 1),
                  Amount(rice, 300, 1, 1)}]

(* rice is 10 yen dearer: for a member it is 10 yen off as well, the same   *)
(* total, and with a cola, which is 10 yen cheaper, it makes the same sums; *)
(* and so do the discounts of the two on day 1 and on day 2.                *)
Compensated ==
  [onSale |-> AllProducts, price |-> (cola :> 89 @@ rice :> 260 @@ bag :> 3),
   rates |-> (0 :> 800),
   campaigns |-> {Amount(rice, 10, 1, 2), Percent(cola, 33, 1, 1),
                  Amount(rice, 20, 2, 2), Amount(cola, 19, 2, 2)}]

BadPercent ==
  [onSale |-> {cola, bag}, price |-> (cola :> 2 @@ rice :> 0 @@ bag :> 3),
   rates |-> (-5 :> 800),
   campaigns |-> {Percent(cola, 150, 0, 2), Amount(cola, 1, 1, 1)}]

UnknownType ==
  [onSale |-> AllProducts, price |-> (cola :> 99 @@ rice :> 250 @@ bag :> 0),
   rates |-> (1 :> 800),
   campaigns |-> {[Percent(rice, 10, 2, 2) EXCEPT !.type = "unknown"]}]

MCMasters == {Ordinary, Compensated, BadPercent, UnknownType}
==============================================================================
