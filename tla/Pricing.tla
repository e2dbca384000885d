------------------------------- MODULE Pricing -------------------------------
(***************************************************************************)
(* The two implementations of the price of a cart: PricingService of the   *)
(* backend (what is saved) and lib/pricing.ts of the register screen (what *)
(* the customer is shown).  Money is whole yen and tax rates are basis     *)
(* points, so every definition stays within the integers.                  *)
(*                                                                         *)
(* A cart maps the codes of its lines to [price, qty].  Codes are unique   *)
(* in it: the reducer merges a repeated product into its line and the      *)
(* request schema refuses repeated codes.                                  *)
(***************************************************************************)
EXTENDS Integers, FiniteSets, FiniteSetsExt, Functions

CONSTANTS QuantityMax,    \* QUANTITY_MAX of both sides: 99 in the code
          ColumnMax       \* largest value of an INT column: 2^31 - 1

ASSUME QuantityMaxAssumption == QuantityMax \in Nat \ {0}

ASSUME ColumnMaxAssumption == ColumnMax \in Nat

Quantity == 1 .. QuantityMax

Line == [price : Nat, qty : Quantity]

(* A campaign row.  The schema's CHECKs are value > 0, of an INT column,   *)
(* and first =< last: a percentage above 100 or an unknown type can be     *)
(* stored.                                                                 *)
CampaignRow(products) ==
  [product : products, type : {"percent", "amount", "unknown"},
   value : 1 .. ColumnMax, first : Int, last : Int]

\* mutant: the upper bound of a percentage is forgotten
ValidCampaign_NoUpperBound(c) == c.type \in {"percent", "amount"} /\ c.value >= 1

ValidCampaign(c) ==
  \/ c.type = "percent" /\ c.value \in 1 .. 100
  \/ c.type = "amount"  /\ c.value >= 1

ActiveOn(c, day) == c.first =< day /\ day =< c.last

\* mutant: the percentage is floored after the quantity is multiplied in
ServerDiscountFor_FloorsLast(line, c) ==
  IF c.type = "percent"
    THEN (line.price * c.value * line.qty) \div 100
    ELSE (IF c.value =< line.price THEN c.value ELSE line.price) * line.qty

(* Both sides round a percentage down on the unit price, then multiply; an *)
(* amount is capped by the unit price.                                     *)
ServerDiscountFor(line, c) ==
  IF c.type = "percent"
    THEN ((line.price * c.value) \div 100) * line.qty
    ELSE (IF c.value =< line.price THEN c.value ELSE line.price) * line.qty

ClientDiscountFor(line, c) ==
  IF c.type = "percent"
    THEN ((line.price * c.value) \div 100) * line.qty
    ELSE (IF c.value =< line.price THEN c.value ELSE line.price) * line.qty

(* The backend looks at every campaign of the product and filters by the   *)
(* period itself; max(..., default=0).                                     *)
ServerDiscounts(code, line, campaigns, day) ==
  {ServerDiscountFor(line, c) :
     c \in {d \in campaigns : d.product = code /\ ActiveOn(d, day)}}

ServerLineDiscount(code, line, isMember, campaigns, day) ==
  LET discounts == ServerDiscounts(code, line, campaigns, day)
  IN  IF ~isMember \/ discounts = {} THEN 0 ELSE Max(discounts)

(* The screen uses the campaigns of GET /settings as they are: no period   *)
(* check, and a fold that starts at 0.                                     *)
ClientDiscounts(code, line, campaigns) ==
  {ClientDiscountFor(line, c) : c \in {d \in campaigns : d.product = code}}

ClientLineDiscount(code, line, isMember, campaigns) ==
  IF ~isMember THEN 0 ELSE Max({0} \cup ClientDiscounts(code, line, campaigns))

(* The four values the client sends and the server compares, from the line *)
(* discounts; tax is floored once, on the whole transaction (BR-02).       *)
TotalsOf(cart, discount, rateBp) ==
  LET subtotal == SumFunction([c \in DOMAIN cart |-> cart[c].price * cart[c].qty])
      off      == SumFunction(discount)
      tax      == ((subtotal - off) * rateBp) \div 10000
  IN  [subtotal |-> subtotal, discount_total |-> off, tax_amount |-> tax,
       total |-> (subtotal - off) + tax]

ServerTotals(cart, isMember, campaigns, rateBp, day) ==
  TotalsOf(cart,
           [c \in DOMAIN cart |->
              ServerLineDiscount(c, cart[c], isMember, campaigns, day)],
           rateBp)

ClientTotals(cart, isMember, campaigns, rateBp) ==
  TotalsOf(cart,
           [c \in DOMAIN cart |->
              ClientLineDiscount(c, cart[c], isMember, campaigns)],
           rateBp)
==============================================================================
