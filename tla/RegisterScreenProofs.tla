----------------------- MODULE RegisterScreenProofs -----------------------
(***************************************************************************)
(* The promises of the register screen, for any number of products,        *)
(* members, lookups under way and customers, and any limits.               *)
(*                                                                         *)
(* Four facts make them inductive: the member set and the member drawn are *)
(* each the one of the cart set and drawn; the line that the reducer has   *)
(* selected is the one that is drawn as selected, or none; no line is      *)
(* drawn with more than the cart holds; and no lookup is from a customer   *)
(* who is still to come.                                                   *)
(***************************************************************************)
EXTENDS RegisterScreen, FiniteSetTheorems, TLAPS

CartOK(c) ==
  /\ c \in CartState
  /\ IsFiniteSet(LinesOf(c))
  /\ Cardinality(LinesOf(c)) =< LinesMax
  /\ c.selected \in LinesOf(c) \cup {None}

Served == 1 .. MaxCustomers

AskedOK == askedFor \in [lines : [Product -> SUBSET Served], member : SUBSET Served,
                         found : SUBSET Served]

LookupsOK ==
  /\ lookups \subseteq Lookup
  /\ \A k, l \in lookups : k.n = l.n => k = l
  /\ \A l \in lookups : l.customer =< customer

CartsOK ==
  /\ CartOK(cart) /\ CartOK(shown)
  /\ cart.selected \in {None, shown.selected}
  /\ DrawnIsBought
  /\ MemberFitsCart
  /\ member \in Member \cup {None}

EntryOK == productCode \in Product \cup {None} /\ foundProduct \in Product \cup {None}

PhaseOK ==
  /\ settingsLoaded \in BOOLEAN /\ purchasing \in BOOLEAN /\ completed \in BOOLEAN
  /\ customer \in Served

IInv == CartsOK /\ EntryOK /\ PhaseOK /\ LookupsOK /\ AskedOK

USE CodeAssumption, LimitAssumption

-----------------------------------------------------------------------------
LEMMA InitialCartOK == CartOK(InitialCart) /\ LinesOf(InitialCart) = {}
<1>1. InitialCart \in CartState
  BY DEF InitialCart, CartState
<1>2. LinesOf(InitialCart) = {}
  BY DEF InitialCart, LinesOf
<1>3. QED
  BY <1>1, <1>2, FS_EmptySet DEF CartOK, InitialCart

(* ADD_PRODUCT takes nothing away and keeps to the limits.                 *)
LEMMA AddedToOK ==
  ASSUME NEW c, CartOK(c), NEW p \in Product
  PROVE  /\ CartOK(AddedTo(c, p))
         /\ AddedTo(c, p).member = c.member
         /\ AddedTo(c, p).selected \in {None, c.selected}
         /\ \A x \in Product : AddedTo(c, p).qty[x] >= c.qty[x]
<1>1. CASE AtLimit(c, p)
  BY <1>1 DEF AddedTo, CartOK, CartState
<1>2. CASE ~AtLimit(c, p)
  <2> DEFINE q == [c.qty EXCEPT ![p] = c.qty[p] + 1]
             d == [qty |-> q, selected |-> None, member |-> c.member]
  <2>1. c \in CartState /\ c.qty[p] + 1 \in 1 .. QuantityMax
    BY <1>2 DEF CartOK, CartState, AtLimit
  <2>2. /\ d \in CartState /\ d.qty = [c.qty EXCEPT ![p] = c.qty[p] + 1]
        /\ d.selected = None /\ d.member = c.member
    <3>1. q \in [Product -> 0 .. QuantityMax]
      BY <2>1 DEF CartState
    <3>2. QED
      BY <2>1, <3>1 DEF CartState
  <2>3. LinesOf(d) = LinesOf(c) \cup {p}
    BY <2>1, <2>2 DEF LinesOf, CartState
  <2>4. IsFiniteSet(LinesOf(d)) /\ Cardinality(LinesOf(d)) =< LinesMax
    <3>1. CASE p \in LinesOf(c)
      BY <2>3, <3>1 DEF CartOK
    <3>2. CASE p \notin LinesOf(c)
      <4>1. Cardinality(LinesOf(c)) < LinesMax /\ Cardinality(LinesOf(c)) \in Nat
        BY <1>2, <2>1, <3>2, FS_CardinalityType DEF AtLimit, LinesOf, CartOK, CartState
      <4>2. IsFiniteSet(LinesOf(d)) /\ Cardinality(LinesOf(d)) = Cardinality(LinesOf(c)) + 1
        BY <2>3, <3>2, FS_AddElement DEF CartOK
      <4>3. QED
        BY <4>1, <4>2
    <3>3. QED
      BY <3>1, <3>2
  <2>5. AddedTo(c, p) = d
    BY <1>2, <2>1 DEF AddedTo, CartState
  <2>6. \A x \in Product : d.qty[x] >= c.qty[x]
    BY <2>1, <2>2 DEF CartState
  <2>7. QED
    BY <2>2, <2>4, <2>5, <2>6 DEF CartOK
<1>3. QED
  BY <1>1, <1>2

(* REMOVE_SELECTED takes the selected line away.                           *)
LEMMA RemovedFromOK ==
  ASSUME NEW c, CartOK(c)
  PROVE  /\ CartOK(RemovedFrom(c))
         /\ RemovedFrom(c).member = c.member
         /\ RemovedFrom(c).selected = None
         /\ \A x \in Product \ {c.selected} : RemovedFrom(c).qty[x] = c.qty[x]
<1>1. CASE c.selected = None
  BY <1>1 DEF RemovedFrom, CartOK
<1>2. CASE c.selected # None
  <2> DEFINE q == [c.qty EXCEPT ![c.selected] = 0]
             d == [qty |-> q, selected |-> None, member |-> c.member]
  <2>1. c \in CartState /\ c.selected \in Product
    BY <1>2 DEF CartOK, LinesOf
  <2>2. /\ d \in CartState /\ d.qty = [c.qty EXCEPT ![c.selected] = 0]
        /\ d.selected = None /\ d.member = c.member
    <3>1. q \in [Product -> 0 .. QuantityMax]
      BY <2>1 DEF CartState
    <3>2. QED
      BY <2>1, <3>1 DEF CartState
  <2>3. LinesOf(d) = LinesOf(c) \ {c.selected}
    BY <2>1, <2>2 DEF LinesOf, CartState
  <2>4. IsFiniteSet(LinesOf(d)) /\ Cardinality(LinesOf(d)) =< Cardinality(LinesOf(c))
    BY <2>3, FS_Subset DEF CartOK
  <2>5. Cardinality(LinesOf(c)) \in Nat /\ Cardinality(LinesOf(d)) \in Nat
    BY <2>4, FS_CardinalityType DEF CartOK
  <2>6. RemovedFrom(c) = d
    BY <1>2, <2>1 DEF RemovedFrom, CartState
  <2>7. \A x \in Product \ {c.selected} : d.qty[x] = c.qty[x]
    BY <2>1, <2>2 DEF CartState
  <2>8. QED
    BY <2>2, <2>4, <2>5, <2>6, <2>7 DEF CartOK
<1>3. QED
  BY <1>1, <1>2

(* SET_QUANTITY changes the selected line only.                            *)
LEMMA WithQuantityOK ==
  ASSUME NEW c, CartOK(c), NEW q \in 1 .. QuantityMax
  PROVE  /\ CartOK(WithQuantity(c, q))
         /\ WithQuantity(c, q).member = c.member
         /\ WithQuantity(c, q).selected = c.selected
         /\ \A x \in Product \ {c.selected} : WithQuantity(c, q).qty[x] = c.qty[x]
<1>1. CASE c.selected = None
  BY <1>1 DEF WithQuantity, CartOK
<1>2. CASE c.selected # None
  <2> DEFINE d == [c EXCEPT !.qty[c.selected] = q]
  <2>1. c \in CartState /\ c.selected \in LinesOf(c) /\ c.selected \in Product
    BY <1>2 DEF CartOK, LinesOf
  <2>2. /\ d \in CartState /\ d.qty = [c.qty EXCEPT ![c.selected] = q]
        /\ d.selected = c.selected /\ d.member = c.member
    BY <2>1 DEF CartState
  <2>3. LinesOf(d) = LinesOf(c)
    BY <2>1, <2>2 DEF LinesOf, CartState
  <2>4. WithQuantity(c, q) = d
    BY <1>2 DEF WithQuantity
  <2>5. \A x \in Product \ {c.selected} : d.qty[x] = c.qty[x]
    BY <2>1, <2>2 DEF CartState
  <2>6. QED
    BY <2>2, <2>3, <2>4, <2>5 DEF CartOK
<1>3. QED
  BY <1>1, <1>2

(* SET_MEMBER and SELECT_LINE leave the lines alone.                       *)
LEMMA WithMemberOK ==
  ASSUME NEW c, CartOK(c), NEW m \in Member \cup {None}
  PROVE  /\ CartOK([c EXCEPT !.member = m])
         /\ [c EXCEPT !.member = m].member = m
         /\ [c EXCEPT !.member = m].selected = c.selected
         /\ [c EXCEPT !.member = m].qty = c.qty
BY DEF CartOK, CartState, LinesOf

LEMMA WithSelectedOK ==
  ASSUME NEW c, CartOK(c), NEW p \in LinesOf(c)
  PROVE  /\ CartOK([c EXCEPT !.selected = p])
         /\ [c EXCEPT !.selected = p].member = c.member
         /\ [c EXCEPT !.selected = p].qty = c.qty
BY DEF CartOK, CartState, LinesOf

-----------------------------------------------------------------------------
LEMMA InitInv == Init => IInv
<1> SUFFICES ASSUME Init PROVE IInv
  OBVIOUS
<1>1. InitialCart.member = None /\ InitialCart.selected = None
  BY DEF InitialCart
<1>2. CartsOK
  BY <1>1, InitialCartOK DEF Init, CartsOK, MemberFitsCart, DrawnIsBought, InitialCart
<1>3. EntryOK /\ LookupsOK
  BY DEF Init, EntryOK, LookupsOK
<1>4. PhaseOK
  <2>1. customer \in Served
    BY DEF Init, Served
  <2>2. QED
    BY <2>1, Zenon DEF Init, PhaseOK
<1>5. AskedOK
  BY DEF Init, AskedOK, Nobody
<1>6. QED
  BY <1>2, <1>3, <1>4, <1>5 DEF IInv

LEMMA InvImpliesTypeOK == IInv => TypeOK
<1> SUFFICES ASSUME IInv PROVE TypeOK
  OBVIOUS
<1>1. shownMember \in Member \cup {None}
  BY DEF IInv, CartsOK, MemberFitsCart, CartOK, CartState
<1>2. QED
  BY <1>1 DEF IInv, TypeOK, CartsOK, CartOK, EntryOK, PhaseOK, LookupsOK, AskedOK, Served

(* A dispatch in an answer may take the selection away, never move it.     *)
LEMMA LaterOK ==
  ASSUME CartsOK, NEW d, CartOK(d), d.selected \in {None, cart.selected},
         \A p \in Product : d.qty[p] >= cart.qty[p],
         NEW m \in Member \cup {None}, d.member = m, DispatchLater(d, m)
  PROVE  CartsOK'
<1>1. DrawnIsBought'
  BY DEF CartsOK, CartOK, CartState, DispatchLater, DrawnIsBought
<1> QED
  BY <1>1 DEF CartsOK, CartOK, DispatchLater, LinesOf, MemberFitsCart

(* A dispatch in a click is drawn at once.                                 *)
LEMMA NowOK ==
  ASSUME NEW d, CartOK(d), NEW m \in Member \cup {None}, d.member = m, DispatchNow(d, m)
  PROVE  CartsOK'
<1>1. DrawnIsBought'
  BY DEF CartOK, CartState, DispatchNow, DrawnIsBought
<1> QED
  BY <1>1 DEF CartsOK, CartOK, DispatchNow, LinesOf, MemberFitsCart

(* Nothing is set, and all that was set before is drawn.                   *)
LEMMA DrawOK ==
  ASSUME CartsOK, DispatchNow(cart, member)
  PROVE  CartsOK'
BY NowOK DEF CartsOK, MemberFitsCart

LEMMA AskInv ==
  ASSUME IInv, NEW use \in {"scan", "entry", "member"},
         NEW code \in IF use = "member" THEN Member ELSE Product,
         Ask(use, code)
  PROVE  IInv'
<1>1. PICK n \in Call \ {l.n : l \in lookups} :
        lookups' = lookups \cup {[n |-> n, use |-> use, code |-> code, customer |-> customer]}
  BY DEF Ask
<1> DEFINE new == [n |-> n, use |-> use, code |-> code, customer |-> customer]
<1>2. new \in Lookup
  BY DEF Lookup, IInv, PhaseOK, Served
<1>3. LookupsOK'
  <2>1. \A l \in lookups : l.n # n
    BY <1>1
  <2>2. customer' = customer
    BY DEF Ask, phase
  <2>3. QED
    BY <1>1, <1>2, <2>1, <2>2 DEF IInv, LookupsOK, PhaseOK, Served
<1>4. UNCHANGED <<screen, entry, phase, askedFor>>
  BY DEF Ask
<1>5. CartsOK' /\ EntryOK' /\ PhaseOK' /\ AskedOK'
  BY <1>4 DEF IInv, CartsOK, MemberFitsCart, DrawnIsBought, CartOK, LinesOf, EntryOK, PhaseOK,
              AskedOK, screen, entry, phase
<1>6. QED
  BY <1>3, <1>5 DEF IInv

LEMMA AnsweredInv ==
  ASSUME IInv, NEW l \in lookups, Answered(l)
  PROVE  IInv'
<1>1. UNCHANGED phase /\ lookups' = lookups \ {l}
  BY DEF Answered
<1>2. PhaseOK' /\ LookupsOK'
  BY <1>1 DEF IInv, PhaseOK, LookupsOK, phase
<1>3. l \in Lookup /\ CartOK(cart)
  BY DEF IInv, LookupsOK, CartsOK
<1>4. CASE MemberAnswered(l)
  <2>1. l.code \in Member /\ l.customer \in Served
    BY <1>3, <1>4 DEF MemberAnswered, Lookup, Served
  <2>2. CartsOK'
    <3>1. \A p \in Product : [cart EXCEPT !.member = l.code].qty[p] >= cart.qty[p]
      BY <1>3, <2>1, WithMemberOK DEF CartOK, CartState
    <3>2. QED
      BY <1>3, <1>4, <2>1, <3>1, WithMemberOK, LaterOK DEF IInv, MemberAnswered, Current
  <2>3. EntryOK' /\ AskedOK'
    BY <1>4, <2>1 DEF IInv, MemberAnswered, EntryOK, AskedOK, entry
  <2>4. QED
    BY <1>2, <2>2, <2>3 DEF IInv
<1>5. CASE ScanAnswered(l)
  <2>1. l.code \in Product /\ l.customer \in Served
    BY <1>3, <1>5 DEF ScanAnswered, Lookup, Served
  <2>2. /\ CartOK(AddedTo(cart, l.code))
        /\ AddedTo(cart, l.code).member = cart.member
        /\ AddedTo(cart, l.code).selected \in {None, cart.selected}
        /\ \A p \in Product : AddedTo(cart, l.code).qty[p] >= cart.qty[p]
    BY <1>3, <2>1, AddedToOK
  <2>3. CartsOK'
    BY <1>5, <2>2, LaterOK DEF IInv, CartsOK, MemberFitsCart, ScanAnswered, Current
  <2>4. EntryOK' /\ AskedOK'
    BY <1>5, <2>1 DEF IInv, ScanAnswered, Contributes, EntryOK, AskedOK, entry
  <2>5. QED
    BY <1>2, <2>3, <2>4 DEF IInv
<1>6. CASE EntryAnswered(l)
  <2>1. l.code \in Product /\ l.customer \in Served
    BY <1>3, <1>6 DEF EntryAnswered, Lookup, Served
  <2>2. CartsOK'
    BY <1>6 DEF IInv, CartsOK, MemberFitsCart, DrawnIsBought, CartOK, LinesOf, screen, EntryAnswered
  <2>3. EntryOK' /\ AskedOK'
    BY <1>6, <2>1 DEF IInv, EntryAnswered, EntryOK, AskedOK
  <2>4. QED
    BY <1>2, <2>2, <2>3 DEF IInv
<1>7. CASE LookupFailed
  BY <1>2, <1>7 DEF IInv, LookupFailed, CartsOK, MemberFitsCart, DrawnIsBought, CartOK,
                    LinesOf, EntryOK, AskedOK, screen, entry
<1>8. QED
  BY <1>4, <1>5, <1>6, <1>7 DEF Answered

(* What the cashier does to the cart.                                      *)
LEMMA CartClicksInv ==
  ASSUME IInv,
         \/ Render \/ OnNoMember \/ OnProductAdd \/ (\E p \in Product : OnSelect(p))
         \/ OnChangeQuantity \/ OnRemove
  PROVE  IInv'
<1>1. CartOK(cart) /\ CartOK(shown) /\ cart.member = member /\ member \in Member \cup {None}
  BY DEF IInv, CartsOK, MemberFitsCart
<1> USE DEF entry, phase
<1>2. CASE Render
  <2>1. CartsOK'
    BY <1>2, DrawOK DEF IInv, Render
  <2>2. QED
    BY <1>2, <2>1 DEF IInv, Render, EntryOK, PhaseOK, LookupsOK, AskedOK
<1>3. CASE OnNoMember
  <2>1. CartsOK'
    BY <1>1, <1>3, WithMemberOK, NowOK DEF OnNoMember, Current
  <2>2. QED
    BY <1>3, <2>1 DEF IInv, OnNoMember, EntryOK, PhaseOK, LookupsOK, AskedOK
<1>4. CASE OnProductAdd
  <2>1. foundProduct \in Product
    BY <1>4 DEF IInv, EntryOK, OnProductAdd
  <2>2. CartOK(AddedTo(cart, foundProduct)) /\ AddedTo(cart, foundProduct).member = member
    BY <1>1, <2>1, AddedToOK
  <2>3. CartsOK'
    BY <1>1, <1>4, <2>2, NowOK DEF OnProductAdd, Current
  <2>4. AskedOK' /\ EntryOK'
    <3>1. CASE AtLimit(Current, foundProduct)
      BY <1>4, <3>1 DEF IInv, OnProductAdd, AskedOK, EntryOK
    <3>2. CASE ~AtLimit(Current, foundProduct)
      <4>1. askedFor' = [Contributes(foundProduct, askedFor.found) EXCEPT !.found = {}]
        BY <1>4, <3>2 DEF OnProductAdd
      <4>2. askedFor.found \in SUBSET Served
        BY DEF IInv, AskedOK
      <4>3. Contributes(foundProduct, askedFor.found) \in
              [lines : [Product -> SUBSET Served], member : SUBSET Served, found : SUBSET Served]
        BY <2>1, <4>2 DEF IInv, AskedOK, Contributes
      <4>4. QED
        BY <1>4, <3>2, <4>1, <4>3 DEF OnProductAdd, AskedOK, EntryOK
    <3>3. QED
      BY <3>1, <3>2
  <2>5. PhaseOK' /\ LookupsOK'
    BY <1>4 DEF IInv, OnProductAdd, PhaseOK, LookupsOK
  <2>6. QED
    BY <2>3, <2>4, <2>5 DEF IInv
<1>5. CASE \E p \in Product : OnSelect(p)
  <2>1. PICK p \in Product : OnSelect(p)
    BY <1>5
  <2>2. CartsOK'
    <3>1. CASE p \in LinesOf(cart)
      BY <1>1, <2>1, <3>1, WithSelectedOK, NowOK DEF OnSelect, Current
    <3>2. CASE p \notin LinesOf(cart)
      BY <1>1, <2>1, <3>2, NowOK DEF OnSelect, Current
    <3>3. QED
      BY <3>1, <3>2
  <2>3. QED
    BY <2>1, <2>2 DEF IInv, OnSelect, EntryOK, PhaseOK, LookupsOK, AskedOK
<1>6. CASE OnChangeQuantity
  <2>1. PICK q \in 1 .. QuantityMax : DispatchNow(WithQuantity(cart, q), member)
    BY <1>6 DEF OnChangeQuantity, Current
  <2>2. CartOK(WithQuantity(cart, q)) /\ WithQuantity(cart, q).member = member
    BY <1>1, WithQuantityOK
  <2>3. CartsOK'
    BY <1>1, <1>6, <2>1, <2>2, NowOK DEF OnChangeQuantity
  <2>4. QED
    BY <1>6, <2>3 DEF IInv, OnChangeQuantity, EntryOK, PhaseOK, LookupsOK, AskedOK
<1>7. CASE OnRemove
  <2>1. CartOK(RemovedFrom(cart)) /\ RemovedFrom(cart).member = member
    BY <1>1, RemovedFromOK
  <2>2. CartsOK'
    BY <1>1, <1>7, <2>1, NowOK DEF OnRemove, Current
  <2>3. AskedOK'
    BY <1>7 DEF IInv, OnRemove, AskedOK
  <2>4. QED
    BY <1>7, <2>2, <2>3 DEF IInv, OnRemove, EntryOK, PhaseOK, LookupsOK
<1>8. QED
  BY <1>2, <1>3, <1>4, <1>5, <1>6, <1>7

(* Everything else: the entry, the settings, the purchase and its end.     *)
LEMMA PhaseStepsInv ==
  ASSUME IInv,
         \/ OnProductCodeChange \/ LoadSettings \/ OnPurchase \/ PurchaseAnswered
         \/ CloseCompletion \/ Leave
  PROVE  IInv'
<1> USE DEF entry, phase
<1>1. CASE OnProductCodeChange
  <2>1. CartsOK'
    BY <1>1, DrawOK DEF IInv, OnProductCodeChange
  <2>2. AskedOK'
    BY <1>1 DEF IInv, AskedOK, OnProductCodeChange
  <2>3. QED
    BY <1>1, <2>1, <2>2 DEF IInv, OnProductCodeChange, EntryOK, PhaseOK, LookupsOK
<1>2. CASE LoadSettings \/ OnPurchase \/ PurchaseAnswered
  <2>1. /\ UNCHANGED screen \/ DispatchNow(cart, member)
        /\ UNCHANGED <<entry, lookups, customer, askedFor>> /\ PhaseOK'
    BY <1>2 DEF IInv, PhaseOK, LoadSettings, OnPurchase, PurchaseAnswered
  <2>2. CartsOK'
    <3>1. CASE UNCHANGED screen
      BY <3>1 DEF IInv, CartsOK, MemberFitsCart, DrawnIsBought, CartOK, LinesOf, screen
    <3>2. CASE DispatchNow(cart, member)
      BY <3>2, DrawOK DEF IInv
    <3>3. QED
      BY <2>1, <3>1, <3>2
  <2>3. QED
    BY <2>1, <2>2 DEF IInv, EntryOK, LookupsOK, AskedOK
<1>3. CASE CloseCompletion \/ Leave
  <2>1. /\ DispatchNow(InitialCart, None) /\ productCode' = None
        /\ foundProduct' = None /\ askedFor' = Nobody /\ lookups' \subseteq lookups
        /\ customer' \in Served /\ customer =< customer'
    BY <1>3 DEF IInv, PhaseOK, Served, CloseCompletion, Leave
  <2>2. CartsOK'
    <3>1. InitialCart.member = None
      BY DEF InitialCart
    <3>2. QED
      BY <2>1, <3>1, InitialCartOK, NowOK
  <2>3. LookupsOK'
    <3>1. \A l \in lookups : l.customer \in Int /\ customer \in Int /\ customer' \in Int
      BY <2>1 DEF IInv, LookupsOK, Lookup, PhaseOK, Served
    <3>2. QED
      BY <2>1, <3>1 DEF IInv, LookupsOK
  <2>4. EntryOK' /\ AskedOK'
    BY <2>1 DEF EntryOK, AskedOK, Nobody
  <2>5. PhaseOK'
    BY <1>3, <2>1 DEF IInv, PhaseOK, CloseCompletion, Leave
  <2>6. QED
    BY <2>2, <2>3, <2>4, <2>5 DEF IInv
<1>4. QED
  BY <1>1, <1>2, <1>3

LEMMA NextInv == IInv /\ [Next]_vars => IInv'
<1> SUFFICES ASSUME IInv, [Next]_vars PROVE IInv'
  OBVIOUS
<1>1. CASE UNCHANGED vars
  BY <1>1 DEF vars, entry, phase, IInv, CartsOK, MemberFitsCart, DrawnIsBought, CartOK, LinesOf, EntryOK, PhaseOK,
              LookupsOK, AskedOK
<1>2. CASE OnScan \/ OnMemberLookup \/ OnProductLookup
  <2>1. \/ \E m \in Member : Ask("member", m)
        \/ \E p \in Product : Ask("scan", p) \/ Ask("entry", p)
    BY <1>2 DEF IInv, EntryOK, OnScan, OnMemberLookup, OnProductLookup
  <2>2. CASE \E m \in Member : Ask("member", m)
    BY <2>2, AskInv
  <2>3. CASE \E p \in Product : Ask("scan", p) \/ Ask("entry", p)
    BY <2>3, AskInv
  <2>4. QED
    BY <2>1, <2>2, <2>3
<1>3. CASE \E l \in lookups : Answered(l)
  BY <1>3, AnsweredInv
<1>4. QED
  BY <1>1, <1>2, <1>3, CartClicksInv, PhaseStepsInv DEF Next

LEMMA InvHolds == Spec => []IInv
BY InitInv, NextInv, PTL DEF Spec

-----------------------------------------------------------------------------
(* Type correctness: among others, the limits of the cart hold.            *)
THEOREM ScreenTypes == Spec => []TypeOK
BY InvHolds, InvImpliesTypeOK, PTL

(* The name on the screen and the discounts on the screen are one member's, *)
(* and the next drawing shows who is charged.                              *)
THEOREM ShownMemberFitsCart == Spec => []MemberFitsCart
<1>1. IInv => MemberFitsCart
  BY DEF IInv, CartsOK
<1>2. QED
  BY <1>1, InvHolds, PTL

(* The member charged is the one drawn, or was looked up: the two part     *)
(* with the answer of a lookup of that member, and not before.             *)
LEMMA StepCharges ==
  ASSUME IInv, [Next]_vars, cart'.member # shownMember'
  PROVE  \/ UNCHANGED <<cart.member, shownMember>>
         \/ \E l \in lookups \ lookups' : l.use = "member" /\ l.code = cart'.member
<1>1. /\ MemberFitsCart' /\ CartOK(cart) /\ cart.member = member
  BY NextInv DEF IInv, CartsOK, MemberFitsCart
<1>2. ~ \E c, m : DispatchNow(c, m)
  BY <1>1 DEF MemberFitsCart, DispatchNow
<1>3. CASE \E l \in lookups : Answered(l)
  <2>1. PICK l \in lookups : Answered(l)
    BY <1>3
  <2>2. l \notin lookups'
    BY <2>1 DEF Answered
  <2>3. CASE MemberAnswered(l)
    BY <1>1, <2>2, <2>3 DEF MemberFitsCart, MemberAnswered, DispatchLater
  <2>4. CASE ScanAnswered(l)
    BY <1>1, <2>4 DEF MemberFitsCart, ScanAnswered, DispatchLater
  <2>5. CASE EntryAnswered(l) \/ LookupFailed
    BY <2>5 DEF EntryAnswered, LookupFailed, screen
  <2>6. QED
    BY <2>1, <2>3, <2>4, <2>5 DEF Answered
<1>4. CASE UNCHANGED screen
  BY <1>4 DEF screen
<1>5. QED
  BY <1>2, <1>3, <1>4 DEF Next, vars, screen, Render, OnScan, OnMemberLookup, OnProductLookup, Ask,
       OnNoMember, OnProductCodeChange, OnProductAdd, OnSelect, OnChangeQuantity, OnRemove,
       LoadSettings, OnPurchase, PurchaseAnswered, CloseCompletion, Leave

THEOREM UnseenMemberWasAnswered == Spec => OnlyAnswersChargeUnseen
<1>1. IInv /\ [Next]_vars =>
        [cart'.member # shownMember' =>
           \/ UNCHANGED <<cart.member, shownMember>>
           \/ \E l \in lookups \ lookups' : l.use = "member" /\ l.code = cart'.member]_vars
  BY StepCharges
<1>2. QED
  BY <1>1, InvHolds, PTL DEF Spec, OnlyAnswersChargeUnseen

(* Nothing that is drawn is missing from the purchase.                     *)
THEOREM WhatIsDrawnIsBought == Spec => []DrawnIsBought
<1>1. IInv => DrawnIsBought
  BY DEF IInv, CartsOK
<1>2. QED
  BY <1>1, InvHolds, PTL

(* Only the line that is drawn as selected loses quantity, but for a       *)
(* screen that is emptied.                                                 *)
LEMMA StepLosesByHand ==
  ASSUME IInv, [Next]_vars, NEW p \in Product, cart'.qty[p] < cart.qty[p]
  PROVE  p = shown.selected \/ cart' = InitialCart
<1>1. /\ CartOK(cart) /\ cart.selected \in {None, shown.selected}
      /\ cart.qty[p] \in Nat /\ p # None
  BY DEF IInv, CartsOK, CartOK, CartState
<1>2. cart' # cart
  BY <1>1
<1>3. CASE \E l \in lookups : Answered(l)
  <2>1. PICK l \in lookups : Answered(l)
    BY <1>3
  <2>2. CASE MemberAnswered(l)
    BY <1>1, <2>2 DEF MemberAnswered, DispatchLater, Current, CartOK, CartState
  <2>3. CASE ScanAnswered(l)
    <3>1. l.code \in Product
      BY <2>3 DEF IInv, LookupsOK, Lookup, ScanAnswered
    <3>2. AddedTo(cart, l.code).qty[p] >= cart.qty[p] /\ CartOK(AddedTo(cart, l.code))
      BY <1>1, <3>1, AddedToOK
    <3>3. cart' = AddedTo(cart, l.code)
      BY <2>3 DEF ScanAnswered, DispatchLater, Current
    <3>4. AddedTo(cart, l.code).qty[p] \in Nat
      BY <3>2 DEF CartOK, CartState
    <3>5. QED
      BY <1>1, <3>2, <3>3, <3>4
  <2>4. CASE EntryAnswered(l) \/ LookupFailed
    BY <1>2, <2>4 DEF EntryAnswered, LookupFailed, screen
  <2>5. QED
    BY <2>1, <2>2, <2>3, <2>4 DEF Answered
<1>4. CASE OnNoMember
  BY <1>1, <1>4 DEF OnNoMember, DispatchNow, Current, CartOK, CartState
<1>5. CASE OnProductAdd
  <2>1. foundProduct \in Product
    BY <1>5 DEF IInv, EntryOK, OnProductAdd
  <2>2. AddedTo(cart, foundProduct).qty[p] >= cart.qty[p] /\ CartOK(AddedTo(cart, foundProduct))
    BY <1>1, <2>1, AddedToOK
  <2>3. cart' = AddedTo(cart, foundProduct)
    BY <1>5 DEF OnProductAdd, DispatchNow, Current
  <2>4. AddedTo(cart, foundProduct).qty[p] \in Nat
    BY <2>2 DEF CartOK, CartState
  <2>5. QED
    BY <1>1, <2>2, <2>3, <2>4
<1>6. CASE \E q \in Product : OnSelect(q)
  BY <1>1, <1>6 DEF OnSelect, DispatchNow, Current, CartOK, CartState
<1>7. CASE OnChangeQuantity
  <2>1. PICK q \in 1 .. QuantityMax : cart' = WithQuantity(cart, q)
    BY <1>7 DEF OnChangeQuantity, DispatchNow, Current
  <2>2. \A x \in Product \ {cart.selected} : cart'.qty[x] = cart.qty[x]
    BY <1>1, <2>1, WithQuantityOK
  <2>3. QED
    BY <1>1, <2>2
<1>8. CASE OnRemove
  <2>1. cart' = RemovedFrom(cart)
    BY <1>8 DEF OnRemove, DispatchNow, Current
  <2>2. \A x \in Product \ {cart.selected} : cart'.qty[x] = cart.qty[x]
    BY <1>1, <2>1, RemovedFromOK
  <2>3. QED
    BY <1>1, <2>2
<1>9. CASE CloseCompletion \/ Leave
  BY <1>9 DEF CloseCompletion, Leave, DispatchNow
<1>10. CASE \/ UNCHANGED vars \/ Render \/ OnScan \/ OnMemberLookup \/ OnProductLookup
            \/ OnProductCodeChange \/ LoadSettings \/ OnPurchase \/ PurchaseAnswered
  BY <1>2, <1>10 DEF vars, screen, Render, DispatchNow, OnScan, OnMemberLookup, OnProductLookup, Ask,
                     OnProductCodeChange, LoadSettings, OnPurchase, PurchaseAnswered
<1>11. QED
  BY <1>3, <1>4, <1>5, <1>6, <1>7, <1>8, <1>9, <1>10 DEF Next

THEOREM NothingIsLost == Spec => GoodsLeaveByHand
<1>1. IInv /\ [Next]_vars =>
        [\A p \in Product :
           cart'.qty[p] < cart.qty[p] => p = shown.selected \/ cart' = InitialCart]_vars
  BY StepLosesByHand
<1>2. QED
  BY <1>1, InvHolds, PTL DEF Spec, GoodsLeaveByHand

(* FR-011: what an earlier customer asked for gets onto the screen with a  *)
(* late answer, or not at all.                                             *)
LEMMA StepCarriesOver ==
  ASSUME IInv, [Next]_vars, NothingCarriedOver, ~NothingCarriedOver'
  PROVE  \E l \in lookups \ lookups' : l.customer < customer
<1>1. /\ askedFor \in [lines : [Product -> SUBSET Served], member : SUBSET Served,
                       found : SUBSET Served]
      /\ \A p \in Product : askedFor.lines[p] \subseteq {customer}
      /\ askedFor.member \subseteq {customer} /\ askedFor.found \subseteq {customer}
  BY DEF IInv, AskedOK, NothingCarriedOver
<1>2. ~ (customer' = customer /\ askedFor' = askedFor)
  BY <1>1 DEF NothingCarriedOver
<1>3. CASE \E l \in lookups : Answered(l)
  <2>1. PICK l \in lookups : Answered(l)
    BY <1>3
  <2>2. l \notin lookups' /\ customer' = customer
    BY <2>1 DEF Answered, phase
  <2>3. l.customer \in Int /\ customer \in Int /\ l.customer =< customer
    BY <2>1 DEF IInv, LookupsOK, Lookup, PhaseOK, Served
  <2>4. SUFFICES ASSUME l.customer = customer PROVE FALSE
    BY <2>2, <2>3
  <2>5. CASE MemberAnswered(l)
    BY <1>1, <2>2, <2>4, <2>5 DEF MemberAnswered, NothingCarriedOver
  <2>6. CASE ScanAnswered(l)
    <3>1. l.code \in Product
      BY <2>1, <2>6 DEF IInv, LookupsOK, Lookup, ScanAnswered
    <3>2. askedFor' \in {askedFor, [askedFor EXCEPT !.lines[l.code] = @ \cup {customer}]}
      BY <2>4, <2>6 DEF ScanAnswered, Contributes
    <3>3. QED
      BY <1>1, <2>2, <3>1, <3>2 DEF NothingCarriedOver
  <2>7. CASE EntryAnswered(l)
    BY <1>1, <2>2, <2>4, <2>7 DEF EntryAnswered, NothingCarriedOver
  <2>8. CASE LookupFailed
    BY <1>2, <2>2, <2>8 DEF LookupFailed
  <2>9. QED
    BY <2>1, <2>5, <2>6, <2>7, <2>8 DEF Answered
<1>4. CASE OnProductAdd
  <2>1. customer' = customer /\ foundProduct \in Product
    BY <1>4 DEF IInv, EntryOK, OnProductAdd, phase
  <2>2. CASE AtLimit(Current, foundProduct)
    BY <1>2, <1>4, <2>1, <2>2 DEF OnProductAdd
  <2>3. CASE ~AtLimit(Current, foundProduct)
    <3> DEFINE lines == [askedFor.lines EXCEPT ![foundProduct] = @ \cup askedFor.found]
    <3>1. askedFor' = [lines |-> lines, member |-> askedFor.member, found |-> {}]
      BY <1>1, <1>4, <2>3 DEF OnProductAdd, Contributes
    <3>2. \A p \in Product : lines[p] \subseteq {customer}
      BY <1>1, <2>1
    <3>3. QED
      BY <1>1, <2>1, <3>1, <3>2 DEF NothingCarriedOver
  <2>4. QED
    BY <2>2, <2>3
<1>5. CASE OnNoMember \/ OnProductCodeChange
  BY <1>1, <1>5 DEF OnNoMember, OnProductCodeChange, phase, NothingCarriedOver
<1>6. CASE OnRemove
  BY <1>1, <1>6 DEF OnRemove, phase, NothingCarriedOver
<1>7. CASE CloseCompletion \/ Leave
  BY <1>7 DEF CloseCompletion, Leave, Nobody, NothingCarriedOver
<1>8. CASE \/ UNCHANGED vars \/ Render \/ OnScan \/ OnMemberLookup \/ OnProductLookup
           \/ (\E p \in Product : OnSelect(p)) \/ OnChangeQuantity
           \/ LoadSettings \/ OnPurchase \/ PurchaseAnswered
  BY <1>2, <1>8 DEF vars, Render, OnScan, OnMemberLookup, OnProductLookup, Ask, OnSelect,
                    OnChangeQuantity, LoadSettings, OnPurchase, PurchaseAnswered, phase
<1>9. QED
  BY <1>3, <1>4, <1>5, <1>6, <1>7, <1>8 DEF Next

THEOREM OnlyLateAnswers == Spec => OnlyLateAnswersCarryOver
<1>1. IInv /\ [Next]_vars =>
        [NothingCarriedOver /\ ~NothingCarriedOver' =>
           \E l \in lookups \ lookups' : l.customer < customer]_vars
  BY StepCarriesOver
<1>2. QED
  BY <1>1, InvHolds, PTL DEF Spec, OnlyLateAnswersCarryOver

(* The product displayed is the one of the code typed, but for the late    *)
(* answer of another code's lookup.                                        *)
THEOREM FoundFollowsTyped == Spec => OnlyLateAnswersMislead
<1>1. ASSUME IInv, [Next]_vars, FoundIsTyped, ~FoundIsTyped'
      PROVE  \E l \in lookups \ lookups' : l.use = "entry" /\ l.code # productCode
  <2>1. CASE \E l \in lookups : Answered(l)
    BY <1>1, <2>1 DEF Answered, MemberAnswered, ScanAnswered, EntryAnswered, LookupFailed,
                      FoundIsTyped, entry
  <2>2. CASE OnProductAdd \/ OnProductCodeChange \/ CloseCompletion \/ Leave
    BY <1>1, <2>2 DEF OnProductAdd, OnProductCodeChange, CloseCompletion, Leave,
                      FoundIsTyped, entry
  <2>3. CASE UNCHANGED <<productCode, foundProduct>>
    BY <1>1, <2>3 DEF FoundIsTyped
  <2>4. QED
    BY <1>1, <2>1, <2>2, <2>3 DEF Next, vars, entry, Render, OnScan, OnMemberLookup,
         OnProductLookup, Ask, OnNoMember, OnSelect, OnChangeQuantity, OnRemove,
         LoadSettings, OnPurchase, PurchaseAnswered
<1>2. IInv /\ [Next]_vars =>
        [FoundIsTyped /\ ~FoundIsTyped' =>
           \E l \in lookups \ lookups' : l.use = "entry" /\ l.code # productCode]_vars
  BY <1>1
<1>3. QED
  BY <1>2, InvHolds, PTL DEF Spec, OnlyLateAnswersMislead
=============================================================================
