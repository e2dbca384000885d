--------------------------- MODULE RegisterScreen ---------------------------
(***************************************************************************)
(* The register screen between two customers: what the cashier types and   *)
(* clicks, what the scanner reads, and the answers of the product and      *)
(* member lookups, which come in any order, after anything else, or never. *)
(*                                                                         *)
(* What is set and what React has drawn of it are two states for the cart  *)
(* (set: cartRef, which the purchase takes) and for the member displayed:  *)
(* the drawing follows at once after a click and some time after an        *)
(* answer.  The other states are taken as drawn when they are set: a click *)
(* that comes before their drawing finds what it would have found before   *)
(* the answer.  The member field may hold any id.                          *)
(*                                                                         *)
(* No handler asks whether the popup is open: it lies over the screen and  *)
(* takes the clicks, which is what ~completed stands for in their guards.  *)
(* Prices, names and notices are left out, and so is the purchase itself,  *)
(* which is the subject of Checkout.                                       *)
(***************************************************************************)
EXTENDS Integers, FiniteSets

CONSTANTS Product,        \* products, by their codes
          Member,         \* members, by their ids
          None,           \* null, or an empty field
          QuantityMax,    \* QUANTITY_MAX
          LinesMax,       \* LINES_MAX
          Call,           \* bound: the lookups that may be under way at a time
          MaxCustomers    \* bound: customers served

ASSUME CodeAssumption == None \notin Product \cup Member

ASSUME LimitAssumption ==
  /\ QuantityMax \in Nat \ {0}
  /\ LinesMax \in Nat
  /\ MaxCustomers \in Nat \ {0}

VARIABLES cart,           \* cartRef.current
          shown,          \* the cart as drawn
          member,         \* the member last set to be displayed
          shownMember,    \* the member displayed, as drawn
          productCode,    \* the product code field
          foundProduct,   \* the product displayed below it
          lookups,        \* the lookups that were not answered yet
          settingsLoaded, \* GET /settings was answered
          purchasing,     \* a purchase is under way
          completed,      \* the popup is open
          customer,       \* whom the cashier is serving
          askedFor        \* the customers for whom the contents were asked

vars == <<cart, shown, member, shownMember, productCode, foundProduct, lookups,
          settingsLoaded, purchasing, completed, customer, askedFor>>

screen == <<cart, shown, member, shownMember>>

phase == <<settingsLoaded, purchasing, completed, customer>>

entry == <<productCode, foundProduct>>

(* A line is a product with a quantity above 0.                            *)
CartState == [qty : [Product -> 0 .. QuantityMax], selected : Product \cup {None},
              member : Member \cup {None}]

InitialCart == [qty |-> [p \in Product |-> 0], selected |-> None, member |-> None]

LinesOf(c) == {p \in Product : c.qty[p] > 0}

(* One GET /products/{code} or /members/{id}.                              *)
Lookup == [n : Call, use : {"scan", "entry"}, code : Product,
           customer : 1 .. MaxCustomers]
            \cup [n : Call, use : {"member"}, code : Member,
                  customer : 1 .. MaxCustomers]

Nobody == [lines |-> [p \in Product |-> {}], member |-> {}, found |-> {}]

Init ==
  /\ cart = InitialCart
  /\ shown = InitialCart
  /\ member = None
  /\ shownMember = None
  /\ productCode = None
  /\ foundProduct = None
  /\ lookups = {}
  /\ settingsLoaded = FALSE
  /\ purchasing = FALSE
  /\ completed = FALSE
  /\ customer = 1
  /\ askedFor = Nobody

-----------------------------------------------------------------------------
\* mutant: the handlers reduce the cart of the last rendering
Current_Rendered == shown

(* What dispatch reduces.                                                  *)
Current == cart

AtLimit(c, p) ==
  IF c.qty[p] > 0 THEN c.qty[p] >= QuantityMax
                  ELSE Cardinality(LinesOf(c)) >= LinesMax

\* mutant: the limits are checked for new lines only
AddedTo_NoQuantityLimit(c, p) ==
  IF c.qty[p] = 0 /\ AtLimit(c, p) THEN c
  ELSE [c EXCEPT !.qty[p] = @ + 1, !.selected = None]

\* mutant: the line that was added to becomes the selected one
AddedTo_Selects(c, p) ==
  IF AtLimit(c, p) THEN c ELSE [c EXCEPT !.qty[p] = @ + 1, !.selected = p]

(* ADD_PRODUCT: at a limit only the error is set.                          *)
AddedTo(c, p) ==
  IF AtLimit(c, p) THEN c ELSE [c EXCEPT !.qty[p] = @ + 1, !.selected = None]

RemovedFrom(c) ==
  IF c.selected = None THEN c
  ELSE [c EXCEPT !.qty[c.selected] = 0, !.selected = None]

WithQuantity(c, q) ==
  IF c.selected = None THEN c ELSE [c EXCEPT !.qty[c.selected] = q]

(* dispatch and setMember in an answer: the drawing follows.               *)
DispatchLater(next, m) == cart' = next /\ member' = m /\ UNCHANGED <<shown, shownMember>>

(* In a click: drawn before the next event, with all that was not drawn.   *)
DispatchNow(next, m) == cart' = next /\ member' = m /\ shown' = next /\ shownMember' = m

Render ==
  /\ <<shown, shownMember>> # <<cart, member>>
  /\ DispatchNow(cart, member)
  /\ UNCHANGED <<entry, lookups, phase, askedFor>>

-----------------------------------------------------------------------------
(* The fetch of a lookup is sent.                                          *)
Ask(use, code) ==
  /\ \E n \in Call \ {l.n : l \in lookups} :
       lookups' = lookups \cup
         {[n |-> n, use |-> use, code |-> code, customer |-> customer]}
  /\ UNCHANGED <<screen, entry, phase, askedFor>>

(* The scanner never stops, not even behind the popup.                     *)
OnScan ==
  \/ \E m \in Member : Ask("member", m)
  \/ \E p \in Product : Ask("scan", p)

OnMemberLookup == ~completed /\ \E m \in Member : Ask("member", m)

OnProductLookup == ~completed /\ productCode # None /\ Ask("entry", productCode)

Contributes(p, customers) == [askedFor EXCEPT !.lines[p] = @ \cup customers]

(* The rest of loadMember.                                                 *)
MemberAnswered(l) ==
  /\ l.use = "member"
  /\ DispatchLater([Current EXCEPT !.member = l.code], l.code)
  /\ askedFor' = [askedFor EXCEPT !.member = {l.customer}]
  /\ UNCHANGED entry

(* The rest of onScan for a product.                                       *)
ScanAnswered(l) ==
  /\ l.use = "scan"
  /\ DispatchLater(AddedTo(Current, l.code), member)
  /\ askedFor' = IF AtLimit(Current, l.code) THEN askedFor
                 ELSE Contributes(l.code, {l.customer})
  /\ UNCHANGED entry

(* The rest of onProductLookup.                                            *)
EntryAnswered(l) ==
  /\ l.use = "entry"
  /\ foundProduct' = l.code
  /\ askedFor' = [askedFor EXCEPT !.found = {l.customer}]
  /\ UNCHANGED <<screen, productCode>>

(* 404, 500 or no connection: a notice.                                    *)
LookupFailed == UNCHANGED <<screen, entry, askedFor>>

Answered(l) ==
  /\ lookups' = lookups \ {l}
  /\ MemberAnswered(l) \/ ScanAnswered(l) \/ EntryAnswered(l) \/ LookupFailed
  /\ UNCHANGED phase

-----------------------------------------------------------------------------
\* mutant: only the display is cleared
OnNoMember_KeepsCharged ==
  /\ ~completed
  /\ DispatchNow(Current, None)
  /\ askedFor' = [askedFor EXCEPT !.member = {}]
  /\ UNCHANGED <<entry, lookups, phase>>

OnNoMember ==
  /\ ~completed
  /\ DispatchNow([Current EXCEPT !.member = None], None)
  /\ askedFor' = [askedFor EXCEPT !.member = {}]
  /\ UNCHANGED <<entry, lookups, phase>>

\* mutant: the product found for the old code stays displayed
OnProductCodeChange_KeepsFound ==
  /\ ~completed
  /\ productCode' \in (Product \cup {None}) \ {productCode}
  /\ DispatchNow(cart, member)
  /\ UNCHANGED <<foundProduct, lookups, phase, askedFor>>

OnProductCodeChange ==
  /\ ~completed
  /\ productCode' \in (Product \cup {None}) \ {productCode}
  /\ foundProduct' = None
  /\ DispatchNow(cart, member)
  /\ askedFor' = [askedFor EXCEPT !.found = {}]
  /\ UNCHANGED <<lookups, phase>>

(* The entry is cleared only when the product could be added.              *)
OnProductAdd ==
  /\ ~completed
  /\ foundProduct # None
  /\ DispatchNow(AddedTo(Current, foundProduct), member)
  /\ IF AtLimit(Current, foundProduct)
       THEN UNCHANGED <<entry, askedFor>>
       ELSE /\ productCode' = None
            /\ foundProduct' = None
            /\ askedFor' = [Contributes(foundProduct, askedFor.found)
                              EXCEPT !.found = {}]
  /\ UNCHANGED <<lookups, phase>>

(* A click on a line that is drawn.                                        *)
OnSelect(p) ==
  /\ ~completed
  /\ p \in LinesOf(shown)
  /\ DispatchNow(IF p \in LinesOf(Current) THEN [Current EXCEPT !.selected = p]
                                           ELSE Current, member)
  /\ UNCHANGED <<entry, lookups, phase, askedFor>>

(* The buttons of SelectedLinePanel, there while a selected line is drawn. *)
OnChangeQuantity ==
  /\ ~completed
  /\ shown.selected # None
  /\ \E q \in 1 .. QuantityMax : DispatchNow(WithQuantity(Current, q), member)
  /\ UNCHANGED <<entry, lookups, phase, askedFor>>

OnRemove ==
  /\ ~completed
  /\ shown.selected # None
  /\ DispatchNow(RemovedFrom(Current), member)
  /\ askedFor' = [askedFor EXCEPT !.lines =
                    [p \in Product |-> IF cart'.qty[p] = 0 THEN {} ELSE @[p]]]
  /\ UNCHANGED <<entry, lookups, phase>>

-----------------------------------------------------------------------------
LoadSettings ==
  /\ ~settingsLoaded
  /\ settingsLoaded' = TRUE
  /\ UNCHANGED <<screen, entry, lookups, purchasing, completed, customer, askedFor>>

(* The button asks the drawn cart, onPurchase cartRef.  The popup is not   *)
(* asked for by either: only its overlay keeps a click from the button.    *)
OnPurchase ==
  /\ settingsLoaded /\ LinesOf(shown) # {} /\ ~purchasing /\ ~completed
  /\ LinesOf(cart) # {}
  /\ purchasing' = TRUE
  /\ DispatchNow(cart, member)
  /\ UNCHANGED <<entry, lookups, settingsLoaded, completed, customer, askedFor>>

\* mutant: the cart is emptied as soon as the purchase is answered
PurchaseAnswered_Empties ==
  /\ purchasing
  /\ purchasing' = FALSE
  /\ completed' = TRUE
  /\ DispatchLater(InitialCart, None)
  /\ UNCHANGED <<entry, lookups, settingsLoaded, customer, askedFor>>

(* After the await: the popup, or a notice.                                *)
PurchaseAnswered ==
  /\ purchasing
  /\ purchasing' = FALSE
  /\ completed' \in BOOLEAN
  /\ UNCHANGED <<screen, entry, lookups, settingsLoaded, customer, askedFor>>

\* mutant: the product that was looked up stays displayed
CloseCompletion_KeepsFound ==
  /\ completed
  /\ customer < MaxCustomers
  /\ completed' = FALSE
  /\ DispatchNow(InitialCart, None)
  /\ productCode' = None
  /\ customer' = customer + 1
  /\ askedFor' = [Nobody EXCEPT !.found = askedFor.found]
  /\ UNCHANGED <<foundProduct, lookups, settingsLoaded, purchasing>>

(* onCloseCompletion: the lookups under way are not told.                  *)
CloseCompletion ==
  /\ completed
  /\ customer < MaxCustomers
  /\ completed' = FALSE
  /\ DispatchNow(InitialCart, None)
  /\ productCode' = None
  /\ foundProduct' = None
  /\ customer' = customer + 1
  /\ askedFor' = Nobody
  /\ UNCHANGED <<lookups, settingsLoaded, purchasing>>

(* A 401, a logout or a reload: a new screen, which the answers to the old *)
(* one no longer reach.                                                    *)
Leave ==
  /\ completed => customer < MaxCustomers
  /\ DispatchNow(InitialCart, None)
  /\ productCode' = None
  /\ foundProduct' = None
  /\ lookups' = {}
  /\ settingsLoaded' = FALSE
  /\ purchasing' = FALSE
  /\ completed' = FALSE
  /\ customer' = IF completed THEN customer + 1 ELSE customer
  /\ askedFor' = Nobody

Next ==
  \/ Render
  \/ OnScan \/ OnMemberLookup \/ OnProductLookup
  \/ \E l \in lookups : Answered(l)
  \/ OnNoMember \/ OnProductCodeChange \/ OnProductAdd
  \/ \E p \in Product : OnSelect(p)
  \/ OnChangeQuantity \/ OnRemove
  \/ LoadSettings \/ OnPurchase \/ PurchaseAnswered \/ CloseCompletion
  \/ Leave

Spec == Init /\ [][Next]_vars

-----------------------------------------------------------------------------
(* Both carts respect the limits, their selected line exists, and lookups  *)
(* under way are told apart.                                               *)
TypeOK ==
  /\ \A c \in {cart, shown} : /\ c \in CartState
                              /\ Cardinality(LinesOf(c)) =< LinesMax
                              /\ c.selected \in LinesOf(c) \cup {None}
  /\ {member, shownMember} \subseteq Member \cup {None}
  /\ productCode \in Product \cup {None}
  /\ foundProduct \in Product \cup {None}
  /\ lookups \subseteq Lookup
  /\ \A k, l \in lookups : k.n = l.n => k = l
  /\ <<settingsLoaded, purchasing, completed>> \in BOOLEAN \X BOOLEAN \X BOOLEAN
  /\ customer \in 1 .. MaxCustomers
  /\ askedFor \in [lines : [Product -> SUBSET (1 .. MaxCustomers)],
                   member : SUBSET (1 .. MaxCustomers),
                   found : SUBSET (1 .. MaxCustomers)]

(* The member displayed is the one whose discounts are in the amounts      *)
(* displayed, and the next drawing shows the member who is charged: the    *)
(* name, the drawn cart and cartRef are kept in different states.          *)
MemberFitsCart == shownMember = shown.member /\ member = cart.member

(* A purchase may charge another member than the one on the screen: one    *)
(* whose card was read or looked up and whose answer is not drawn yet.     *)
(* In no other way do the two part, in whatever order answers, 「会員なし」,  *)
(* the end of a purchase and the next customer come.                       *)
OnlyAnswersChargeUnseen ==
  [][cart'.member # shownMember' =>
       \/ UNCHANGED <<cart.member, shownMember>>
       \/ \E l \in lookups \ lookups' : l.use = "member" /\ l.code = cart'.member]_vars

(* The purchase takes cartRef.current, which may be ahead of the drawing:  *)
(* whatever is drawn is bought, in no smaller quantity.  What is bought    *)
(* beyond it was added by answers that are not drawn yet.                  *)
DrawnIsBought == \A p \in Product : shown.qty[p] =< cart.qty[p]

(* Nothing that was added is lost by answers that come in quick succession *)
(* (cartRef): goods only leave the cart by the cashier's hand, from the    *)
(* line that is drawn as selected, or with everything else.                *)
GoodsLeaveByHand ==
  [][\A p \in Product :
       cart'.qty[p] < cart.qty[p] => p = shown.selected \/ cart' = InitialCart]_vars

(* FR-011, UAT-08: what is on the screen was asked for this customer.      *)
NothingCarriedOver ==
  /\ \A p \in Product : askedFor.lines[p] \subseteq {customer}
  /\ askedFor.member \subseteq {customer}
  /\ askedFor.found \subseteq {customer}

(* Something of an earlier customer gets onto the screen in one way only:  *)
(* with the late answer of a lookup that was sent for that customer.       *)
OnlyLateAnswersCarryOver ==
  [][NothingCarriedOver /\ ~NothingCarriedOver' =>
       \E l \in lookups \ lookups' : l.customer < customer]_vars

(* A product is not displayed, and cannot be added, under a code that was  *)
(* typed after it was found (__tests__/registerScreen.test.tsx); only the  *)
(* late answer of a lookup of another code brings that about.              *)
FoundIsTyped == foundProduct \in {productCode, None}

OnlyLateAnswersMislead ==
  [][FoundIsTyped /\ ~FoundIsTyped' =>
       \E l \in lookups \ lookups' : l.use = "entry" /\ l.code # productCode]_vars
=============================================================================
