------------------------------ MODULE Checkout ------------------------------
(***************************************************************************)
(* One register, from the purchase button to the completion popup, over a  *)
(* BFF that gives up on its own clock and a purchase service that is only  *)
(* known by its promises (Ledger).                                         *)
(*                                                                         *)
(* A purchase attempt is a request of its own.  It may be lost on the way, *)
(* reach the service late, be answered after the screen has stopped        *)
(* waiting, or have its answer lost; the cashier may press again, change   *)
(* the cart at any moment (the scanner never stops), or lose the screen    *)
(* (reload, 401).  "contents" stands for the member and the lines, which   *)
(* is what purchaseFingerprint compares.                                   *)
(***************************************************************************)
EXTENDS Integers, FiniteSets

CONSTANTS Contents,     \* what a cart may contain, besides nothing
          Empty,        \* the empty cart
          PriceOf,      \* the total of each contents, on screen and in masters:
                        \* these change outside business hours (NFR-OPS-07)
          ScreenMayBeLost, \* whether the page may be reloaded or sent to /login
          MaxPresses,   \* bound: presses of the purchase button
          MaxCustomers  \* bound: customers served

ASSUME ContentsAssumption == Empty \notin Contents

ASSUME ScreenAssumption == ScreenMayBeLost \in BOOLEAN

ASSUME BoundsAssumption == MaxPresses \in Nat /\ MaxCustomers \in Nat \ {0}

(* One POST /api/transactions: a new one for every press of the button.    *)
Request == [n : 1 .. MaxPresses, key : 1 .. MaxPresses, contents : Contents,
            customer : 1 .. MaxCustomers]

NoCall == [n |-> 0]

(* The promise of the call was rejected after the response had begun: no   *)
(* answer will come, and the code after the await never runs.              *)
BrokenCall == [n |-> -1]

NoKey == [key |-> 0]

NoTotal == -1

VARIABLES cart,         \* the contents of the cart
          pendingKey,   \* pendingKeyRef: [key, contents] or NoKey
          call,         \* the request the screen is waiting for
          completedTotal,  \* the total in the popup, NoTotal when it is closed
          customer,     \* whom the cashier is serving
          keys,         \* how many keys were generated
          sent,         \* the requests sent so far
          disturbed,    \* customers whose cart or screen changed after a press
          sales, answer \* the service, as Ledger sees it

vars == <<cart, pendingKey, call, completedTotal, customer, keys, sent,
          disturbed, sales, answer>>

screen == <<cart, pendingKey, call, completedTotal, customer, keys, sent, disturbed>>

Service == INSTANCE Ledger WITH
             KeyOf   <- [r \in Request |-> r.key],
             Claimed <- [r \in Request |-> PriceOf[r.contents]],
             Id      <- 1 .. MaxPresses

Init ==
  /\ cart = Empty
  /\ pendingKey = NoKey
  /\ call = NoCall
  /\ completedTotal = NoTotal
  /\ customer = 1
  /\ keys = 0
  /\ sent = {}
  /\ disturbed = {}
  /\ Service!Init

-----------------------------------------------------------------------------
Disturb == disturbed' = IF pendingKey = NoKey THEN disturbed
                                              ELSE disturbed \cup {customer}

(* The cashier or the scanner changes the lines or the member.             *)
Edit ==
  /\ cart' \in (Contents \cup {Empty}) \ {cart}
  /\ Disturb
  /\ UNCHANGED <<pendingKey, call, completedTotal, customer, keys, sent, sales, answer>>

\* mutant: every press makes a key
KeyIsPending_Never == FALSE

(* reuseOrCreateKey: the pending key while the fingerprint is the same.    *)
KeyIsPending == pendingKey # NoKey /\ pendingKey.contents = cart

\* mutant: the list is cleared when the button is pressed
Press_Clears ==
  /\ call = NoCall
  /\ completedTotal = NoTotal
  /\ cart # Empty
  /\ Cardinality(sent) < MaxPresses
  /\ IF KeyIsPending
       THEN UNCHANGED <<pendingKey, keys>>
       ELSE /\ keys' = keys + 1
            /\ pendingKey' = [key |-> keys + 1, contents |-> cart]
  /\ call' = [n |-> Cardinality(sent) + 1, key |-> pendingKey'.key,
              contents |-> cart, customer |-> customer]
  /\ sent' = sent \cup {call'}
  /\ cart' = Empty
  /\ UNCHANGED <<completedTotal, customer, disturbed, sales, answer>>

(* onPurchase up to its await.  canPurchase does not ask whether the popup *)
(* is open: only its overlay keeps a click from the button.                *)
Press ==
  /\ call = NoCall
  /\ completedTotal = NoTotal
  /\ cart # Empty
  /\ Cardinality(sent) < MaxPresses
  /\ IF KeyIsPending
       THEN UNCHANGED <<pendingKey, keys>>
       ELSE /\ keys' = keys + 1
            /\ pendingKey' = [key |-> keys + 1, contents |-> cart]
  /\ call' = [n |-> Cardinality(sent) + 1, key |-> pendingKey'.key,
              contents |-> cart, customer |-> customer]
  /\ sent' = sent \cup {call'}
  /\ UNCHANGED <<cart, completedTotal, customer, disturbed, sales, answer>>

(* The service, at its own pace, whether or not somebody still waits.      *)
Serve(r) ==
  /\ \/ Service!Sell(r, Cardinality(sales) + 1)
     \/ \E a \in Service!Answers : Service!Reply(r, a)
  /\ UNCHANGED screen

(* The answer reaches the screen.  A 201 carries the saved total; for a    *)
(* DUPLICATE the screen shows the total it had computed for this press.    *)
CompletedTotal(r) ==
  IF answer[r].status = "created"
    THEN (CHOOSE s \in sales : s.id = answer[r].id).totals
    ELSE PriceOf[r.contents]

\* mutant: setPurchasing(false) is missing on the way to the popup
ReceiveCompletion_StillPurchasing(r) ==
  /\ call = r
  /\ answer[r].status \in {"created", "DUPLICATE"}
  /\ completedTotal' = CompletedTotal(r)
  /\ UNCHANGED <<cart, pendingKey, call, customer, keys, sent, disturbed, sales, answer>>

ReceiveCompletion(r) ==
  /\ call = r
  /\ answer[r].status \in {"created", "DUPLICATE"}
  /\ completedTotal' = CompletedTotal(r)
  /\ call' = NoCall
  /\ UNCHANGED <<cart, pendingKey, customer, keys, sent, disturbed, sales, answer>>

(* An error answer, a network error or the BFF's 500 after 15 s, whatever  *)
(* the service does or did: the list and the key are kept.                 *)
ReceiveFailure ==
  /\ call \in sent
  /\ call' = NoCall
  /\ UNCHANGED <<cart, pendingKey, completedTotal, customer, keys, sent, disturbed,
                 sales, answer>>

(* A 201 whose body breaks off: response.json() of lib/api.ts rejects, and *)
(* onPurchase, which has no try, never gets to setPurchasing(false).       *)
BodyBreaksOff(r) ==
  /\ call = r
  /\ answer[r].status = "created"
  /\ call' = BrokenCall
  /\ UNCHANGED <<cart, pendingKey, completedTotal, customer, keys, sent, disturbed,
                 sales, answer>>

\* mutant: the idempotency key survives the popup
CloseCompletion_KeepsKey ==
  /\ completedTotal # NoTotal
  /\ customer < MaxCustomers
  /\ cart' = Empty
  /\ completedTotal' = NoTotal
  /\ customer' = customer + 1
  /\ UNCHANGED <<pendingKey, call, keys, sent, disturbed, sales, answer>>

(* onCloseCompletion: everything is cleared for the next customer.         *)
CloseCompletion ==
  /\ completedTotal # NoTotal
  /\ customer < MaxCustomers
  /\ cart' = Empty
  /\ pendingKey' = NoKey
  /\ completedTotal' = NoTotal
  /\ customer' = customer + 1
  /\ UNCHANGED <<call, keys, sent, disturbed, sales, answer>>

(* A reload, a 401 or a logout: the state of the page is gone.  Unless the *)
(* popup had appeared, the same customer is still standing there.          *)
LoseScreen ==
  /\ ScreenMayBeLost
  /\ customer < MaxCustomers \/ completedTotal = NoTotal
  /\ cart' = Empty
  /\ pendingKey' = NoKey
  /\ call' = NoCall
  /\ completedTotal' = NoTotal
  /\ customer' = IF completedTotal = NoTotal THEN customer ELSE customer + 1
  /\ Disturb
  /\ UNCHANGED <<keys, sent, sales, answer>>

Next ==
  \/ Edit
  \/ Press
  \/ \E r \in sent : Serve(r) \/ ReceiveCompletion(r) \/ BodyBreaksOff(r)
  \/ ReceiveFailure
  \/ CloseCompletion
  \/ LoseScreen

Spec == Init /\ [][Next]_vars

(* The BFF answers or its timer does, and the browser reports a connection *)
(* it has lost, as long as the response has not begun.                     *)
FairSpec == Spec /\ WF_vars(ReceiveFailure)

-----------------------------------------------------------------------------
(* The screen waits for a request it has sent, with the key it holds, and  *)
(* never while the popup is open.                                          *)
TypeOK ==
  /\ cart \in Contents \cup {Empty}
  /\ pendingKey \in {NoKey} \cup [key : 1 .. keys, contents : Contents]
  /\ call \in {NoCall, BrokenCall} \cup sent
  /\ call \in sent => call.key = pendingKey.key /\ call.contents = pendingKey.contents
  /\ completedTotal # NoTotal => call = NoCall
  /\ customer \in 1 .. MaxCustomers
  /\ keys \in 0 .. Cardinality(sent)
  /\ sent \subseteq Request
  /\ disturbed \subseteq 1 .. MaxCustomers

(* "Completed although not confirmed" never happens: when the popup shows, *)
(* a sale exists for this very customer, with the contents and under the   *)
(* key of the press, at the total shown, although the popup may follow a   *)
(* DUPLICATE that names a sale whose own answer nobody ever saw.           *)
CompletedIsSold ==
  completedTotal # NoTotal =>
    \E s \in sales : /\ s.by.customer = customer
                      /\ s.key = pendingKey.key
                      /\ s.by.contents = pendingKey.contents
                      /\ s.totals = completedTotal

(* What closing the popup clears away was sold: unless the scanner or the  *)
(* cashier has changed the cart after a press, the one behind the popup is *)
(* the one of the sale.                                                    *)
ClearedIsSold ==
  completedTotal # NoTotal /\ customer \notin disturbed =>
    \E s \in sales : s.by.customer = customer /\ s.by.contents = cart

(* Retries alone never sell twice: a customer is sold to more than once    *)
(* only if, after a press, the cart was changed or the screen was lost.    *)
UndisturbedSoldOnce ==
  \A s, t \in sales :
    s.by.customer = t.by.customer /\ s # t => s.by.customer \in disturbed

(* NFR-OPS-05 as requirements.md and design.md 6.2 state it: the same      *)
(* purchase of the same customer is never confirmed twice.                 *)
NoDoubleSale ==
  \A s, t \in sales :
    s.by.customer = t.by.customer /\ s.by.contents = t.by.contents => s = t

(* design.md 6.2: after the connection broke before the answer was read,   *)
(* the cashier can press the button again: the screen stops waiting.       *)
ButtonComesBack == call # NoCall ~> call = NoCall
=============================================================================
