--------------------------- MODULE CheckoutProofs ---------------------------
(***************************************************************************)
(* What the register promises over a service that keeps the promises of    *)
(* Ledger, for any contents, prices, number of presses and of customers.   *)
(*                                                                         *)
(* The inductive invariant says which requests may carry the pending key:  *)
(* those of this customer with these contents, and, while nobody disturbs  *)
(* this customer's cart, no others of this customer.                       *)
(***************************************************************************)
EXTENDS Checkout, FiniteSetTheorems, TLAPS

Types ==
  /\ cart \in Contents \cup {Empty}
  /\ pendingKey \in {NoKey} \cup [key : 1 .. keys, contents : Contents]
  /\ call \in {NoCall, BrokenCall} \cup sent
  /\ completedTotal # NoTotal => call = NoCall
  /\ customer \in 1 .. MaxCustomers
  /\ keys \in 0 .. Cardinality(sent)
  /\ IsFiniteSet(sent) /\ Cardinality(sent) =< MaxPresses
  /\ sent \subseteq Request
  /\ disturbed \subseteq 1 .. MaxCustomers
  /\ answer \in [Request -> Service!Answers \cup {Service!NoAnswer}]

(* The pending key belongs to this customer and to its contents.           *)
KeyOK ==
  /\ call \in sent => /\ pendingKey # NoKey
                      /\ call.key = pendingKey.key /\ call.contents = pendingKey.contents
  /\ \A r \in sent :
       /\ r.key =< keys /\ r.customer =< customer /\ r.n =< Cardinality(sent)
       /\ pendingKey # NoKey /\ r.key = pendingKey.key =>
            r.contents = pendingKey.contents /\ r.customer = customer

(* An undisturbed customer has one key.                                    *)
QuietOK ==
  /\ pendingKey # NoKey /\ customer \notin disturbed => cart = pendingKey.contents
  /\ \A r \in sent : r.customer = customer /\ customer \notin disturbed =>
                       pendingKey # NoKey /\ r.key = pendingKey.key
  /\ \A r, t \in sent : r.customer = t.customer /\ r.customer \notin disturbed => r.key = t.key

(* What the service has sold and said.                                     *)
SalesOK ==
  /\ \A s \in sales : s.by \in sent /\ s.key = s.by.key /\ s.totals = PriceOf[s.by.contents]
  /\ \A s, t \in sales : s.key = t.key \/ s.id = t.id => s = t
  /\ \A r \in Request :
       /\ answer[r].status = "created" => \E s \in sales : s.by = r /\ s.id = answer[r].id
       /\ answer[r].status = "DUPLICATE" => \E s \in sales : s.key = r.key

IInv == Types /\ KeyOK /\ QuietOK /\ SalesOK /\ CompletedIsSold

USE ContentsAssumption, ScreenAssumption, BoundsAssumption

(* The names of nothing are no requests and no keys.                       *)
LEMMA Nothings ==
  /\ NoCall \notin Request /\ BrokenCall \notin Request /\ NoCall # BrokenCall
  /\ \A k : NoKey \notin [key : 1 .. k, contents : Contents]
<1>1. \A r \in Request : r.n \in 1 .. MaxPresses
  BY DEF Request
<1>2. NoCall.n = 0 /\ BrokenCall.n = -1
  BY DEF NoCall, BrokenCall
<1>3. ASSUME NEW k, NEW p \in [key : 1 .. k, contents : Contents] PROVE p # NoKey
  <2>1. p.key \in 1 .. k /\ NoKey.key = 0
    BY DEF NoKey
  <2>2. QED
    BY <2>1
<1>4. NoCall \notin Request
  BY <1>1, <1>2
<1>5. BrokenCall \notin Request
  BY <1>1, <1>2
<1>6. QED
  BY <1>2, <1>3, <1>4, <1>5

-----------------------------------------------------------------------------
LEMMA InitInv == Init => IInv
<1> SUFFICES ASSUME Init PROVE IInv
  OBVIOUS
<1>1. sales = {} /\ answer = [r \in Request |-> Service!NoAnswer]
  BY DEF Init, Service!Init
<1>2. IsFiniteSet(sent) /\ Cardinality(sent) = 0
  BY FS_EmptySet DEF Init
<1>3. Types
  BY <1>1, <1>2 DEF Init, Types
<1>4. KeyOK
  BY DEF Init, KeyOK
<1>5. QuietOK
  BY DEF Init, QuietOK
<1>6. SalesOK
  BY <1>1 DEF SalesOK, Service!NoAnswer
<1>7. CompletedIsSold
  BY DEF Init, CompletedIsSold
<1>8. QED
  BY <1>3, <1>4, <1>5, <1>6, <1>7 DEF IInv

LEMMA EditInv == ASSUME IInv, Edit PROVE IInv'
<1>1. /\ cart' \in Contents \cup {Empty}
      /\ disturbed' = IF pendingKey = NoKey THEN disturbed ELSE disturbed \cup {customer}
      /\ UNCHANGED <<pendingKey, call, completedTotal, customer, keys, sent, sales, answer>>
  BY DEF Edit, Disturb
<1>2. Types'
  BY <1>1 DEF IInv, Types
<1>3. KeyOK'
  BY <1>1 DEF IInv, KeyOK
<1>4. QuietOK'
  BY <1>1 DEF IInv, QuietOK
<1>5. SalesOK'
  BY <1>1 DEF IInv, SalesOK
<1>6. CompletedIsSold'
  BY <1>1 DEF IInv, CompletedIsSold
<1>7. QED
  BY <1>2, <1>3, <1>4, <1>5, <1>6 DEF IInv

LEMMA PressInv == ASSUME IInv, Press PROVE IInv'
<1> DEFINE n == Cardinality(sent)
<1>1. /\ call = NoCall /\ completedTotal = NoTotal /\ cart # Empty /\ n < MaxPresses
      /\ UNCHANGED <<cart, completedTotal, customer, disturbed, sales, answer>>
      /\ sent' = sent \cup {call'}
      /\ call' = [n |-> n + 1, key |-> pendingKey'.key, contents |-> cart, customer |-> customer]
  BY DEF Press
<1>2. /\ cart \in Contents /\ customer \in 1 .. MaxCustomers /\ n \in Nat
      /\ keys \in 0 .. n /\ sent \subseteq Request /\ IsFiniteSet(sent)
      /\ pendingKey \in {NoKey} \cup [key : 1 .. keys, contents : Contents]
  BY <1>1, FS_CardinalityType DEF IInv, Types
<1> HIDE DEF n
<1>3. /\ keys' \in {keys, keys + 1}
      /\ pendingKey' \in [key : 1 .. keys', contents : Contents]
      /\ pendingKey'.contents = cart
      /\ \/ pendingKey # NoKey /\ pendingKey' = pendingKey /\ keys' = keys
         \/ pendingKey'.key = keys + 1 /\ keys' = keys + 1 /\ ~KeyIsPending
  <2>1. CASE KeyIsPending
    BY <1>2, <2>1 DEF Press, KeyIsPending
  <2>2. CASE ~KeyIsPending
    BY <1>2, <2>2 DEF Press
  <2>3. QED
    BY <2>1, <2>2
<1>4. pendingKey'.key \in 1 .. keys' /\ keys' =< n + 1
  BY <1>2, <1>3
<1>5. /\ call' \in Request /\ call'.n = n + 1 /\ call'.key = pendingKey'.key
      /\ call'.contents = cart /\ call'.customer = customer
  <2>1. n + 1 \in 1 .. MaxPresses /\ pendingKey'.key \in 1 .. MaxPresses
    BY <1>1, <1>2, <1>3, <1>4
  <2>2. QED
    BY <1>1, <1>2, <2>1 DEF Request
<1>6. call' \notin sent
  BY <1>2, <1>5 DEF IInv, KeyOK, n
<1>7. IsFiniteSet(sent') /\ Cardinality(sent') = n + 1
  BY <1>1, <1>2, <1>6, FS_AddElement DEF n
<1>8. pendingKey' # NoKey
  BY <1>3, Nothings
<1>9. Types'
  <2>1. keys' \in 0 .. Cardinality(sent') /\ Cardinality(sent') =< MaxPresses
    BY <1>1, <1>2, <1>3, <1>4, <1>7
  <2>2. sent' \subseteq Request /\ call' \in sent'
    BY <1>1, <1>2, <1>5
  <2>3. QED
    BY <1>1, <1>3, <1>7, <2>1, <2>2 DEF IInv, Types
<1>10. KeyOK'
  <2>1. ASSUME NEW r \in sent'
        PROVE  /\ r.key =< keys' /\ r.customer =< customer' /\ r.n =< Cardinality(sent')
               /\ pendingKey' # NoKey /\ r.key = pendingKey'.key =>
                    r.contents = pendingKey'.contents /\ r.customer = customer'
    <3>1. CASE r = call'
      BY <1>1, <1>2, <1>3, <1>4, <1>5, <1>7, <3>1
    <3>2. CASE r \in sent
      <4>1. /\ r.key =< keys /\ r.customer =< customer /\ r.n =< n
            /\ pendingKey # NoKey /\ r.key = pendingKey.key =>
                 r.contents = pendingKey.contents /\ r.customer = customer
            /\ r.key \in Nat /\ r.n \in Nat
        BY <1>2, <3>2 DEF IInv, KeyOK, Request, n
      <4>2. QED
        BY <1>1, <1>2, <1>3, <1>7, <4>1
    <3>3. QED
      BY <1>1, <3>1, <3>2
  <2>2. QED
    BY <1>3, <1>5, <1>8, <2>1 DEF KeyOK
<1>11. QuietOK'
  <2>1. ASSUME NEW r \in sent, r.customer = customer, customer \notin disturbed
        PROVE  r.key = pendingKey'.key
    <3>1. pendingKey # NoKey /\ cart = pendingKey.contents /\ r.key = pendingKey.key
      BY <2>1 DEF IInv, QuietOK
    <3>2. KeyIsPending
      BY <3>1 DEF KeyIsPending
    <3>3. QED
      BY <1>3, <3>1, <3>2
  <2>2. \A r \in sent' : r.customer = customer' /\ customer' \notin disturbed' =>
                           pendingKey' # NoKey /\ r.key = pendingKey'.key
    BY <1>1, <1>5, <1>8, <2>1
  <2>3. ASSUME NEW r \in sent', NEW t \in sent', r.customer = t.customer,
               r.customer \notin disturbed'
        PROVE  r.key = t.key
    <3>1. CASE r \in sent /\ t \in sent
      BY <1>1, <2>3, <3>1 DEF IInv, QuietOK
    <3>2. CASE r = call' \/ t = call'
      <4>1. r.customer = customer' /\ t.customer = customer'
        BY <1>1, <1>5, <2>3, <3>2
      <4>2. QED
        BY <2>2, <2>3, <4>1
    <3>3. QED
      BY <1>1, <3>1, <3>2
  <2>4. QED
    BY <1>1, <1>3, <2>2, <2>3 DEF QuietOK
<1>12. SalesOK'
  BY <1>1 DEF IInv, SalesOK
<1>13. CompletedIsSold'
  BY <1>1 DEF CompletedIsSold
<1>14. QED
  BY <1>9, <1>10, <1>11, <1>12, <1>13 DEF IInv

-----------------------------------------------------------------------------
LEMMA ServeInv == ASSUME IInv, NEW r \in sent, Serve(r) PROVE IInv'
<1>1. UNCHANGED <<cart, pendingKey, call, completedTotal, customer, keys, sent, disturbed>>
  BY DEF Serve, screen
<1>2. r \in Request
  BY DEF IInv, Types
<1>3. KeyOK' /\ QuietOK'
  BY <1>1 DEF IInv, KeyOK, QuietOK
<1>4. CASE Service!Sell(r, Cardinality(sales) + 1)
  <2> DEFINE s == [key |-> r.key, by |-> r, id |-> Cardinality(sales) + 1,
                   totals |-> PriceOf[r.contents]]
  <2>1. /\ \A t \in sales : t.key # r.key /\ t.id # Cardinality(sales) + 1
        /\ sales' = sales \cup {s} /\ UNCHANGED answer
    BY <1>2, <1>4 DEF Service!Sell
  <2>2. /\ s.key = r.key /\ s.by = r /\ s.id = Cardinality(sales) + 1
        /\ s.totals = PriceOf[r.contents]
    OBVIOUS
  <2> HIDE DEF s
  <2>3. Types'
    BY <1>1, <2>1 DEF IInv, Types
  <2>4. \A t \in sales' : t.by \in sent' /\ t.key = t.by.key /\ t.totals = PriceOf[t.by.contents]
    BY <1>1, <2>1, <2>2 DEF IInv, SalesOK
  <2>5. \A t, u \in sales' : t.key = u.key \/ t.id = u.id => t = u
    BY <2>1, <2>2 DEF IInv, SalesOK
  <2>6. ASSUME NEW q \in Request
        PROVE  /\ answer'[q].status = "created" =>
                    \E t \in sales' : t.by = q /\ t.id = answer'[q].id
               /\ answer'[q].status = "DUPLICATE" => \E t \in sales' : t.key = q.key
    BY <2>1 DEF IInv, SalesOK
  <2>7. SalesOK'
    BY <2>4, <2>5, <2>6 DEF SalesOK
  <2>8. CompletedIsSold'
    BY <1>1, <2>1 DEF IInv, CompletedIsSold
  <2>9. QED
    BY <1>3, <2>3, <2>7, <2>8 DEF IInv
<1>5. CASE \E a \in Service!Answers : Service!Reply(r, a)
  <2>1. PICK a \in Service!Answers : Service!Reply(r, a)
    BY <1>5
  <2>2. Service!True(r, a) /\ answer' = [answer EXCEPT ![r] = a] /\ UNCHANGED sales
    BY <2>1 DEF Service!Reply
  <2>3. answer' \in [Request -> Service!Answers \cup {Service!NoAnswer}]
    BY <1>2, <2>2 DEF IInv, Types
  <2>4. Types'
    BY <1>1, <2>3 DEF IInv, Types
  <2>5. /\ a.status = "created" => \E s \in sales : s.by = r /\ s.id = a.id
        /\ a.status = "DUPLICATE" => \E s \in sales : s.key = r.key
    <3>1. CASE \E s \in sales : s.by = r /\ a = Service!Created(s.id)
      BY <3>1 DEF Service!Created
    <3>2. CASE \E s \in sales : s.key = r.key /\ a = Service!Duplicate(s.id)
      BY <3>2 DEF Service!Duplicate
    <3>3. CASE a \in Service!Rejections \/ a = Service!InternalError
      BY <3>3 DEF Service!Rejections, Service!InternalError
    <3>4. QED
      BY <1>2, <2>2, <3>1, <3>2, <3>3 DEF Service!True
  <2>6. ASSUME NEW q \in Request
        PROVE  /\ answer'[q].status = "created" =>
                    \E t \in sales' : t.by = q /\ t.id = answer'[q].id
               /\ answer'[q].status = "DUPLICATE" => \E t \in sales' : t.key = q.key
    <3>1. CASE q = r
      BY <2>2, <2>5, <3>1 DEF IInv, Types
    <3>2. CASE q # r
      BY <2>2, <3>2 DEF IInv, Types, SalesOK
    <3>3. QED
      BY <3>1, <3>2
  <2>7. SalesOK'
    BY <1>1, <2>2, <2>6 DEF IInv, SalesOK
  <2>8. CompletedIsSold'
    BY <1>1, <2>2 DEF IInv, CompletedIsSold
  <2>9. QED
    BY <1>3, <2>4, <2>7, <2>8 DEF IInv
<1>6. QED
  BY <1>4, <1>5 DEF Serve

(* The popup: the answer names a sale under the pending key.               *)
LEMMA ReceiveCompletionInv == ASSUME IInv, NEW r \in sent, ReceiveCompletion(r) PROVE IInv'
<1>1. /\ call = r /\ answer[r].status \in {"created", "DUPLICATE"}
      /\ completedTotal' = CompletedTotal(r) /\ call' = NoCall
      /\ UNCHANGED <<cart, pendingKey, customer, keys, sent, disturbed, sales, answer>>
  BY DEF ReceiveCompletion
<1>2. r \in Request /\ sent \subseteq Request
  BY DEF IInv, Types
<1>3. /\ pendingKey # NoKey /\ r.key = pendingKey.key /\ r.contents = pendingKey.contents
      /\ r.customer = customer
  BY <1>1 DEF IInv, KeyOK
<1>4. call' \notin sent'
  BY <1>1, <1>2, Nothings
<1>5. Types'
  BY <1>1 DEF IInv, Types
<1>6. KeyOK'
  BY <1>1, <1>4 DEF IInv, KeyOK
<1>7. QuietOK' /\ SalesOK'
  BY <1>1 DEF IInv, QuietOK, SalesOK
<1>8. \E s \in sales : /\ s.by.customer = customer /\ s.key = pendingKey.key
                       /\ s.by.contents = pendingKey.contents /\ s.totals = completedTotal'
  <2>1. CASE answer[r].status = "created"
    <3>1. PICK s \in sales : s.by = r /\ s.id = answer[r].id
      BY <1>2, <2>1 DEF IInv, SalesOK
    <3>2. \A t \in sales : t.id = answer[r].id => t = s
      BY <3>1 DEF IInv, SalesOK
    <3>3. (CHOOSE t \in sales : t.id = answer[r].id) = s
      BY <3>1, <3>2
    <3>4. completedTotal' = s.totals
      BY <1>1, <2>1, <3>3 DEF CompletedTotal
    <3>5. s.key = r.key
      BY <3>1 DEF IInv, SalesOK
    <3>6. QED
      BY <1>3, <3>1, <3>4, <3>5
  <2>2. CASE answer[r].status = "DUPLICATE"
    <3>1. PICK s \in sales : s.key = r.key
      BY <1>2, <2>2 DEF IInv, SalesOK
    <3>2. /\ s.by \in sent /\ s.by.key = pendingKey.key
          /\ s.totals = PriceOf[s.by.contents]
      BY <1>3, <3>1 DEF IInv, SalesOK
    <3>3. s.by.contents = pendingKey.contents /\ s.by.customer = customer
      BY <1>3, <3>2 DEF IInv, KeyOK
    <3>4. completedTotal' = PriceOf[r.contents]
      BY <1>1, <2>2 DEF CompletedTotal
    <3>5. QED
      BY <1>3, <3>1, <3>2, <3>3, <3>4
  <2>3. QED
    BY <1>1, <2>1, <2>2
<1>9. CompletedIsSold'
  BY <1>1, <1>8 DEF CompletedIsSold
<1>10. QED
  BY <1>5, <1>6, <1>7, <1>9 DEF IInv

(* The screen stops waiting, or never will.                                *)
LEMMA CallEndsInv ==
  ASSUME IInv, ReceiveFailure \/ \E r \in sent : BodyBreaksOff(r)
  PROVE  IInv'
<1>1. /\ call \in sent /\ call' \in {NoCall, BrokenCall}
      /\ UNCHANGED <<cart, pendingKey, completedTotal, customer, keys, sent, disturbed,
                     sales, answer>>
  BY DEF ReceiveFailure, BodyBreaksOff
<1>2. call' \notin sent' /\ completedTotal = NoTotal
  BY <1>1, Nothings DEF IInv, Types
<1>3. Types'
  BY <1>1, <1>2 DEF IInv, Types
<1>4. KeyOK'
  BY <1>1, <1>2 DEF IInv, KeyOK
<1>5. QuietOK' /\ SalesOK'
  BY <1>1 DEF IInv, QuietOK, SalesOK
<1>6. CompletedIsSold'
  BY <1>1, <1>2 DEF CompletedIsSold
<1>7. QED
  BY <1>3, <1>4, <1>5, <1>6 DEF IInv

(* The screen is cleared.                                                  *)
LEMMA ClearInv == ASSUME IInv, CloseCompletion \/ LoseScreen PROVE IInv'
<1>1. /\ cart' = Empty /\ pendingKey' = NoKey /\ completedTotal' = NoTotal /\ call' = NoCall
      /\ customer' \in {customer, customer + 1} /\ customer' \in 1 .. MaxCustomers
      /\ disturbed \subseteq disturbed' /\ disturbed' \subseteq 1 .. MaxCustomers
      /\ customer' = customer /\ pendingKey # NoKey => customer \in disturbed'
      /\ UNCHANGED <<keys, sent, sales, answer>>
  <2>1. CASE CloseCompletion
    BY <2>1 DEF IInv, Types, CloseCompletion
  <2>2. CASE LoseScreen
    BY <2>2 DEF IInv, Types, LoseScreen, Disturb
  <2>3. QED
    BY <2>1, <2>2
<1>2. call' \notin sent'
  BY <1>1, Nothings DEF IInv, Types
<1>3. Types'
  BY <1>1 DEF IInv, Types
<1>4. \A r \in sent : r.customer \in Nat /\ r.customer =< customer
  BY DEF IInv, Types, KeyOK, Request
<1>5. customer \in Nat
  BY DEF IInv, Types
<1>6. KeyOK'
  BY <1>1, <1>2, <1>4, <1>5 DEF IInv, KeyOK
<1>7. QuietOK'
  BY <1>1, <1>4, <1>5 DEF IInv, QuietOK
<1>8. SalesOK'
  BY <1>1 DEF IInv, SalesOK
<1>9. CompletedIsSold'
  BY <1>1 DEF CompletedIsSold
<1>10. QED
  BY <1>3, <1>6, <1>7, <1>8, <1>9 DEF IInv

LEMMA NextInv == IInv /\ [Next]_vars => IInv'
<1> SUFFICES ASSUME IInv, [Next]_vars PROVE IInv'
  OBVIOUS
<1>1. CASE UNCHANGED vars
  <2>1. Types' /\ KeyOK'
    BY <1>1 DEF vars, IInv, Types, KeyOK
  <2>2. QuietOK' /\ SalesOK' /\ CompletedIsSold'
    BY <1>1 DEF vars, IInv, QuietOK, SalesOK, CompletedIsSold
  <2>3. QED
    BY <2>1, <2>2 DEF IInv
<1>2. CASE Next
  BY <1>2, EditInv, PressInv, ServeInv, ReceiveCompletionInv, CallEndsInv, ClearInv DEF Next
<1>3. QED
  BY <1>1, <1>2

LEMMA InvHolds == Spec => []IInv
BY InitInv, NextInv, PTL DEF Spec

-----------------------------------------------------------------------------
(* Type correctness: the screen waits only for what carries its key.       *)
THEOREM CheckoutTypes == Spec => []TypeOK
<1>1. IInv => TypeOK
  BY DEF IInv, Types, KeyOK, TypeOK
<1>2. QED
  BY <1>1, InvHolds, PTL

(* The popup means that this customer was sold these contents, at the      *)
(* total shown.                                                            *)
THEOREM PopupMeansSale == Spec => []CompletedIsSold
BY InvHolds, PTL DEF IInv

(* The goods that are cleared away with the popup are those of the sale.   *)
THEOREM NothingUnsoldIsCleared == Spec => []ClearedIsSold
<1>1. ASSUME IInv, completedTotal # NoTotal, customer \notin disturbed
      PROVE  \E s \in sales : s.by.customer = customer /\ s.by.contents = cart
  <2>1. PICK s \in sales : /\ s.by.customer = customer /\ s.key = pendingKey.key
                           /\ s.by.contents = pendingKey.contents
    BY <1>1 DEF IInv, CompletedIsSold
  <2>2. s.by \in sent
    BY <1>1 DEF IInv, SalesOK
  <2>3. pendingKey # NoKey /\ cart = pendingKey.contents
    BY <1>1, <2>1, <2>2 DEF IInv, QuietOK
  <2>4. QED
    BY <2>1, <2>3
<1>2. IInv => ClearedIsSold
  BY <1>1 DEF ClearedIsSold
<1>3. QED
  BY <1>2, InvHolds, PTL

(* Retries alone never sell twice.                                         *)
THEOREM RetriesSellOnce == Spec => []UndisturbedSoldOnce
<1>1. IInv => UndisturbedSoldOnce
  BY DEF IInv, SalesOK, QuietOK, UndisturbedSoldOnce
<1>2. QED
  BY <1>1, InvHolds, PTL
=============================================================================
