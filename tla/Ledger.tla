------------------------------- MODULE Ledger -------------------------------
(***************************************************************************)
(* What the purchase API promises, without saying how: sales are only ever *)
(* added, a key buys at most once, a sale is for the amount its request    *)
(* claimed, and an answer is true of the sales at the moment it is given.  *)
(* An internal error promises nothing: the sale may exist, or may still    *)
(* come to exist.                                                          *)
(***************************************************************************)
CONSTANTS Request,      \* purchase requests; a retry is another request
          KeyOf,        \* the idempotency key each request carries
          Claimed,      \* the totals each request claims
          Id            \* transaction ids

VARIABLES sales,        \* the sales made: [key, by, id, totals]
          answer        \* the answer each request got

vars == <<sales, answer>>

NoAnswer == [status |-> "none"]

InternalError == [status |-> "INTERNAL_ERROR"]

Rejections == {[status |-> s] : s \in {"PRODUCT_NOT_FOUND", "MEMBER_NOT_FOUND",
                                       "TOTALS_MISMATCH"}}

Created(id) == [status |-> "created", id |-> id]

Duplicate(id) == [status |-> "DUPLICATE", id |-> id]

Init ==
  /\ sales = {}
  /\ answer = [r \in Request |-> NoAnswer]

(* A request may buy until it has been answered, and even after it was     *)
(* told of an internal error.                                              *)
Sell(r, id) ==
  /\ answer[r] \in {NoAnswer, InternalError}
  /\ \A s \in sales : s.key # KeyOf[r] /\ s.id # id
  /\ sales' = sales \cup
       {[key |-> KeyOf[r], by |-> r, id |-> id, totals |-> Claimed[r]]}
  /\ UNCHANGED answer

True(r, a) ==
  \/ \E s \in sales : s.by = r /\ a = Created(s.id)
  \/ \E s \in sales : s.key = KeyOf[r] /\ s.by # r /\ a = Duplicate(s.id)
  \/ a \in Rejections /\ \A s \in sales : s.by # r
  \/ a = InternalError

Reply(r, a) ==
  /\ answer[r] = NoAnswer
  /\ True(r, a)
  /\ answer' = [answer EXCEPT ![r] = a]
  /\ UNCHANGED sales

Answers == {Created(id) : id \in Id} \cup {Duplicate(id) : id \in Id}
             \cup Rejections \cup {InternalError}

Next == \E r \in Request :
          \/ \E id \in Id : Sell(r, id)
          \/ \E a \in Answers : Reply(r, a)

Spec == Init /\ [][Next]_vars

-----------------------------------------------------------------------------
(* What follows from the promises, for whoever keeps them: no two sales    *)
(* have a key or an id in common, and an answer stays true for good, also  *)
(* a rejection: who was rejected never buys.                               *)
KeyBuysOnce == \A s, t \in sales : s.key = t.key \/ s.id = t.id => s = t

AnswersStayTrue == \A r \in Request : answer[r] # NoAnswer => True(r, answer[r])
=============================================================================
