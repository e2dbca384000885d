---------------------- MODULE TransactionServiceProofs ----------------------
(***************************************************************************)
(* The purchase service keeps the promises of Ledger, for every set of     *)
(* requests, keys and master states: its sales are as claimed, its answers *)
(* stay true, resends are recognised, requests only advance, and whoever   *)
(* waits waits for one that can move.                                      *)
(*                                                                         *)
(* The second part is about the clocks that bound such a request, for any  *)
(* timeouts and any number of stalls: RequestDeadline's names are its own, *)
(* so that both parts stand beside each other here.                        *)
(***************************************************************************)
EXTENDS TransactionService, RequestDeadline, TLAPS

-----------------------------------------------------------------------------
(* The inductive invariant.  SoldAsClaimed speaks of committed rows; it is *)
(* established when the row is inserted, from what the request read.       *)
Rows == table \cup pending

RowsSound ==
  \A row \in Rows :
    /\ row.key = KeyOf[row.by]
    /\ row.totals = Claimed[row.by]
    /\ row.totals = Quote[row.prices][row.rules][row.by]
    /\ \E m \in MasterStates : PricedAt(row, m)
    /\ row.id < nextId

(* The unique index sees committed and uncommitted rows alike.             *)
KeysUnique ==
  \A a, b \in Rows : a.key = b.key \/ a.id = b.id => a = b

(* Before its row is inserted, and after.                                  *)
Inserting == {"insert", "waiting", "queued"}

Holding == {"commit", "inDoubt", "orphan"}

(* What a request has found in its snapshot stays found.                   *)
ReadsHold ==
  \A r \in Request :
    /\ pc[r] \in {"products", "member", "verify"} \cup Inserting =>
         snapshot[r] \in MasterStates
    /\ pc[r] \in {"member", "verify"} \cup Inserting =>
         CodesOf[r] \subseteq snapshot[r].onSale
    /\ pc[r] \in {"verify"} \cup Inserting =>
         MemberOf[r] \in snapshot[r].members \cup {NoMember}
    /\ pc[r] \in Inserting => ServerTotals(r) = Claimed[r]

(* A request has an answer when it is done, and a 500 when its COMMIT      *)
(* raised or its INSERT was abandoned.                                     *)
AnswersHold ==
  \A r \in Request :
    /\ pc[r] \notin {"done", "inDoubt", "waiting", "queued", "orphan"} => answer[r] = NoAnswer
    /\ pc[r] \in {"inDoubt", "orphan"} => answer[r].status = "INTERNAL_ERROR"
    /\ pc[r] \in {"waiting", "queued"} =>
         answer[r] = NoAnswer \/ answer[r].status = "INTERNAL_ERROR"

(* Nobody has a committed row before its COMMIT.                           *)
RowsCommitted == \A row \in table : pc[row.by] \in {"saved", "done"}

(* Where someone has a shared lock, no other has an uncommitted row.       *)
SharedAlone ==
  \A r \in shared : \A row \in pending : row.key = KeyOf[r] => row.by = r

IInv ==
  /\ TypeOK
  /\ RowsSound
  /\ KeysUnique
  /\ ReadsHold
  /\ AnswersHold
  /\ RowsCommitted
  /\ SharedAlone

LEMMA InitIInv == Init => IInv
<1> SUFFICES ASSUME Init PROVE IInv
  OBVIOUS
<1>1. TypeOK
  BY MaxIdAssumption DEF Init, TypeOK, Answers, NoAnswer, PendingOf
<1>2. RowsSound /\ KeysUnique /\ RowsCommitted /\ SharedAlone
  BY DEF Init, RowsSound, KeysUnique, RowsCommitted, SharedAlone, Rows
<1>3. ReadsHold /\ AnswersHold
  BY DEF Init, ReadsHold, AnswersHold, Inserting
<1> QED BY <1>1, <1>2, <1>3 DEF IInv

(* A step of a request that neither inserts nor commits: the rows stay, so *)
(* only what concerns its program point, snapshot and answer is at stake.  *)
LEMMA RowsStay ==
  ASSUME NEW r \in Request, IInv,
         UNCHANGED <<table, nextId, pending>>,
         masters' \in MasterStates,
         snapshot' \in [Request -> MasterStates \cup {NoSnapshot}],
         pc[r] \notin Holding \cup {"saved", "done"},
         NEW label \in {"idle", "find", "products", "member", "verify", "insert",
                        "waiting", "queued", "saved", "refind", "done"},
         pc' = [pc EXCEPT ![r] = label],
         shared' \subseteq shared,
         r \in shared' => label = "waiting",
         answer' \in [Request -> Answers]
  PROVE  TypeOK' /\ RowsSound' /\ KeysUnique' /\ RowsCommitted' /\ SharedAlone'
<1>1. TypeOK'
  <2>1. \A q \in Request : PendingOf(q)' # {} <=> pc'[q] \in Holding
    BY DEF IInv, TypeOK, PendingOf, Holding
  <2>2. \A q \in shared' : q \in Request /\ pc'[q] \in {"waiting"} \cup Holding
    BY DEF IInv, TypeOK, Holding
  <2> QED BY <2>1, <2>2 DEF IInv, TypeOK, Holding
<1>2. RowsSound' /\ KeysUnique'
  BY DEF IInv, RowsSound, KeysUnique, Rows, PricedAt
<1>3. RowsCommitted' /\ SharedAlone'
  BY DEF IInv, RowsCommitted, SharedAlone, TypeOK, Row
<1> QED BY <1>1, <1>2, <1>3

(* The answers a request may get are of their type.                        *)
LEMMA AnswerTypes ==
  /\ NoAnswer \in Answers
  /\ [status |-> "INTERNAL_ERROR"] \in Answers
  /\ [status |-> "PRODUCT_NOT_FOUND"] \in Answers
  /\ [status |-> "MEMBER_NOT_FOUND"] \in Answers
  /\ [status |-> "TOTALS_MISMATCH"] \in Answers
  /\ \A id \in 1 .. MaxId : /\ [status |-> "created", id |-> id] \in Answers
                            /\ [status |-> "DUPLICATE", id |-> id] \in Answers
BY DEF Answers

(* An answer to a request that has no row keeps the invariant.             *)
LEMMA AnswerStep ==
  ASSUME NEW r \in Request, IInv, NEW a \in Answers, Answer(r, a),
         UNCHANGED <<masters, table, nextId, pending>>,
         pc[r] \notin Holding
  PROVE  IInv'
<1> USE DEF IInv
<1>1. /\ pc' = [pc EXCEPT ![r] = "done"]
      /\ snapshot' = [snapshot EXCEPT ![r] = NoSnapshot]
      /\ shared' = shared \ {r}
      /\ answer' = [answer EXCEPT ![r] = a]
  BY DEF Answer, EndTransaction, EndSnapshot, Goto
<1>2. TypeOK' /\ SharedAlone'
  <2>1. \A q \in Request : PendingOf(q)' # {} <=> pc'[q] \in Holding
    BY <1>1 DEF TypeOK, PendingOf, Holding
  <2>2. SharedAlone'
    BY <1>1 DEF SharedAlone
  <2> QED BY <1>1, <2>1, <2>2 DEF TypeOK, Holding
<1>3. RowsSound' /\ KeysUnique'
  BY DEF RowsSound, KeysUnique, Rows, PricedAt
<1>4. RowsCommitted'
  BY <1>1 DEF RowsCommitted, TypeOK, Row
<1>5. ReadsHold'
  BY <1>1 DEF ReadsHold, Inserting, TypeOK, ServerTotals, RulesRead
<1>6. AnswersHold'
  BY <1>1 DEF AnswersHold, TypeOK
<1> QED BY <1>2, <1>3, <1>4, <1>5, <1>6

LEMMA ReceiveStep == ASSUME NEW r \in Request, IInv, Receive(r) PROVE IInv'
<1> USE DEF IInv
<1>1. /\ pc[r] = "idle" /\ pc' = [pc EXCEPT ![r] = "find"]
      /\ UNCHANGED <<masters, table, nextId, pending, shared, snapshot, answer>>
  BY DEF Receive, Goto
<1>2. TypeOK' /\ RowsSound' /\ KeysUnique' /\ RowsCommitted' /\ SharedAlone'
  BY <1>1, RowsStay DEF TypeOK, Holding
<1>3. ReadsHold' /\ AnswersHold'
  BY <1>1 DEF ReadsHold, AnswersHold, Inserting, TypeOK, ServerTotals, RulesRead
<1> QED BY <1>2, <1>3

LEMMA FindKeyStep == ASSUME NEW r \in Request, IInv, FindKey(r) PROVE IInv'
<1> USE DEF IInv
<1>1. pc[r] = "find" /\ UNCHANGED <<masters, table, nextId, pending>>
  BY DEF FindKey
<1>2. CASE /\ snapshot' = [snapshot EXCEPT ![r] = masters]
           /\ pc' = [pc EXCEPT ![r] = "products"]
           /\ UNCHANGED <<shared, answer>>
  <2>1. TypeOK' /\ RowsSound' /\ KeysUnique' /\ RowsCommitted' /\ SharedAlone'
    BY <1>1, <1>2, RowsStay DEF TypeOK, Holding
  <2>2. ReadsHold' /\ AnswersHold'
    BY <1>1, <1>2 DEF ReadsHold, AnswersHold, Inserting, TypeOK, ServerTotals, RulesRead
  <2> QED BY <2>1, <2>2
<1>3. ASSUME NEW row \in Saved(KeyOf[r]),
             Answer(r, [status |-> "DUPLICATE", id |-> row.id])
      PROVE  IInv'
  <2>1. row.id \in 1 .. MaxId
    BY DEF Saved, TypeOK, Row
  <2> QED BY <1>1, <1>3, <2>1, AnswerTypes, AnswerStep DEF Holding
<1> QED BY <1>2, <1>3 DEF FindKey, Goto

LEMMA FindProductsStep ==
  ASSUME NEW r \in Request, IInv, FindProducts(r) PROVE IInv'
<1> USE DEF IInv
<1>1. pc[r] = "products" /\ UNCHANGED <<masters, table, nextId, pending>>
  BY DEF FindProducts
<1>2. CASE /\ CodesOf[r] \subseteq snapshot[r].onSale
           /\ pc' = [pc EXCEPT ![r] = "member"]
           /\ UNCHANGED <<shared, snapshot, answer>>
  <2>1. TypeOK' /\ RowsSound' /\ KeysUnique' /\ RowsCommitted' /\ SharedAlone'
    BY <1>1, <1>2, RowsStay DEF TypeOK, Holding
  <2>2. ReadsHold' /\ AnswersHold'
    BY <1>1, <1>2 DEF ReadsHold, AnswersHold, Inserting, TypeOK, ServerTotals, RulesRead
  <2> QED BY <2>1, <2>2
<1>3. CASE Answer(r, [status |-> "PRODUCT_NOT_FOUND"])
  BY <1>1, <1>3, AnswerTypes, AnswerStep DEF Holding
<1> QED BY <1>2, <1>3 DEF FindProducts, Goto

LEMMA FindMemberStep ==
  ASSUME NEW r \in Request, IInv, FindMember(r) PROVE IInv'
<1> USE DEF IInv
<1>1. pc[r] = "member" /\ UNCHANGED <<masters, table, nextId, pending>>
  BY DEF FindMember
<1>2. CASE /\ MemberOf[r] = NoMember \/ MemberOf[r] \in snapshot[r].members
           /\ pc' = [pc EXCEPT ![r] = "verify"]
           /\ UNCHANGED <<shared, snapshot, answer>>
  <2>1. TypeOK' /\ RowsSound' /\ KeysUnique' /\ RowsCommitted' /\ SharedAlone'
    BY <1>1, <1>2, RowsStay DEF TypeOK, Holding
  <2>2. ReadsHold' /\ AnswersHold'
    BY <1>1, <1>2 DEF ReadsHold, AnswersHold, Inserting, TypeOK, ServerTotals, RulesRead
  <2> QED BY <2>1, <2>2
<1>3. CASE Answer(r, [status |-> "MEMBER_NOT_FOUND"])
  BY <1>1, <1>3, AnswerTypes, AnswerStep DEF Holding
<1> QED BY <1>2, <1>3 DEF FindMember, Goto

LEMMA VerifyStep == ASSUME NEW r \in Request, IInv, Verify(r) PROVE IInv'
<1> USE DEF IInv
<1>1. pc[r] = "verify" /\ UNCHANGED <<masters, table, nextId, pending>>
  BY DEF Verify
<1>2. CASE /\ ServerTotals(r) = Claimed[r]
           /\ pc' = [pc EXCEPT ![r] = "insert"]
           /\ UNCHANGED <<shared, snapshot, answer>>
  <2>1. TypeOK' /\ RowsSound' /\ KeysUnique' /\ RowsCommitted' /\ SharedAlone'
    BY <1>1, <1>2, RowsStay DEF TypeOK, Holding
  <2>2. ReadsHold' /\ AnswersHold'
    BY <1>1, <1>2 DEF ReadsHold, AnswersHold, Inserting, TypeOK, ServerTotals, RulesRead
  <2> QED BY <2>1, <2>2
<1>3. CASE \/ Answer(r, [status |-> "INTERNAL_ERROR"])
           \/ Answer(r, [status |-> "TOTALS_MISMATCH"])
  BY <1>1, <1>3, AnswerTypes, AnswerStep DEF Holding
<1> QED BY <1>2, <1>3 DEF Verify, Goto

(* The row that is inserted: what the snapshot says, under a new id.       *)
LEMMA NewRowSound ==
  ASSUME NEW r \in Request, IInv, pc[r] \in Inserting, nextId =< MaxId
  PROVE  LET row == NewRow(r)
         IN  /\ row \in Row
             /\ row.by = r /\ row.id = nextId /\ row.key = KeyOf[r]
             /\ row.totals = Claimed[r]
             /\ row.totals = Quote[row.prices][row.rules][r]
             /\ PricedAt(row, snapshot[r])
             /\ snapshot[r] \in MasterStates
<1>1. /\ snapshot[r] \in MasterStates
      /\ ServerTotals(r) = Claimed[r]
      /\ CodesOf[r] \subseteq snapshot[r].onSale
      /\ MemberOf[r] \in snapshot[r].members \cup {NoMember}
  BY DEF IInv, ReadsHold
<1>2. snapshot[r].prices \in Prices /\ snapshot[r].rules \in Rules
  BY <1>1 DEF Prices, Rules
<1>3. nextId \in 1 .. MaxId
  BY MaxIdAssumption DEF IInv, TypeOK
<1> QED BY <1>1, <1>2, <1>3, RequestAssumption
        DEF NewRow, Row, PricedAt, ServerTotals, RulesRead

LEMMA InsertStep == ASSUME NEW r \in Request, IInv, Insert(r) PROVE IInv'
<1> USE DEF IInv
<1>1. /\ pc[r] \in Inserting /\ ~KeyLocked(r) /\ Others(r) = {} /\ nextId =< MaxId
      /\ UNCHANGED <<masters, table, answer>>
  BY DEF Insert, Blocked, Inserting
<1>2. CASE Refused(r)
  <2>1. PICK label \in {"refind", "done"} :
          /\ pc' = [pc EXCEPT ![r] = label]
          /\ label = "done" <=> Abandoned(r)
          /\ snapshot' = [snapshot EXCEPT ![r] = NoSnapshot]
          /\ shared' = shared \ {r}
          /\ UNCHANGED <<pending, nextId>>
    BY <1>2 DEF Refused, EndTransaction, EndSnapshot, Goto
  <2>2. TypeOK' /\ RowsSound' /\ KeysUnique' /\ RowsCommitted' /\ SharedAlone'
    BY <1>1, <2>1, RowsStay DEF TypeOK, Inserting, Holding
  <2>3. ReadsHold' /\ AnswersHold'
    BY <1>1, <2>1 DEF ReadsHold, AnswersHold, Inserting, Abandoned, TypeOK, ServerTotals,
                      RulesRead
  <2> QED BY <2>2, <2>3
<1>3. CASE Saved(KeyOf[r]) = {} /\ Inserted(r)
  <2> DEFINE new == NewRow(r)
  <2>1. /\ new \in Row
        /\ new.by = r /\ new.id = nextId /\ new.key = KeyOf[r]
        /\ new.totals = Claimed[r]
        /\ new.totals = Quote[new.prices][new.rules][r]
        /\ \E m \in MasterStates : PricedAt(new, m)
    BY <1>1, NewRowSound
  <2>2. PICK label \in {"commit", "orphan"} :
          /\ pc' = [pc EXCEPT ![r] = label]
          /\ label = "orphan" <=> Abandoned(r)
    BY <1>3 DEF Inserted, Goto
  <2>3. /\ pending' = pending \cup {new} /\ nextId' = nextId + 1
        /\ UNCHANGED <<shared, snapshot>>
    BY <1>3 DEF Inserted
  <2>4. nextId \in Nat /\ nextId' \in 1 .. MaxId + 1
    BY <1>1, <2>3, MaxIdAssumption DEF TypeOK
  <2>5. Rows' = Rows \cup {new}
    BY <1>1, <2>3 DEF Rows
  <2> HIDE DEF new
  <2>6. \A row \in Rows : row.key # new.key /\ row.id # new.id
    <3>1. \A row \in Rows : row.key # KeyOf[r]
      BY <1>1, <1>3 DEF Rows, Saved, KeyLocked
    <3>2. \A row \in Rows : row.id < nextId /\ row.id \in Nat
      BY MaxIdAssumption DEF RowsSound, Rows, TypeOK, Row
    <3> QED BY <2>1, <2>4, <3>1, <3>2
  <2>7. TypeOK'
    <3>1. pending' \subseteq Row
      BY <2>1, <2>3 DEF TypeOK
    <3>2. \A q \in Request : PendingOf(q)' = IF q = r THEN PendingOf(q) \cup {new}
                                                    ELSE PendingOf(q)
      BY <2>1, <2>3 DEF PendingOf
    <3>3. \A q \in Request : PendingOf(q)' # {} <=> pc'[q] \in Holding
      BY <2>2, <3>2 DEF TypeOK, Holding
    <3>4. \A q \in shared' : q \in Request /\ pc'[q] \in {"waiting"} \cup Holding
      BY <2>2, <2>3 DEF TypeOK, Holding
    <3> QED BY <1>1, <2>2, <2>3, <2>4, <3>1, <3>3, <3>4 DEF TypeOK, Holding
  <2>8. RowsSound'
    <3>1. \A row \in Rows : row.id \in Nat
      BY DEF Rows, TypeOK, Row
    <3>2. /\ new.key = KeyOf[new.by]
          /\ new.totals = Claimed[new.by]
          /\ new.totals = Quote[new.prices][new.rules][new.by]
          /\ \E m \in MasterStates : PricedAt(new, m)
          /\ new.id < nextId'
      BY <2>1, <2>3, <2>4
    <3>3. \A row \in Rows :
            /\ row.key = KeyOf[row.by]
            /\ row.totals = Claimed[row.by]
            /\ row.totals = Quote[row.prices][row.rules][row.by]
            /\ \E m \in MasterStates : PricedAt(row, m)
            /\ row.id < nextId'
      BY <2>3, <2>4, <3>1 DEF RowsSound
    <3> QED BY <2>5, <3>2, <3>3 DEF RowsSound
  <2>9. KeysUnique'
    BY <2>5, <2>6 DEF KeysUnique
  <2>10. SharedAlone'
    BY <1>1, <2>1, <2>3 DEF SharedAlone, Others
  <2>11. RowsCommitted'
    BY <1>1, <2>2 DEF RowsCommitted, Inserting, TypeOK, Row
  <2>12. ReadsHold'
    BY <1>1, <2>2, <2>3 DEF ReadsHold, Inserting, TypeOK, ServerTotals, RulesRead
  <2>13. AnswersHold'
    BY <1>1, <2>2 DEF AnswersHold, Inserting, Abandoned, TypeOK
  <2> QED BY <2>7, <2>8, <2>9, <2>10, <2>11, <2>12, <2>13
<1> QED BY <1>2, <1>3 DEF Insert

LEMMA WaitStep == ASSUME NEW r \in Request, IInv, Wait(r) PROVE IInv'
<1> USE DEF IInv
<1>1. PICK label \in {"waiting", "queued"} :
        /\ pc[r] \in {"insert", "queued"} /\ pc' = [pc EXCEPT ![r] = label]
        /\ UNCHANGED <<masters, table, nextId, pending, shared, snapshot, answer>>
  BY DEF Wait, Goto
<1>2. r \notin shared
  BY <1>1 DEF TypeOK
<1>3. TypeOK' /\ RowsSound' /\ KeysUnique' /\ RowsCommitted' /\ SharedAlone'
  BY <1>1, <1>2, RowsStay DEF TypeOK, Holding
<1>4. ReadsHold' /\ AnswersHold'
  BY <1>1 DEF ReadsHold, AnswersHold, Inserting, TypeOK, ServerTotals, RulesRead
<1> QED BY <1>3, <1>4

LEMMA DeadlockVictimStep ==
  ASSUME NEW r \in Request, IInv, DeadlockVictim(r) PROVE IInv'
BY AnswerTypes, AnswerStep DEF DeadlockVictim, Holding

LEMMA AbandonStep == ASSUME NEW r \in Request, IInv, Abandon(r) PROVE IInv'
<1> USE DEF IInv
<1>1. /\ pc[r] \in {"waiting", "queued"}
      /\ answer' = [answer EXCEPT ![r] = [status |-> "INTERNAL_ERROR"]]
      /\ UNCHANGED <<masters, table, nextId, pending, shared, snapshot, pc>>
  BY DEF Abandon
<1>2. TypeOK'
  BY <1>1, AnswerTypes DEF TypeOK, PendingOf
<1>3. RowsSound' /\ KeysUnique' /\ RowsCommitted' /\ SharedAlone'
  BY <1>1 DEF RowsSound, KeysUnique, RowsCommitted, SharedAlone, Rows
<1>4. ReadsHold' /\ AnswersHold'
  BY <1>1 DEF ReadsHold, AnswersHold, TypeOK, ServerTotals, RulesRead
<1> QED BY <1>2, <1>3, <1>4

(* Rows leave pending for the table, or vanish; nobody else's are touched, *)
(* and only those who waited for them get a shared lock.                   *)
LEMMA EndPending ==
  ASSUME NEW r \in Request, IInv, pc[r] \in Holding \cup {"waiting", "queued"},
         UNCHANGED <<masters, nextId, answer>>,
         NEW kept \in {{}, PendingOf(r)}, pc[r] \in {"commit", "inDoubt"} \/ kept = {},
         table' = table \cup kept,
         pending' = pending \ PendingOf(r),
         shared' \subseteq (shared \ {r}) \cup WaitersFor(r),
         NEW label \in {"saved", "done"},
         pc' = [pc EXCEPT ![r] = label],
         snapshot' \in [Request -> MasterStates \cup {NoSnapshot}]
  PROVE  TypeOK' /\ RowsSound' /\ KeysUnique' /\ RowsCommitted' /\ SharedAlone'
<1> USE DEF IInv
<1>1. Rows' \subseteq Rows
  BY DEF Rows, PendingOf
<1>2. r \notin WaitersFor(r)
  <2>1. pc[r] = "waiting" => PendingOf(r) = {}
    BY DEF TypeOK
  <2> QED BY <2>1 DEF WaitersFor
<1>3. TypeOK'
  <2>1. \A q \in Request : PendingOf(q)' = IF q = r THEN {} ELSE PendingOf(q)
    BY DEF PendingOf
  <2>2. (table \subseteq Row)' /\ (pending \subseteq Row)'
    BY DEF TypeOK, PendingOf
  <2>3. \A q \in Request : PendingOf(q)' # {} <=> pc'[q] \in Holding
    BY <2>1 DEF TypeOK, Holding
  <2>4. \A q \in shared' : q \in Request /\ pc'[q] \in {"waiting"} \cup Holding
    BY <1>2 DEF TypeOK, Holding, WaitersFor
  <2> QED BY <2>2, <2>3, <2>4 DEF TypeOK, Holding
<1>4. RowsSound'
  BY <1>1 DEF RowsSound
<1>5. KeysUnique'
  BY <1>1 DEF KeysUnique
<1>6. RowsCommitted'
  BY DEF RowsCommitted, TypeOK, PendingOf, Row
<1>7. SharedAlone'
  <2> SUFFICES ASSUME NEW q \in shared', NEW row \in pending', row.key = KeyOf[q]
               PROVE  row.by = q
    BY DEF SharedAlone
  <2>1. row \in pending /\ row.by # r
    BY DEF PendingOf
  <2>2. CASE q \in shared
    BY <2>1, <2>2 DEF SharedAlone
  <2>3. CASE q \in WaitersFor(r)
    <3>1. PICK gone \in PendingOf(r) : gone.key = KeyOf[q]
      BY <2>3 DEF WaitersFor
    <3>2. gone = row
      BY <2>1, <3>1 DEF KeysUnique, Rows, PendingOf
    <3> QED BY <2>1, <3>1, <3>2 DEF PendingOf
  <2> QED BY <2>2, <2>3
<1> QED BY <1>3, <1>4, <1>5, <1>6, <1>7

LEMMA CommitStep == ASSUME NEW r \in Request, IInv, Commit(r) PROVE IInv'
<1> USE DEF IInv
<1>1. /\ pc[r] = "commit" /\ pc' = [pc EXCEPT ![r] = "saved"]
      /\ snapshot' = [snapshot EXCEPT ![r] = NoSnapshot] /\ shared' = shared \ {r}
      /\ table' = table \cup PendingOf(r) /\ pending' = pending \ PendingOf(r)
      /\ UNCHANGED <<masters, nextId, answer>>
  BY DEF Commit, Goto, EndTransaction, EndSnapshot
<1>2. snapshot' \in [Request -> MasterStates \cup {NoSnapshot}]
  BY <1>1 DEF TypeOK
<1>3. TypeOK' /\ RowsSound' /\ KeysUnique' /\ RowsCommitted' /\ SharedAlone'
  BY <1>1, <1>2, EndPending DEF Holding
<1>4. ReadsHold' /\ AnswersHold'
  BY <1>1 DEF ReadsHold, AnswersHold, Inserting, TypeOK, ServerTotals, RulesRead
<1> QED BY <1>3, <1>4

LEMMA SettleStep == ASSUME NEW r \in Request, IInv, Settle(r) PROVE IInv'
<1> USE DEF IInv
<1>1. /\ pc[r] = "inDoubt" /\ pc' = [pc EXCEPT ![r] = "done"]
      /\ \E kept \in {{}, PendingOf(r)} : table' = table \cup kept
      /\ pending' = pending \ PendingOf(r)
      /\ shared' \subseteq (shared \ {r}) \cup WaitersFor(r)
      /\ UNCHANGED <<masters, nextId, snapshot, answer>>
  BY DEF Settle, RollBack, Goto
<1>2. snapshot' \in [Request -> MasterStates \cup {NoSnapshot}]
  BY <1>1 DEF TypeOK
<1>3. TypeOK' /\ RowsSound' /\ KeysUnique' /\ RowsCommitted' /\ SharedAlone'
  BY <1>1, <1>2, EndPending DEF Holding
<1>4. ReadsHold' /\ AnswersHold'
  BY <1>1 DEF ReadsHold, AnswersHold, Inserting, TypeOK, ServerTotals, RulesRead
<1> QED BY <1>3, <1>4

LEMMA RollBackAbandonedStep ==
  ASSUME NEW r \in Request, IInv, RollBackAbandoned(r) PROVE IInv'
<1> USE DEF IInv
<1>1. /\ pc[r] \in {"waiting", "queued", "orphan"} /\ pc' = [pc EXCEPT ![r] = "done"]
      /\ snapshot' = [snapshot EXCEPT ![r] = NoSnapshot]
      /\ pending' = pending \ PendingOf(r)
      /\ shared' = (shared \ {r}) \cup WaitersFor(r)
      /\ UNCHANGED <<masters, table, nextId, answer>>
  BY DEF RollBackAbandoned, RollBack, EndSnapshot, Goto
<1>2. snapshot' \in [Request -> MasterStates \cup {NoSnapshot}]
  BY <1>1 DEF TypeOK
<1>3. TypeOK' /\ RowsSound' /\ KeysUnique' /\ RowsCommitted' /\ SharedAlone'
  <2>1. table' = table \cup {}
    BY <1>1
  <2> QED BY <1>1, <1>2, <2>1, EndPending DEF Holding
<1>4. ReadsHold' /\ AnswersHold'
  BY <1>1 DEF ReadsHold, AnswersHold, Inserting, TypeOK, ServerTotals, RulesRead
<1> QED BY <1>3, <1>4

LEMMA ReplyCreatedStep ==
  ASSUME NEW r \in Request, IInv, ReplyCreated(r) PROVE IInv'
<1>1. PICK row \in table : Answer(r, [status |-> "created", id |-> row.id])
  BY DEF ReplyCreated
<1>2. row.id \in 1 .. MaxId
  BY DEF IInv, TypeOK, Row
<1> QED BY <1>1, <1>2, AnswerTypes, AnswerStep DEF ReplyCreated, Holding

LEMMA RefindStep == ASSUME NEW r \in Request, IInv, Refind(r) PROVE IInv'
<1>1. CASE Answer(r, [status |-> "INTERNAL_ERROR"])
  BY <1>1, AnswerTypes, AnswerStep DEF Refind, Holding
<1>2. ASSUME NEW row \in Saved(KeyOf[r]),
             Answer(r, [status |-> "DUPLICATE", id |-> row.id])
      PROVE  IInv'
  <2>1. row.id \in 1 .. MaxId
    BY DEF IInv, Saved, TypeOK, Row
  <2> QED BY <1>2, <2>1, AnswerTypes, AnswerStep DEF Refind, Holding
<1> QED BY <1>1, <1>2 DEF Refind

LEMMA CommitFailsStep ==
  ASSUME NEW r \in Request, IInv, CommitFails(r) PROVE IInv'
<1> USE DEF IInv
<1>1. /\ pc[r] = "commit" /\ pc' = [pc EXCEPT ![r] = "inDoubt"]
      /\ snapshot' = [snapshot EXCEPT ![r] = NoSnapshot]
      /\ answer' = [answer EXCEPT ![r] = [status |-> "INTERNAL_ERROR"]]
      /\ UNCHANGED <<masters, table, nextId, pending, shared>>
  BY DEF CommitFails, Goto, EndSnapshot
<1>2. TypeOK'
  <2>1. \A q \in Request : PendingOf(q)' # {} <=> pc'[q] \in Holding
    BY <1>1 DEF TypeOK, PendingOf, Holding
  <2>2. \A q \in shared' : q \in Request /\ pc'[q] \in {"waiting"} \cup Holding
    BY <1>1 DEF TypeOK, Holding
  <2> QED BY <1>1, <2>1, <2>2, AnswerTypes DEF TypeOK, Holding
<1>3. RowsSound' /\ KeysUnique' /\ SharedAlone'
  BY <1>1 DEF RowsSound, KeysUnique, SharedAlone, Rows
<1>4. ReadsHold' /\ AnswersHold' /\ RowsCommitted'
  BY <1>1 DEF ReadsHold, AnswersHold, RowsCommitted, Inserting, TypeOK, Row,
              ServerTotals, RulesRead
<1> QED BY <1>2, <1>3, <1>4

LEMMA NextIInv == IInv /\ [Next]_vars => IInv'
<1> SUFFICES ASSUME IInv, [Next]_vars PROVE IInv'
  OBVIOUS
<1>1. ASSUME NEW r \in Request, Progress(r) PROVE IInv'
  BY <1>1, FindKeyStep, FindProductsStep, FindMemberStep, VerifyStep, InsertStep, WaitStep,
     DeadlockVictimStep, CommitStep, ReplyCreatedStep, RefindStep, SettleStep,
     RollBackAbandonedStep DEF Progress
<1>2. ASSUME NEW r \in Request, Receive(r) PROVE IInv'
  BY <1>2, ReceiveStep
<1>3. ASSUME NEW r \in Request, Fail(r) PROVE IInv'
  BY <1>3, AnswerTypes, AnswerStep DEF Fail, Holding
<1>4. ASSUME NEW r \in Request, Abandon(r) \/ CommitFails(r) PROVE IInv'
  BY <1>4, AbandonStep, CommitFailsStep
<1>5. CASE Maintenance \/ UNCHANGED vars
  <2>1. /\ masters' \in MasterStates
        /\ UNCHANGED <<table, nextId, pending, shared, snapshot, pc, answer>>
    BY <1>5 DEF Maintenance, vars, IInv, TypeOK
  <2> QED BY <2>1 DEF IInv, TypeOK, PendingOf, RowsSound, KeysUnique, Rows, ReadsHold,
                      AnswersHold, RowsCommitted, SharedAlone, ServerTotals, RulesRead
<1> QED BY <1>1, <1>2, <1>3, <1>4, <1>5 DEF Next, Failure

LEMMA Invariance == Spec => []IInv
BY InitIInv, NextIInv, PTL DEF Spec

(* Every row, program point and answer always has its type, and a request  *)
(* holds an uncommitted row exactly while its COMMIT is to come.           *)
THEOREM TypeCorrect == Spec => []TypeOK
<1>1. IInv => TypeOK
  BY DEF IInv
<1> QED BY <1>1, Invariance, PTL

(* What is saved is what was claimed, at the prices of one state of the    *)
(* masters, for every number of requests and every maintenance.            *)
THEOREM SalesAreAsClaimed == Spec => []SoldAsClaimed
<1>1. IInv => SoldAsClaimed
  BY DEF IInv, RowsSound, Rows, SoldAsClaimed
<1> QED BY <1>1, Invariance, PTL

-----------------------------------------------------------------------------
(* The refinement.  Only three steps change the sales or an answer in a    *)
(* way Ledger sees: the commit of a row, its late commit, and a reply.     *)
SaleOf(row) == [key |-> row.key, by |-> row.by, id |-> row.id, totals |-> row.totals]

Sales == {SaleOf(row) : row \in table}

(* When a row of r reaches the table, Ledger sees r buy.                   *)
LEMMA SaleIsSell ==
  ASSUME NEW r \in Request, IInv, IInv', pc[r] \in {"commit", "inDoubt"},
         table' = table \cup PendingOf(r), UNCHANGED answer
  PROVE  L!Next
<1> USE DEF IInv
<1>1. PICK row \in PendingOf(r) : TRUE
  BY DEF TypeOK
<1>2. /\ row \in pending /\ row \in Rows /\ row \in Row
      /\ row.by = r /\ row.key = KeyOf[r] /\ row.totals = Claimed[r]
  BY <1>1 DEF PendingOf, Rows, RowsSound, TypeOK
<1>3. PendingOf(r) = {row}
  <2>1. \A other \in PendingOf(r) : other.key = row.key /\ other \in Rows
    BY <1>2 DEF PendingOf, Rows, RowsSound
  <2> QED BY <1>2, <2>1 DEF KeysUnique
<1>4. \A old \in table : old \in Rows /\ old # row
  BY <1>2 DEF RowsCommitted, Rows
<1>5. \A old \in table : old.key # KeyOf[r] /\ old.id # row.id
  BY <1>2, <1>4 DEF KeysUnique
<1>6. \A s \in Sales : s.key # KeyOf[r] /\ s.id # row.id
  BY <1>5 DEF Sales, SaleOf
<1>7. Sales' = Sales \cup {[key |-> KeyOf[r], by |-> r, id |-> row.id,
                           totals |-> Claimed[r]]}
  BY <1>2, <1>3 DEF Sales, SaleOf
<1>8. answer[r] \in {L!NoAnswer, L!InternalError}
  <2>1. CASE pc[r] = "commit"
    BY <2>1 DEF AnswersHold, NoAnswer, L!NoAnswer
  <2>2. CASE pc[r] = "inDoubt"
    <3>1. answer[r] \in Answers /\ answer[r].status = "INTERNAL_ERROR"
      BY <2>2 DEF AnswersHold, TypeOK
    <3>2. answer[r] = [status |-> "INTERNAL_ERROR"]
      BY <3>1 DEF Answers, NoAnswer
    <3> QED BY <3>2 DEF L!InternalError
  <2> QED BY <2>1, <2>2
<1>9. L!Sell(r, row.id)
  BY <1>6, <1>7, <1>8 DEF L!Sell, Sales, SaleOf
<1>10. row.id \in 1 .. MaxId
  BY <1>2 DEF Row
<1> QED BY <1>9, <1>10 DEF L!Next

(* When r is answered, Ledger sees a reply, provided it is a true one.     *)
LEMMA AnswerIsReply ==
  ASSUME NEW r \in Request, IInv, answer[r] = NoAnswer,
         UNCHANGED table, NEW a \in L!Answers, L!True(r, a),
         answer' = [answer EXCEPT ![r] = a]
  PROVE  L!Next
<1>1. answer[r] = L!NoAnswer
  BY DEF NoAnswer, L!NoAnswer
<1>2. L!Reply(r, a)
  BY <1>1 DEF L!Reply
<1> QED BY <1>2 DEF L!Next

LEMMA ErrorIsReply ==
  ASSUME NEW r \in Request, IInv, answer[r] = NoAnswer,
         UNCHANGED table,
         answer' = [answer EXCEPT ![r] = [status |-> "INTERNAL_ERROR"]]
  PROVE  L!Next
<1>1. /\ L!InternalError = [status |-> "INTERNAL_ERROR"]
      /\ L!InternalError \in L!Answers
      /\ L!True(r, L!InternalError)
  BY DEF L!InternalError, L!Answers, L!True
<1> QED BY <1>1, AnswerIsReply

LEMMA RejectionIsReply ==
  ASSUME NEW r \in Request, IInv,
         pc[r] \in {"products", "member", "verify"}, UNCHANGED table,
         NEW status \in {"PRODUCT_NOT_FOUND", "MEMBER_NOT_FOUND", "TOTALS_MISMATCH"},
         answer' = [answer EXCEPT ![r] = [status |-> status]]
  PROVE  L!Next
<1>1. [status |-> status] \in L!Rejections
  BY DEF L!Rejections
<1>2. \A row \in table : row.by # r
  BY DEF IInv, RowsCommitted
<1>3. \A s \in Sales : s.by # r
  BY <1>2 DEF Sales, SaleOf
<1>4. L!True(r, [status |-> status])
  BY <1>1, <1>3 DEF L!True, Sales, SaleOf
<1>5. [status |-> status] \in L!Answers
  BY <1>1 DEF L!Answers
<1>6. answer[r] = NoAnswer
  BY DEF IInv, AnswersHold
<1> QED BY <1>4, <1>5, <1>6, AnswerIsReply

LEMMA DuplicateIsReply ==
  ASSUME NEW r \in Request, IInv, pc[r] \in {"find", "refind"}, UNCHANGED table,
         NEW row \in Saved(KeyOf[r]),
         answer' = [answer EXCEPT ![r] = [status |-> "DUPLICATE", id |-> row.id]]
  PROVE  L!Next
<1>1. row \in table /\ row.key = KeyOf[r] /\ row.by # r /\ row.id \in 1 .. MaxId
  BY DEF Saved, IInv, RowsCommitted, TypeOK, Row
<1>2. SaleOf(row) \in Sales
  BY <1>1 DEF Sales
<1>3. L!Duplicate(row.id) = [status |-> "DUPLICATE", id |-> row.id]
  BY DEF L!Duplicate
<1>4. L!Duplicate(row.id) \in L!Answers
  BY <1>1 DEF L!Answers
<1>5. SaleOf(row).key = KeyOf[r] /\ SaleOf(row).by # r /\ SaleOf(row).id = row.id
  BY <1>1 DEF SaleOf
<1>6. L!True(r, L!Duplicate(row.id))
  BY <1>2, <1>5 DEF L!True, Sales, SaleOf
<1>7. answer[r] = NoAnswer
  BY DEF IInv, AnswersHold
<1> QED BY <1>3, <1>4, <1>6, <1>7, AnswerIsReply

LEMMA CreatedIsReply ==
  ASSUME NEW r \in Request, IInv, pc[r] = "saved", UNCHANGED table,
         NEW row \in table, row.by = r,
         answer' = [answer EXCEPT ![r] = [status |-> "created", id |-> row.id]]
  PROVE  L!Next
<1>1. row.id \in 1 .. MaxId
  BY DEF IInv, TypeOK, Row
<1>2. SaleOf(row) \in Sales
  BY DEF Sales
<1>3. L!Created(row.id) = [status |-> "created", id |-> row.id]
  BY DEF L!Created
<1>4. L!Created(row.id) \in L!Answers
  BY <1>1 DEF L!Answers
<1>5. SaleOf(row).by = r /\ SaleOf(row).id = row.id
  BY DEF SaleOf
<1>6. L!True(r, L!Created(row.id))
  BY <1>2, <1>5 DEF L!True, Sales, SaleOf
<1>7. answer[r] = NoAnswer
  BY DEF IInv, AnswersHold
<1> QED BY <1>3, <1>4, <1>6, <1>7, AnswerIsReply

LEMMA InitRefines == Init => L!Init
BY DEF Init, L!Init, NoAnswer, L!NoAnswer

LEMMA StutterRefines ==
  ASSUME UNCHANGED <<table, answer>> PROVE UNCHANGED L!vars
BY DEF L!vars

LEMMA ProgressRefines ==
  ASSUME NEW r \in Request, IInv, IInv', Progress(r)
  PROVE  [L!Next]_(L!vars)
<1>1. CASE FindKey(r)
  BY <1>1, DuplicateIsReply, StutterRefines DEF FindKey, Answer
<1>2. CASE FindProducts(r)
  BY <1>2, RejectionIsReply, StutterRefines DEF FindProducts, Answer
<1>3. CASE FindMember(r)
  BY <1>3, RejectionIsReply, StutterRefines DEF FindMember, Answer
<1>4. CASE Verify(r)
  BY <1>4, RejectionIsReply, ErrorIsReply, StutterRefines DEF Verify, Answer, IInv, AnswersHold
<1>5. CASE Insert(r) \/ Wait(r) \/ RollBackAbandoned(r)
  BY <1>5, StutterRefines DEF Insert, Wait, RollBackAbandoned
<1>6. CASE Commit(r)
  BY <1>6, SaleIsSell DEF Commit
<1>7. CASE ReplyCreated(r)
  BY <1>7, CreatedIsReply DEF ReplyCreated, Answer
<1>8. CASE Refind(r)
  BY <1>8, DuplicateIsReply, ErrorIsReply DEF Refind, Answer, IInv, AnswersHold
<1>9. CASE Settle(r)
  BY <1>9, SaleIsSell, StutterRefines DEF Settle
<1>10. CASE DeadlockVictim(r)
  BY <1>10, ErrorIsReply DEF DeadlockVictim, Answer, Abandoned
<1> QED BY <1>1, <1>2, <1>3, <1>4, <1>5, <1>6, <1>7, <1>8, <1>9, <1>10 DEF Progress

LEMMA NextRefines == IInv /\ IInv' /\ [Next]_vars => [L!Next]_(L!vars)
<1> SUFFICES ASSUME IInv, IInv', [Next]_vars PROVE [L!Next]_(L!vars)
  OBVIOUS
<1>1. ASSUME NEW r \in Request, Progress(r) PROVE [L!Next]_(L!vars)
  BY <1>1, ProgressRefines
<1>2. ASSUME NEW r \in Request, Receive(r) PROVE [L!Next]_(L!vars)
  BY <1>2, StutterRefines DEF Receive
<1>3. ASSUME NEW r \in Request, Fail(r) PROVE [L!Next]_(L!vars)
  BY <1>3, ErrorIsReply DEF Fail, Answer, IInv, AnswersHold
<1>4. ASSUME NEW r \in Request, Abandon(r) \/ CommitFails(r) PROVE [L!Next]_(L!vars)
  BY <1>4, ErrorIsReply DEF Abandon, Abandoned, CommitFails, IInv, AnswersHold
<1>5. CASE Maintenance \/ UNCHANGED vars
  BY <1>5, StutterRefines DEF Maintenance, vars
<1> QED BY <1>1, <1>2, <1>3, <1>4, <1>5 DEF Next, Failure

(* The service implements the ledger: a key buys at most once, no sale is  *)
(* changed or removed, and no answer says what the sales do not.           *)
THEOREM ServiceImplementsLedger == Spec => ImplementsLedger
<1>1. Spec => L!Init /\ [][L!Next]_(L!vars)
  BY InitRefines, NextRefines, Invariance, PTL DEF Spec
<1> QED BY <1>1 DEF ImplementsLedger, L!Spec

-----------------------------------------------------------------------------
(* What a request may be told when its key was sold before it looked: the  *)
(* sale stays, and until it has looked it has no other way to go.          *)
Recognised(r) ==
  /\ Saved(KeyOf[r]) # {}
  /\ \/ pc[r] \in {"idle", "find"}
     \/ pc[r] = "done" /\ answer[r].status \in {"DUPLICATE", "INTERNAL_ERROR"}

(* No step of another request moves r, and no step takes a sale away.      *)
LEMMA OthersLeaveAlone ==
  ASSUME NEW r \in Request, NEW q \in Request, q # r, IInv,
         Receive(q) \/ Progress(q) \/ Failure(q)
  PROVE  pc'[r] = pc[r] /\ answer'[r] = answer[r] /\ table \subseteq table'
<1>1. CASE \/ Receive(q) \/ FindKey(q) \/ FindProducts(q) \/ FindMember(q) \/ Verify(q)
           \/ ReplyCreated(q) \/ Refind(q) \/ Fail(q) \/ DeadlockVictim(q)
  BY <1>1 DEF IInv, TypeOK, Receive, FindKey, FindProducts, FindMember, Verify,
              ReplyCreated, Refind, Fail, DeadlockVictim, Answer, Goto
<1>2. CASE \/ Insert(q) \/ Wait(q) \/ Commit(q) \/ Settle(q) \/ RollBackAbandoned(q)
           \/ Abandon(q) \/ CommitFails(q)
  BY <1>2 DEF IInv, TypeOK, Insert, Inserted, Refused, Wait, Commit, Settle,
              RollBackAbandoned, Abandon, CommitFails, Goto
<1> QED BY <1>1, <1>2 DEF Progress, Failure

LEMMA RecognisedStays ==
  ASSUME NEW r \in Request, IInv, [Next]_vars, Recognised(r)
  PROVE  Recognised(r)'
<1>1. ASSUME NEW q \in Request, q # r, Receive(q) \/ Progress(q) \/ Failure(q)
      PROVE  Recognised(r)'
  BY <1>1, OthersLeaveAlone DEF Recognised, Saved
<1>2. CASE Receive(r)
  BY <1>2 DEF Receive, Goto, Recognised, Saved, IInv, TypeOK
<1>3. CASE FindKey(r)
  BY <1>3 DEF FindKey, Answer, Goto, Recognised, Saved, IInv, TypeOK
<1>4. CASE Fail(r)
  BY <1>4 DEF Fail, Answer, Goto, Recognised, Saved, IInv, TypeOK
<1>5. CASE \/ FindProducts(r) \/ FindMember(r) \/ Verify(r) \/ Insert(r) \/ Wait(r)
           \/ DeadlockVictim(r) \/ Commit(r) \/ ReplyCreated(r) \/ Refind(r) \/ Settle(r)
           \/ RollBackAbandoned(r) \/ Abandon(r) \/ CommitFails(r)
  BY <1>5 DEF FindProducts, FindMember, Verify, Insert, Wait, DeadlockVictim, Commit,
              ReplyCreated, Refind, Settle, RollBackAbandoned, Abandon, CommitFails, Recognised
<1>6. CASE Maintenance \/ UNCHANGED vars
  BY <1>6 DEF Maintenance, vars, Recognised, Saved
<1> QED BY <1>1, <1>2, <1>3, <1>4, <1>5, <1>6 DEF Next, Progress, Failure

(* A resend that arrives after the sale is never told anything but that it *)
(* is one, for every number of requests, keys and states of the masters.   *)
THEOREM ResendsAreRecognised == Spec => RetryRecognised
<1> SUFFICES ASSUME NEW r \in Request
             PROVE  Spec => [](Resend(r) =>
                      [](answer[r].status \in {"none", "DUPLICATE", "INTERNAL_ERROR"}))
  BY DEF RetryRecognised
<1>1. IInv /\ Resend(r) => Recognised(r)
  BY DEF Resend, Recognised
<1>2. IInv /\ Recognised(r) =>
        answer[r].status \in {"none", "DUPLICATE", "INTERNAL_ERROR"}
  BY DEF IInv, AnswersHold, Recognised, NoAnswer
<1>3. IInv /\ [Next]_vars /\ Recognised(r) => Recognised(r)'
  BY RecognisedStays
<1> QED BY <1>1, <1>2, <1>3, Invariance, PTL DEF Spec

-----------------------------------------------------------------------------
(* What Ledger promises follows from its steps alone.                      *)
Promises == L!KeyBuysOnce /\ L!AnswersStayTrue /\ answer \in [Request -> Answers]

LEMMA LedgerKeepsPromises ==
  ASSUME Promises, [L!Next]_(L!vars), (answer \in [Request -> Answers])'
  PROVE  Promises'
<1>1. ASSUME NEW r \in Request, NEW id \in 1 .. MaxId, L!Sell(r, id)
      PROVE  Promises'
  <2>1. L!KeyBuysOnce'
    BY <1>1 DEF Promises, L!KeyBuysOnce, L!Sell
  <2>2. L!AnswersStayTrue'
    BY <1>1 DEF Promises, L!AnswersStayTrue, L!Sell, L!True, L!Rejections,
                L!NoAnswer, L!InternalError
  <2> QED BY <2>1, <2>2 DEF Promises
<1>2. ASSUME NEW r \in Request, NEW a \in L!Answers, L!Reply(r, a)
      PROVE  Promises'
  <2>1. L!KeyBuysOnce'
    BY <1>2 DEF Promises, L!KeyBuysOnce, L!Reply
  <2>2. L!AnswersStayTrue'
    BY <1>2 DEF Promises, L!AnswersStayTrue, L!Reply, L!True
  <2> QED BY <2>1, <2>2 DEF Promises
<1>3. CASE UNCHANGED L!vars
  BY <1>3 DEF Promises, L!vars, L!KeyBuysOnce, L!AnswersStayTrue, L!True
<1> QED BY <1>1, <1>2, <1>3 DEF L!Next

(* The promises hold of the service as well: a key is sold once, an answer *)
(* stays true whatever happens later, and who was rejected never buys.     *)
THEOREM PromisesHold == Spec => [](L!KeyBuysOnce /\ L!AnswersStayTrue)
<1>1. Init => Promises
  BY InitIInv DEF Init, Promises, L!KeyBuysOnce, L!AnswersStayTrue, NoAnswer, L!NoAnswer,
     IInv, TypeOK
<1>2. IInv /\ IInv' /\ [Next]_vars /\ Promises => Promises'
  BY NextRefines, LedgerKeepsPromises DEF IInv, TypeOK
<1>3. Promises => L!KeyBuysOnce /\ L!AnswersStayTrue
  BY DEF Promises
<1> QED BY <1>1, <1>2, <1>3, Invariance, PTL DEF Spec

-----------------------------------------------------------------------------
(* The safety half of EveryRequestAnswered.  The stages of confirm: every  *)
(* step of a request leads to a later one.                                 *)
Stage ==
  [label \in {"idle", "find", "products", "member", "verify", "insert", "queued",
              "waiting", "commit", "saved", "refind", "inDoubt", "orphan", "done"} |->
     CASE label = "idle"     -> 0
       [] label = "find"     -> 1
       [] label = "products" -> 2
       [] label = "member"   -> 3
       [] label = "verify"   -> 4
       [] label = "insert"   -> 5
       [] label = "queued"   -> 6
       [] label = "waiting"  -> 7
       [] label = "commit"   -> 8
       [] label = "done"     -> 10
       [] OTHER              -> 9]

OnlyAdvances(r) == pc'[r] = pc[r] \/ Stage[pc[r]] < Stage[pc'[r]]

LEMMA StepAdvances ==
  ASSUME NEW r \in Request, IInv, Receive(r) \/ Progress(r) \/ Failure(r)
  PROVE  OnlyAdvances(r)
<1>1. CASE Receive(r) \/ FindKey(r) \/ FindProducts(r) \/ FindMember(r)
  BY <1>1 DEF IInv, TypeOK, Receive, FindKey, FindProducts, FindMember, Answer, Goto,
              OnlyAdvances, Stage
<1>2. CASE Verify(r) \/ Commit(r) \/ ReplyCreated(r) \/ DeadlockVictim(r)
  BY <1>2 DEF IInv, TypeOK, Verify, Commit, ReplyCreated, DeadlockVictim, Answer, Goto,
              OnlyAdvances, Stage
<1>3. CASE Refind(r) \/ Settle(r) \/ Fail(r) \/ Abandon(r) \/ CommitFails(r)
  BY <1>3 DEF IInv, TypeOK, Refind, Settle, Fail, Abandon, CommitFails, Answer, Goto,
              OnlyAdvances, Stage
<1>4. CASE Insert(r) \/ Wait(r) \/ RollBackAbandoned(r)
  <2>1. CASE Insert(r)
    BY <2>1 DEF IInv, TypeOK, Insert, Inserted, Refused, Goto, OnlyAdvances, Stage
  <2>2. CASE Wait(r)
    <3>1. pc[r] = "queued" => KeyLocked(r)
      BY <2>2 DEF Wait, Blocked
    <3> QED BY <2>2, <3>1 DEF IInv, TypeOK, Wait, Goto, OnlyAdvances, Stage
  <2>3. CASE RollBackAbandoned(r)
    BY <2>3 DEF IInv, TypeOK, RollBackAbandoned, Goto, OnlyAdvances, Stage
  <2> QED BY <1>4, <2>1, <2>2, <2>3
<1> QED BY <1>1, <1>2, <1>3, <1>4 DEF Progress, Failure

(* A request never goes back to a stage it has left: however its statements *)
(* fail or meet other requests, it advances at most ten times.             *)
THEOREM RequestsOnlyAdvance == Spec => [][\A r \in Request : OnlyAdvances(r)]_vars
<1>1. IInv /\ [Next]_vars => [\A r \in Request : OnlyAdvances(r)]_vars
  <2> SUFFICES ASSUME IInv, Next, NEW r \in Request PROVE OnlyAdvances(r)
    OBVIOUS
  <2>1. ASSUME NEW q \in Request, Receive(q) \/ Progress(q) \/ Failure(q)
        PROVE  OnlyAdvances(r)
    <3>1. CASE q = r
      BY <2>1, <3>1, StepAdvances
    <3>2. CASE q # r
      BY <2>1, <3>2, OthersLeaveAlone DEF OnlyAdvances
    <3> QED BY <3>1, <3>2
  <2>2. CASE Maintenance
    BY <2>2 DEF Maintenance, OnlyAdvances
  <2> QED BY <2>1, <2>2 DEF Next
<1> QED BY <1>1, Invariance, PTL DEF Spec

(* Who can move without waiting: who has a row, which is committed, settled *)
(* or rolled back; and who has a shared lock and no row in front of it,    *)
(* which it inserts when it is alone, and may be chosen when it is not.    *)
CanMove(q) ==
  \/ pc[q] \in Holding
  \/ q \in shared /\ pc[q] = "waiting" /\ ~KeyLocked(q)

(* However the waits overlap: an INSERT is held up only by purchases of its *)
(* own key that can move.  Who has a row waits for nobody, who has a       *)
(* shared lock waits only for others who have one and are waiting.  So     *)
(* circles consist of shared locks that a rollback left behind, and in     *)
(* such a circle whoever is not rolled back by the detector is, when it is *)
(* alone, free to insert.                                                  *)
WaitsForAMover(r) ==
  /\ pc[r] \in Inserting /\ Blocked(r) =>
       \E q \in Request \ {r} : KeyOf[q] = KeyOf[r] /\ CanMove(q)
  /\ r \in shared /\ pc[r] = "waiting" =>
       ~KeyLocked(r) /\ \A q \in Others(r) : pc[q] = "waiting" /\ r \in Others(q)

(* The second half of it.                                                  *)
LEMMA SharedWaitsForShared ==
  ASSUME IInv, NEW r \in shared, pc[r] = "waiting"
  PROVE  ~KeyLocked(r) /\ \A q \in Others(r) : pc[q] = "waiting" /\ r \in Others(q)
<1> USE DEF IInv
<1>1. r \in Request /\ PendingOf(r) = {}
  BY DEF TypeOK
<1>2. ~KeyLocked(r)
  BY <1>1 DEF KeyLocked, SharedAlone, PendingOf
<1>3. ASSUME NEW q \in Others(r) PROVE pc[q] = "waiting" /\ r \in Others(q)
  <2>1. q \in shared /\ q \in Request /\ KeyOf[q] = KeyOf[r] /\ q # r
    BY DEF Others, TypeOK
  <2>2. PendingOf(q) = {}
    <3> SUFFICES ASSUME NEW row \in PendingOf(q) PROVE FALSE
      OBVIOUS
    <3>1. row \in pending /\ row \in Rows /\ row.by = q
      BY DEF PendingOf, Rows
    <3>2. row.key = KeyOf[r]
      BY <2>1, <3>1 DEF RowsSound
    <3> QED BY <1>2, <3>1, <3>2 DEF KeyLocked
  <2>3. pc[q] = "waiting"
    BY <2>1, <2>2 DEF TypeOK
  <2> QED BY <2>1, <2>3 DEF Others
<1> QED BY <1>2, <1>3

(* The safety half of EveryRequestAnswered, for every number of requests:   *)
(* no wait of an INSERT, for a row or for shared locks (add, repositories/ *)
(* transaction.py:160), depends on requests that all wait.                 *)
THEOREM WhoeverWaitsWaitsForAMover == Spec => []\A r \in Request : WaitsForAMover(r)
<1>1. IInv => \A r \in Request : WaitsForAMover(r)
  <2> SUFFICES ASSUME IInv, NEW r \in Request, pc[r] \in Inserting, Blocked(r)
               PROVE  \E q \in Request \ {r} : KeyOf[q] = KeyOf[r] /\ CanMove(q)
    BY SharedWaitsForShared DEF WaitsForAMover
  <2>1. ASSUME NEW row \in pending, row.key = KeyOf[r]
        PROVE  \E q \in Request \ {r} : KeyOf[q] = KeyOf[r] /\ CanMove(q)
    <3>1. row.by \in Request /\ row \in PendingOf(row.by) /\ row \in Rows
      BY DEF IInv, TypeOK, Row, PendingOf, Rows
    <3>2. pc[row.by] \in Holding /\ KeyOf[row.by] = KeyOf[r]
      BY <2>1, <3>1 DEF IInv, TypeOK, RowsSound, Holding
    <3>3. row.by # r
      BY <3>2 DEF Holding, Inserting
    <3> QED BY <3>1, <3>2, <3>3 DEF CanMove
  <2>2. ASSUME NEW q \in Others(r)
        PROVE  \E p \in Request \ {r} : KeyOf[p] = KeyOf[r] /\ CanMove(p)
    <3>1. q \in shared /\ q \in Request \ {r} /\ KeyOf[q] = KeyOf[r]
      BY DEF Others, IInv, TypeOK
    <3>2. pc[q] \in {"waiting"} \cup Holding
      BY <3>1 DEF IInv, TypeOK, Holding
    <3>3. CanMove(q)
      BY <3>1, <3>2, SharedWaitsForShared DEF CanMove
    <3> QED BY <3>1, <3>3
  <2> QED BY <2>1, <2>2 DEF Blocked, KeyLocked
<1> QED BY <1>1, Invariance, PTL

-----------------------------------------------------------------------------
(* The clocks of one purchase (RequestDeadline).  While the database is     *)
(* stopped, only the statement under way adds to the time the earlier      *)
(* stops have cost (StallCosts).                                           *)
ClockTypes ==
  /\ stalled \in BOOLEAN
  /\ stalls \in Nat
  /\ at \in 1 .. Last
  /\ waited \in 0 .. TimeoutOf(at)
  /\ elapsed \in 0 .. BffTimeout
  /\ backend \in {"running", "committed", "failed", "inDoubt"}
  /\ screen \in {"waiting", "completed", "failed", "gaveUp"}

StallCosts ==
  /\ WaitPerStall
  /\ stalled => stalls >= 1 /\ elapsed =< (stalls - 1) * LongestTimeout + waited

ClockInv ==
  /\ ClockTypes
  /\ StallCosts
  /\ screen = "gaveUp" => elapsed = BffTimeout
  /\ screen = "failed" => backend # "running"

LEMMA Timeouts ==
  /\ Last = 11 /\ FirstOfPooled \in 1 .. Last
  /\ LongestTimeout \in Nat
  /\ \A i \in 1 .. Last : TimeoutOf(i) \in Nat /\ TimeoutOf(i) =< LongestTimeout
<1>1. Last = 11
  BY DEF Last, Statements
<1>2. LongestTimeout \in Nat /\ ConnectTimeout =< LongestTimeout
      /\ ReadTimeout =< LongestTimeout
  BY TimeoutAssumption DEF LongestTimeout
<1>3. \A i \in 1 .. Last : TimeoutOf(i) \in {ConnectTimeout, ReadTimeout}
  BY DEF TimeoutOf
<1>4. FirstOfPooled \in 1 .. Last
  BY <1>1 DEF FirstOfPooled
<1> QED BY <1>1, <1>2, <1>3, <1>4, TimeoutAssumption

LEMMA InitClockInv == DeadlineInit => ClockInv
<1> SUFFICES ASSUME DeadlineInit PROVE ClockInv
  OBVIOUS
<1>1. at \in 1 .. Last /\ TimeoutOf(at) \in Nat
  BY Timeouts DEF DeadlineInit
<1>2. elapsed = 0 /\ stalls = 0 /\ 0 * LongestTimeout = 0
  BY Timeouts DEF DeadlineInit
<1>3. StallCosts
  BY <1>2 DEF DeadlineInit, StallCosts, WaitPerStall
<1>4. waited \in 0 .. TimeoutOf(at) /\ elapsed \in 0 .. BffTimeout
  <2>1. waited = 0 /\ elapsed = 0
    BY DEF DeadlineInit
  <2> QED BY <1>1, <2>1, TimeoutAssumption
<1>5. ClockTypes
  BY <1>1, <1>4 DEF DeadlineInit, ClockTypes
<1> QED BY <1>3, <1>5 DEF DeadlineInit, ClockInv

(* A stop: what has been waited so far was paid for by the earlier ones.   *)
LEMMA StallStep == ClockInv /\ Stall => ClockInv'
<1> SUFFICES ASSUME ClockInv, Stall PROVE ClockInv'
  OBVIOUS
<1> USE DEF ClockInv, Stall
<1>1. stalls \in Nat /\ elapsed \in Nat /\ waited \in Nat /\ LongestTimeout \in Nat
  BY Timeouts, TimeoutAssumption DEF ClockTypes
<1>2. (stalls + 1) * LongestTimeout = stalls * LongestTimeout + LongestTimeout
  BY <1>1
<1>3. stalls * LongestTimeout \in Nat
  BY <1>1
<1>4. elapsed =< stalls * LongestTimeout
  BY DEF StallCosts, WaitPerStall
<1>5. stalls' - 1 = stalls
  BY <1>1
<1>6. StallCosts'
  BY <1>1, <1>2, <1>3, <1>4, <1>5 DEF StallCosts, WaitPerStall
<1>7. ClockTypes'
  BY DEF ClockTypes, TimeoutOf
<1> QED BY <1>6, <1>7

(* A statement completes: the database is back, nothing is under way.      *)
LEMMA CompleteStep == ClockInv /\ Complete => ClockInv'
<1> SUFFICES ASSUME ClockInv, Complete PROVE ClockInv'
  OBVIOUS
<1> USE DEF ClockInv, Complete
<1>1. at' \in 1 .. Last
  BY Timeouts DEF ClockTypes
<1>2. waited' \in 0 .. TimeoutOf(at)'
  BY <1>1, Timeouts DEF TimeoutOf
<1>3. ClockTypes'
  BY <1>1, <1>2 DEF ClockTypes
<1>4. StallCosts'
  BY DEF StallCosts, WaitPerStall, LongestTimeout
<1>5. backend = "running" /\ screen # "failed"
  OBVIOUS
<1> QED BY <1>3, <1>4, <1>5

(* A second of waiting is one more of the statement under way, which has    *)
(* not reached its timeout.                                                *)
LEMMA TickStep == ClockInv /\ Tick => ClockInv'
<1> SUFFICES ASSUME ClockInv, Tick PROVE ClockInv'
  OBVIOUS
<1> USE DEF ClockInv, Tick
<1>1. /\ stalls \in Nat /\ elapsed \in Nat /\ waited \in Nat /\ LongestTimeout \in Nat
      /\ waited < TimeoutOf(at) /\ TimeoutOf(at) \in Nat
      /\ TimeoutOf(at) =< LongestTimeout
  BY Timeouts, TimeoutAssumption DEF ClockTypes
<1>2. waited' \in 0 .. TimeoutOf(at)'
  BY <1>1 DEF TimeoutOf
<1>3. elapsed' \in 0 .. BffTimeout
  BY <1>1, TimeoutAssumption DEF ClockTypes
<1>4. ClockTypes'
  BY <1>2, <1>3 DEF ClockTypes
<1>5. stalls >= 1 /\ elapsed =< (stalls - 1) * LongestTimeout + waited
  BY DEF StallCosts
<1>6. elapsed' =< (stalls - 1) * LongestTimeout + waited'
  <2> DEFINE before == (stalls - 1) * LongestTimeout
  <2>1. before \in Int
    BY <1>1
  <2> HIDE DEF before
  <2>2. elapsed =< before + waited
    BY <1>5 DEF before
  <2>3. elapsed' =< before + waited'
    BY <1>1, <2>1, <2>2
  <2> QED BY <2>3 DEF before
<1>7. (stalls - 1) * LongestTimeout + LongestTimeout = stalls * LongestTimeout
  BY <1>1
<1>8. elapsed' =< stalls * LongestTimeout
  <2> DEFINE before == (stalls - 1) * LongestTimeout
             all == stalls * LongestTimeout
  <2>1. before \in Int /\ all \in Int /\ before + LongestTimeout = all
    BY <1>1, <1>7
  <2>2. elapsed' =< before + waited' /\ waited' =< LongestTimeout /\ elapsed' \in Nat
        /\ waited' \in Nat
    BY <1>1, <1>6
  <2> HIDE DEF before, all
  <2>3. elapsed' =< all
    BY <1>1, <2>1, <2>2
  <2> QED BY <2>3 DEF all
<1>9. StallCosts'
  BY <1>5, <1>6, <1>8 DEF StallCosts, WaitPerStall, LongestTimeout
<1> QED BY <1>4, <1>9

LEMMA NextClockInv == ClockInv /\ [DeadlineNext]_deadlineVars => ClockInv'
<1> SUFFICES ASSUME ClockInv, [DeadlineNext]_deadlineVars PROVE ClockInv'
  OBVIOUS
<1> USE DEF ClockInv, ClockTypes, StallCosts, WaitPerStall, LongestTimeout, TimeoutOf
<1>1. CASE Recover
  BY <1>1 DEF Recover
<1>2. CASE GiveUp
  BY <1>2 DEF GiveUp
<1>3. CASE SettleCommit
  BY <1>3 DEF SettleCommit
<1>4. CASE BackendAnswers
  BY <1>4 DEF BackendAnswers
<1>5. CASE BffTimesOut
  BY <1>5 DEF BffTimesOut
<1>6. CASE UNCHANGED deadlineVars
  BY <1>6 DEF deadlineVars
<1> QED BY <1>1, <1>2, <1>3, <1>4, <1>5, <1>6, StallStep, CompleteStep, TickStep
        DEF DeadlineNext

LEMMA ClockInvariance == DeadlineSpec => []ClockInv
BY InitClockInv, NextClockInv, PTL DEF DeadlineSpec

(* For any timeouts and any number of stops: the customer waits no longer  *)
(* than the longest timeout for each of them.                              *)
THEOREM EachStallCostsOneTimeout == DeadlineSpec => []WaitPerStall
<1>1. ClockInv => WaitPerStall
  BY DEF ClockInv, StallCosts
<1> QED BY <1>1, ClockInvariance, PTL

(* So the backend always gives up before the BFF does, as design.md 6.2    *)
(* says, as long as the stops do not add up to the timeout of the BFF ...  *)
THEOREM BackendGivesUpFirst ==
  DeadlineSpec => [](stalls * LongestTimeout < BffTimeout => screen # "gaveUp")
<1>1. ClockInv => (stalls * LongestTimeout < BffTimeout => screen # "gaveUp")
  <2> SUFFICES ASSUME ClockInv, stalls * LongestTimeout < BffTimeout, screen = "gaveUp"
               PROVE  FALSE
    OBVIOUS
  <2>1. elapsed = BffTimeout /\ elapsed =< stalls * LongestTimeout
    BY DEF ClockInv, StallCosts, WaitPerStall
  <2>2. stalls * LongestTimeout \in Nat
    BY Timeouts DEF ClockInv, ClockTypes
  <2> HIDE DEF WaitPerStall
  <2> QED BY <2>1, <2>2, TimeoutAssumption
<1> QED BY <1>1, ClockInvariance, PTL

(* ... as one stop never does: the code's 3 and 10 seconds are below its   *)
(* 15, and with timeouts of 15 or more the theorem would be false.         *)
THEOREM OneStallIsSafe ==
  ASSUME ConnectTimeout < BffTimeout, ReadTimeout < BffTimeout
  PROVE  DeadlineSpec => []OneStallGivesUpFirst
<1>1. ClockInv => OneStallGivesUpFirst
  <2> SUFFICES ASSUME ClockInv, stalls =< 1, screen = "gaveUp" PROVE FALSE
    BY DEF OneStallGivesUpFirst, GivesUpFirst
  <2>1. elapsed = BffTimeout /\ elapsed =< stalls * LongestTimeout
    BY DEF ClockInv, StallCosts, WaitPerStall
  <2>2. stalls = 0 \/ stalls = 1
    BY DEF ClockInv, ClockTypes
  <2>3. stalls * LongestTimeout =< LongestTimeout
    BY <2>2, Timeouts
  <2>4. LongestTimeout < BffTimeout /\ LongestTimeout \in Nat /\ BffTimeout \in Nat
    BY Timeouts, TimeoutAssumption DEF LongestTimeout
  <2> QED BY <2>1, <2>2, <2>4, Timeouts
<1> QED BY <1>1, ClockInvariance, PTL

(* With any timeouts and any number of stops: a sale that appears after    *)
(* the screen was told of a failure, by the backend or by the BFF, had its *)
(* COMMIT in doubt, or the stops add up to the timeout of the BFF.         *)
THEOREM LateSalesHaveTwoCauses == DeadlineSpec => LateSalesAreExplained
<1>1. ClockInv /\ [DeadlineNext]_deadlineVars =>
        [/\ screen \in {"failed", "gaveUp"}
         /\ backend # "committed"
         /\ backend' = "committed"
         => \/ backend = "inDoubt"
            \/ screen = "gaveUp" /\ stalls * LongestTimeout >= BffTimeout]_deadlineVars
  <2> SUFFICES ASSUME ClockInv, [DeadlineNext]_deadlineVars, screen \in {"failed", "gaveUp"},
                      backend # "committed", backend' = "committed", backend # "inDoubt"
               PROVE  screen = "gaveUp" /\ stalls * LongestTimeout >= BffTimeout
    OBVIOUS
  <2>1. backend = "running"
    BY DEF deadlineVars, DeadlineNext, Stall, Recover, Complete, GiveUp, SettleCommit,
           BackendAnswers, BffTimesOut, Tick
  <2>2. screen = "gaveUp" /\ elapsed = BffTimeout
    BY <2>1 DEF ClockInv
  <2>3. elapsed =< stalls * LongestTimeout
    BY DEF ClockInv, StallCosts, WaitPerStall
  <2>4. QED
    BY <2>2, <2>3
<1> QED BY <1>1, ClockInvariance, PTL DEF DeadlineSpec, LateSalesAreExplained
=============================================================================
