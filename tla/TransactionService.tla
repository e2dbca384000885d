------------------------- MODULE TransactionService -------------------------
(***************************************************************************)
(* POST /transactions: TransactionService.confirm and the repository's add *)
(* on InnoDB, for requests that run at the same time.                      *)
(*                                                                         *)
(* One request has one session.  Its first SELECT starts a REPEATABLE READ *)
(* snapshot that every later read of the request uses; the INSERT does not *)
(* use it: it meets the unique index on idempotency_key as it is, and      *)
(* waits for another request's uncommitted row with the same key.  If that *)
(* row is rolled back, everyone who waited for it is left with a shared    *)
(* lock on its place, and may insert there only when nobody else has one:  *)
(* two of them wait in a circle, until InnoDB chooses a victim.            *)
(*                                                                         *)
(* Any statement may fail (timeouts, a lost connection, the end of the     *)
(* process); an INSERT whose caller has gone still stands in the database, *)
(* and a COMMIT whose answer is lost is in doubt.                          *)
(*                                                                         *)
(* The place of a row is that of its key: keys are random UUIDs, and those *)
(* of purchases under way at once are taken not to be neighbours.          *)
(* Reads of one table are one step.  Prices are versions: what the totals  *)
(* are made of is the subject of Pricing.                                  *)
(***************************************************************************)
EXTENDS Integers, FiniteSets

CONSTANTS Request,      \* purchase requests; a retry is another request
          Key,          \* idempotency keys
          Product, Member, NoMember,
          Totals,       \* the four values a request claims and a sale stores
          NoSnapshot,   \* no transaction is open
          Unpriceable,  \* PricingService or the rate lookup raises
          KeyOf,        \* the parts of a request: its key,
          CodesOf,      \* its product codes,
          MemberOf,     \* its member or NoMember,
          Claimed,      \* its client_totals
          MasterStates, \* states the masters are left in by a maintenance
          MaxId,        \* the largest transaction_id: 2^63 - 1
          Quote         \* prices, rules (rates, campaigns), request -> totals

Prices == {m.prices : m \in MasterStates}

Rules == {m.rules : m \in MasterStates}

ASSUME RequestAssumption ==
  /\ KeyOf \in [Request -> Key]
  /\ CodesOf \in [Request -> SUBSET Product]
  /\ MemberOf \in [Request -> Member \cup {NoMember}]
  /\ Claimed \in [Request -> Totals]
  /\ NoMember \notin Member

ASSUME MaxIdAssumption == MaxId \in Nat

ASSUME MasterAssumption ==
  /\ \A m \in MasterStates : m.onSale \subseteq Product /\ m.members \subseteq Member
  /\ Quote \in [Prices -> [Rules -> [Request -> Totals \cup {Unpriceable}]]]
  /\ Unpriceable \notin Totals

VARIABLES masters,      \* the master tables, as committed
          table,        \* the committed rows of `transaction`
          nextId,       \* its AUTO_INCREMENT counter: never goes back
          pending,      \* the rows inserted and not committed
          shared,       \* who has a shared lock on the place of its key
          snapshot,     \* the masters as each request's reads see them
          pc,           \* where in confirm each request is
          answer        \* what its caller was answered

vars == <<masters, table, nextId, pending, shared, snapshot, pc, answer>>

NoAnswer == [status |-> "none"]

Answers ==
  {NoAnswer}
    \cup [status : {"INTERNAL_ERROR", "PRODUCT_NOT_FOUND", "MEMBER_NOT_FOUND",
                    "TOTALS_MISMATCH"}]
    \cup [status : {"created", "DUPLICATE"}, id : 1 .. MaxId]

(* "by" is the request a row came from; the table has no such column.      *)
Row == [key : Key, by : Request, id : 1 .. MaxId,
        totals : Totals \cup {Unpriceable}, prices : Prices, rules : Rules]

-----------------------------------------------------------------------------
Init ==
  /\ masters \in MasterStates
  /\ table = {}
  /\ nextId = 1
  /\ pending = {}
  /\ shared = {}
  /\ snapshot = [r \in Request |-> NoSnapshot]
  /\ pc = [r \in Request |-> "idle"]
  /\ answer = [r \in Request |-> NoAnswer]

Goto(r, label) == pc' = [pc EXCEPT ![r] = label]

EndSnapshot(r) == snapshot' = [snapshot EXCEPT ![r] = NoSnapshot]

(* A transaction that inserted nothing, or commits, ends.                  *)
EndTransaction(r) == EndSnapshot(r) /\ shared' = shared \ {r}

(* Answering ends the request: its session is closed.                      *)
Answer(r, a) ==
  /\ answer' = [answer EXCEPT ![r] = a]
  /\ EndTransaction(r)
  /\ Goto(r, "done")

Saved(key) == {row \in table : row.key = key}

Receive(r) ==
  /\ pc[r] = "idle"
  /\ Goto(r, "find")
  /\ UNCHANGED <<masters, table, nextId, pending, shared, snapshot, answer>>

\* mutant: the products are looked up before the key
FindKey_ProductsFirst(r) ==
  /\ pc[r] = "find"
  /\ IF ~(CodesOf[r] \subseteq masters.onSale)
       THEN Answer(r, [status |-> "PRODUCT_NOT_FOUND"])
       ELSE \/ /\ Saved(KeyOf[r]) = {}
               /\ snapshot' = [snapshot EXCEPT ![r] = masters]
               /\ Goto(r, "products")
               /\ UNCHANGED <<shared, answer>>
            \/ \E row \in Saved(KeyOf[r]) :
                 Answer(r, [status |-> "DUPLICATE", id |-> row.id])
  /\ UNCHANGED <<masters, table, nextId, pending>>

(* 1. A resend is recognised before its content is looked at.              *)
FindKey(r) ==
  /\ pc[r] = "find"
  /\ \/ /\ Saved(KeyOf[r]) = {}
        /\ snapshot' = [snapshot EXCEPT ![r] = masters]
        /\ Goto(r, "products")
        /\ UNCHANGED <<shared, answer>>
     \/ \E row \in Saved(KeyOf[r]) :
          Answer(r, [status |-> "DUPLICATE", id |-> row.id])
  /\ UNCHANGED <<masters, table, nextId, pending>>

(* 2. Unit prices and names come from the master.                          *)
FindProducts(r) ==
  /\ pc[r] = "products"
  /\ IF CodesOf[r] \subseteq snapshot[r].onSale
       THEN Goto(r, "member") /\ UNCHANGED <<shared, snapshot, answer>>
       ELSE Answer(r, [status |-> "PRODUCT_NOT_FOUND"])
  /\ UNCHANGED <<masters, table, nextId, pending>>

(* 3. The member, when the request has one.                                *)
FindMember(r) ==
  /\ pc[r] = "member"
  /\ IF MemberOf[r] = NoMember \/ MemberOf[r] \in snapshot[r].members
       THEN Goto(r, "verify") /\ UNCHANGED <<shared, snapshot, answer>>
       ELSE Answer(r, [status |-> "MEMBER_NOT_FOUND"])
  /\ UNCHANGED <<masters, table, nextId, pending>>

\* mutant: the session reads at READ COMMITTED
RulesRead_Committed(r) == masters.rules

(* What the reads of the rates and the campaigns see.                      *)
RulesRead(r) == snapshot[r].rules

ServerTotals(r) == Quote[snapshot[r].prices][RulesRead(r)][r]

(* 4. and 5. Recalculate, and compare with what the client claims.         *)
Verify(r) ==
  /\ pc[r] = "verify"
  /\ \/ /\ ServerTotals(r) = Unpriceable
        /\ Answer(r, [status |-> "INTERNAL_ERROR"])
     \/ /\ ServerTotals(r) \in Totals \ {Claimed[r]}
        /\ Answer(r, [status |-> "TOTALS_MISMATCH"])
     \/ /\ ServerTotals(r) = Claimed[r]
        /\ Goto(r, "insert")
        /\ UNCHANGED <<shared, snapshot, answer>>
  /\ UNCHANGED <<masters, table, nextId, pending>>

NewRow(r) == [key |-> KeyOf[r], by |-> r, id |-> nextId, totals |-> ServerTotals(r),
              prices |-> snapshot[r].prices, rules |-> RulesRead(r)]

PendingOf(r) == {row \in pending : row.by = r}

MemberMissing(r) == MemberOf[r] # NoMember /\ MemberOf[r] \notin masters.members

(* The caller is gone, its INSERT is not.                                  *)
Abandoned(r) == answer[r] # NoAnswer

(* What an INSERT waits for: the end of an uncommitted row with its key,   *)
(* and of the shared locks of others on its place.                         *)
KeyLocked(r) == \E row \in pending : row.key = KeyOf[r]

Others(r) == {q \in shared \ {r} : KeyOf[q] = KeyOf[r]}

Blocked(r) == KeyLocked(r) \/ Others(r) # {}

(* Those who wait for the row of r: its rollback gives each a shared lock. *)
WaitersFor(r) ==
  {q \in Request : pc[q] = "waiting" /\ \E row \in PendingOf(r) : row.key = KeyOf[q]}

RollBack(r) ==
  /\ pending' = pending \ PendingOf(r)
  /\ shared' = (shared \ {r}) \cup WaitersFor(r)

(* The INSERT stands in the database: "waiting" for a row, or "queued"     *)
(* behind shared locks without one of its own, from where it begins anew.  *)
Wait(r) ==
  /\ pc[r] \in {"insert", "queued"}
  /\ Blocked(r)
  /\ pc[r] = "queued" => Others(r) = {}
  /\ Goto(r, IF KeyLocked(r) THEN "waiting" ELSE "queued")
  /\ UNCHANGED <<masters, table, nextId, pending, shared, snapshot, answer>>

Inserted(r) ==
  /\ pending' = pending \cup {NewRow(r)}
  /\ nextId' = nextId + 1
  /\ Goto(r, IF Abandoned(r) THEN "orphan" ELSE "commit")
  /\ UNCHANGED <<shared, snapshot>>

Refused(r) ==
  /\ EndTransaction(r)
  /\ Goto(r, IF Abandoned(r) THEN "done" ELSE "refind")
  /\ UNCHANGED <<pending, nextId>>

\* mutant: the table has no unique index on idempotency_key
Insert_NoUniqueKey(r) ==
  /\ pc[r] = "insert"
  /\ nextId =< MaxId
  /\ IF MemberMissing(r) THEN Refused(r) ELSE Inserted(r)
  /\ UNCHANGED <<masters, table, answer>>

(* 6. The INSERTs of commit(): the unique index and the foreign keys are   *)
(* checked against the present, not the snapshot.  An IntegrityError rolls *)
(* back and looks the key up again.                                        *)
Insert(r) ==
  /\ pc[r] \in {"insert", "waiting", "queued"}
  /\ ~Blocked(r)
  /\ nextId =< MaxId
  /\ IF Saved(KeyOf[r]) # {} \/ MemberMissing(r) THEN Refused(r) ELSE Inserted(r)
  /\ UNCHANGED <<masters, table, answer>>

(* Two who wait for each other's shared lock: the detector rolls one back. *)
(* Its error is an OperationalError, which add() does not catch.           *)
DeadlockVictim(r) ==
  /\ pc[r] = "waiting" /\ r \in shared /\ Others(r) # {}
  /\ ~Abandoned(r)
  /\ Answer(r, [status |-> "INTERNAL_ERROR"])
  /\ UNCHANGED <<masters, table, nextId, pending>>

\* mutant: the exception path of commit() goes on as if it had rolled back
CommitFails_Rollback(r) ==
  /\ pc[r] = "commit"
  /\ Goto(r, "refind")
  /\ EndTransaction(r)
  /\ UNCHANGED <<masters, table, nextId, pending, answer>>

Commit(r) ==
  /\ pc[r] = "commit"
  /\ table' = table \cup PendingOf(r)
  /\ pending' = pending \ PendingOf(r)
  /\ EndTransaction(r)
  /\ Goto(r, "saved")
  /\ UNCHANGED <<masters, nextId, answer>>

ReplyCreated(r) ==
  /\ pc[r] = "saved"
  /\ \E row \in table : row.by = r /\ Answer(r, [status |-> "created", id |-> row.id])
  /\ UNCHANGED <<masters, table, nextId, pending>>

(* After the rollback a new snapshot: whoever took the key is visible.     *)
Refind(r) ==
  /\ pc[r] = "refind"
  /\ \/ \E row \in Saved(KeyOf[r]) :
          Answer(r, [status |-> "DUPLICATE", id |-> row.id])
     \/ /\ Saved(KeyOf[r]) = {}
        /\ Answer(r, [status |-> "INTERNAL_ERROR"])
  /\ UNCHANGED <<masters, table, nextId, pending>>

-----------------------------------------------------------------------------
(* A statement raises, or the process ends; nothing of the request was     *)
(* inserted yet or all of it is committed.  The caller gets a 500, from    *)
(* the backend or from the BFF.                                            *)
Fail(r) ==
  /\ pc[r] \in {"find", "products", "member", "verify", "insert", "refind", "saved"}
  /\ Answer(r, [status |-> "INTERNAL_ERROR"])
  /\ UNCHANGED <<masters, table, nextId, pending>>

(* The INSERT waits longer than read_timeout, or the process ends: the     *)
(* caller gets a 500, the statement goes on waiting.                       *)
Abandon(r) ==
  /\ pc[r] \in {"waiting", "queued"} /\ ~Abandoned(r)
  /\ answer' = [answer EXCEPT ![r] = [status |-> "INTERNAL_ERROR"]]
  /\ UNCHANGED <<masters, table, nextId, pending, shared, snapshot, pc>>

(* COMMIT raises.  The database may have it all the same: the row stays    *)
(* pending until Settle says which.                                        *)
CommitFails(r) ==
  /\ pc[r] = "commit"
  /\ answer' = [answer EXCEPT ![r] = [status |-> "INTERNAL_ERROR"]]
  /\ EndSnapshot(r)
  /\ Goto(r, "inDoubt")
  /\ UNCHANGED <<masters, table, nextId, pending, shared>>

\* mutant: the transaction of a client that is gone stays open
Settle_WaitsForClient(r) ==
  /\ pc[r] = "inDoubt"
  /\ answer[r] = NoAnswer
  /\ table' \in {table, table \cup PendingOf(r)}
  /\ RollBack(r)
  /\ Goto(r, "done")
  /\ UNCHANGED <<masters, nextId, snapshot, answer>>

Settle(r) ==
  /\ pc[r] = "inDoubt"
  /\ \/ UNCHANGED table /\ RollBack(r)
     \/ /\ table' = table \cup PendingOf(r)
        /\ pending' = pending \ PendingOf(r)
        /\ shared' = shared \ {r}
  /\ Goto(r, "done")
  /\ UNCHANGED <<masters, nextId, snapshot, answer>>

(* The database ends the transaction of an INSERT whose caller is gone:    *)
(* after it, as a victim, or when innodb_lock_wait_timeout is over.        *)
RollBackAbandoned(r) ==
  /\ pc[r] \in {"waiting", "queued", "orphan"} /\ Abandoned(r)
  /\ RollBack(r)
  /\ EndSnapshot(r)
  /\ Goto(r, "done")
  /\ UNCHANGED <<masters, table, nextId, answer>>

(* Someone changes the masters, in one transaction.                        *)
Maintenance ==
  /\ masters' \in MasterStates
  /\ UNCHANGED <<table, nextId, pending, shared, snapshot, pc, answer>>

Progress(r) ==
  \/ FindKey(r) \/ FindProducts(r) \/ FindMember(r) \/ Verify(r)
  \/ Insert(r) \/ Wait(r) \/ DeadlockVictim(r)
  \/ Commit(r) \/ ReplyCreated(r) \/ Refind(r)
  \/ Settle(r) \/ RollBackAbandoned(r)

Failure(r) == Fail(r) \/ Abandon(r) \/ CommitFails(r)

Next ==
  \/ \E r \in Request : Receive(r) \/ Progress(r) \/ Failure(r)
  \/ Maintenance

Spec == Init /\ [][Next]_vars

(* The worker thread of a request keeps running, and the database ends     *)
(* circles and the transactions of clients that are gone.                  *)
FairSpec == Spec /\ \A r \in Request : WF_vars(Progress(r))
-----------------------------------------------------------------------------
(* Rows, counters and program points have their types; a request holds an  *)
(* uncommitted row exactly while its COMMIT or rollback is to come, and a  *)
(* shared lock only in or after the wait that left it with one.            *)
TypeOK ==
  /\ masters \in MasterStates
  /\ table \subseteq Row
  /\ nextId \in 1 .. MaxId + 1
  /\ pending \subseteq Row
  /\ snapshot \in [Request -> MasterStates \cup {NoSnapshot}]
  /\ pc \in [Request -> {"idle", "find", "products", "member", "verify", "insert",
                        "queued", "waiting", "commit", "saved", "refind", "inDoubt",
                        "orphan", "done"}]
  /\ answer \in [Request -> Answers]
  /\ \A r \in Request : PendingOf(r) # {} <=> pc[r] \in {"commit", "inDoubt", "orphan"}
  /\ shared \subseteq {r \in Request : pc[r] \in {"waiting", "commit", "inDoubt", "orphan"}}

(* A sale is saved for exactly the amount its request claimed, with its    *)
(* key, and is the price of its goods for its member in one single state   *)
(* of the masters, although the masters may change between any two of the  *)
(* reads that price it (single snapshot, services/transaction.py).         *)
PricedAt(row, m) ==
  /\ row.prices = m.prices
  /\ row.rules = m.rules
  /\ CodesOf[row.by] \subseteq m.onSale
  /\ MemberOf[row.by] \in m.members \cup {NoMember}

SoldAsClaimed ==
  \A row \in table :
    /\ row.key = KeyOf[row.by]
    /\ row.totals = Claimed[row.by]
    /\ row.totals = Quote[row.prices][row.rules][row.by]
    /\ \E m \in MasterStates : PricedAt(row, m)

(* The purchase API keeps the promises of Ledger: a key buys at most once, *)
(* sales are never changed or removed, created and DUPLICATE name the sale *)
(* of the key, and a request that is rejected has bought nothing.          *)
L == INSTANCE Ledger WITH
       Id    <- 1 .. MaxId,
       sales <- {[key |-> row.key, by |-> row.by, id |-> row.id,
                  totals |-> row.totals] : row \in table}

ImplementsLedger == L!Spec

(* A request that reaches the service after its key was sold is recognised *)
(* as a resend, whatever has become of the masters since: it is never      *)
(* told that a product or member is unknown or that the totals differ.     *)
Resend(r) == pc[r] \in {"idle", "find"} /\ Saved(KeyOf[r]) # {}

RetryRecognised ==
  \A r \in Request :
    [](Resend(r) => [](answer[r].status \in {"none", "DUPLICATE", "INTERNAL_ERROR"}))

(* Every request that reaches the service is answered, although requests   *)
(* wait for each other's uncommitted rows and shared locks.                *)
EveryRequestAnswered ==
  \A r \in Request : pc[r] = "find" ~> answer[r] # NoAnswer
=============================================================================
