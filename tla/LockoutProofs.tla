--------------------------- MODULE LockoutProofs ---------------------------
(***************************************************************************)
(* What the lock promises for any number of calls, any limit, any duration *)
(* and any clock.                                                          *)
(*                                                                         *)
(* The inductive invariant compares what each call has read with what has  *)
(* been committed since: a count that was read is still right, and no lock *)
(* is in force, unless the call knows better ("since").                    *)
(***************************************************************************)
EXTENDS Lockout, TLAPS

Place == {"idle", "checked", "revokeAll", "rotate", "issue", "done", "unrevoked"}

Record == [at : Place, row : Row, token : SUBSET Call,
           since : SUBSET {"failure", "reset", "lock", "revocation"}]

Types ==
  /\ now \in 0 .. MaxTime
  /\ staff \in Row
  /\ live \subseteq Call
  /\ call \in [Call -> Record]
  /\ inARow \in Nat
  /\ skew \subseteq {"failure", "reset"}

(* The counts that were read and not yet written back.                     *)
CountsRead ==
  \A c \in Call : call[c].at = "checked" /\ "failure" \notin call[c].since \cup skew =>
                    call[c].row.failed >= inARow

(* Who passed _check_lock met no lock, and there is none if none was seen  *)
(* to be written.                                                          *)
LocksRead ==
  \A c \in Call : call[c].at = "checked" =>
    /\ call[c].row.lockedUntil =< now
    /\ "lock" \notin call[c].since => staff.lockedUntil =< now

(* The tokens that work, or are about to be issued, after a lock.          *)
TokensLeft ==
  InForce /\ (\A c \in Call : call[c].at \notin {"revokeAll", "unrevoked"}) =>
    /\ \A t \in live : "revocation" \in call[t].since
    /\ \A c \in Call : call[c].at \in {"rotate", "issue"} => "revocation" \in call[c].since

IInv == Types /\ FailuresAreCounted /\ CountsRead /\ LocksRead /\ TokensLeft

USE LockoutAssumption DEF Never

-----------------------------------------------------------------------------
LEMMA InitInv == Init => IInv
BY DEF Init, IInv, Types, FailuresAreCounted, CountsRead, LocksRead, TokensLeft, InForce,
       Idle, Fresh, Row, Record, Place

(* What a commit does to the calls.                                        *)
LEMMA AfterCommit ==
  ASSUME Types, NEW c \in Call, NEW events \in SUBSET {"failure", "reset", "lock", "revocation"},
         NEW label \in Place, Committed(c, events, label)
  PROVE  /\ call' \in [Call -> Record]
         /\ call'[c].at = label
         /\ call'[c].since = call[c].since
         /\ \A d \in Call \ {c} :
              /\ call'[d].at = call[d].at
              /\ call'[d].row = call[d].row
              /\ call'[d].since \in {call[d].since, call[d].since \cup events}
              /\ call[d].at \in {"checked", "revokeAll", "rotate", "issue"} =>
                   call'[d].since = call[d].since \cup events
<1>1. Fresh \in Row
  BY DEF Fresh, Row
<1>2. \A d \in Call : call[d] \in Record
  BY DEF Types
<1>3. /\ [call[c] EXCEPT !.at = label, !.row = Fresh] \in Record
      /\ \A d \in Call : [call[d] EXCEPT !.since = call[d].since \cup events] \in Record
  <2>1. [call[c] EXCEPT !.at = label, !.row = Fresh] \in Record
    <3>1. [call[c] EXCEPT !.at = label] \in Record
      BY <1>2 DEF Record
    <3>2. \A r \in Record : [r EXCEPT !.row = Fresh] \in Record
      BY <1>1 DEF Record
    <3>3. QED
      BY <3>1, <3>2
  <2>2. ASSUME NEW d \in Call
        PROVE  [call[d] EXCEPT !.since = call[d].since \cup events] \in Record
    <3>1. call[d].since \cup events \in SUBSET {"failure", "reset", "lock", "revocation"}
      BY <1>2 DEF Record
    <3>2. QED
      BY <1>2, <3>1 DEF Record
  <2>3. QED
    BY <2>1, <2>2
<1>4. call' = [d \in Call |->
                 IF d = c THEN [call[c] EXCEPT !.at = label, !.row = Fresh]
                 ELSE IF UnderWay(d) THEN [call[d] EXCEPT !.since = call[d].since \cup events]
                 ELSE call[d]]
  BY DEF Committed
<1>5. call' \in [Call -> Record]
  BY <1>2, <1>3, <1>4
<1>6. call'[c].at = label /\ call'[c].since = call[c].since
  BY <1>2, <1>4 DEF Record
<1>7. ASSUME NEW d \in Call \ {c}
      PROVE  /\ call'[d].at = call[d].at
             /\ call'[d].row = call[d].row
             /\ call'[d].since \in {call[d].since, call[d].since \cup events}
             /\ call[d].at \in {"checked", "revokeAll", "rotate", "issue"} =>
                  call'[d].since = call[d].since \cup events
  BY <1>2, <1>4 DEF Record, UnderWay
<1>8. QED
  BY <1>5, <1>6, <1>7

-----------------------------------------------------------------------------
(* The logins.                                                             *)
LEMMA BeginInv == ASSUME IInv, NEW c \in Call, Begin(c) PROVE IInv'
<1>1. call[c] \in Record /\ staff \in Row /\ now \in Nat
  BY DEF IInv, Types
<1>2. CASE MayTry
  <2>1. call' = [call EXCEPT ![c] = [call[c] EXCEPT !.at = "checked", !.row = staff]]
    BY <1>2 DEF Begin
  <2>2. /\ call'[c].at = "checked" /\ call'[c].row = staff /\ call'[c].since = call[c].since
        /\ call'[c] \in Record
        /\ \A d \in Call \ {c} : call'[d] = call[d]
    BY <1>1, <2>1 DEF IInv, Types, Record, Place
  <2>3. staff.lockedUntil =< now
    BY <1>1, <1>2 DEF MayTry, InForce, Row
  <2>4. UNCHANGED <<now, staff, live, inARow, skew>>
    BY DEF Begin
  <2>5. Types'
    BY <2>1, <2>2, <2>4 DEF IInv, Types
  <2>6. FailuresAreCounted'
    BY <2>2, <2>4 DEF IInv, FailuresAreCounted
  <2>7. CountsRead'
    BY <2>2, <2>4 DEF IInv, FailuresAreCounted, CountsRead
  <2>8. LocksRead'
    BY <2>2, <2>3, <2>4 DEF IInv, LocksRead
  <2>9. TokensLeft'
    BY <1>1, <2>3, <2>4 DEF TokensLeft, InForce, Row
  <2>10. QED
    BY <2>5, <2>6, <2>7, <2>8, <2>9 DEF IInv
<1>3. CASE ~MayTry
  <2>1. /\ call'[c].at = "done" /\ call'[c].since = call[c].since /\ call'[c] \in Record
        /\ \A d \in Call \ {c} : call'[d] = call[d]
        /\ call' \in [Call -> Record]
    BY <1>1, <1>3 DEF IInv, Types, Record, Place, Begin
  <2>2. UNCHANGED <<now, staff, live, inARow, skew>> /\ call[c].at = "idle"
    BY DEF Begin
  <2>3. QED
    BY <2>1, <2>2
    DEF IInv, Types, FailuresAreCounted, CountsRead, LocksRead, TokensLeft, InForce
<1>4. QED
  BY <1>2, <1>3

LEMMA SucceedInv == ASSUME IInv, NEW c \in Call, Succeed(c) PROVE IInv'
<1>1. /\ Committed(c, {"reset"}, "issue") /\ staff' = Fresh
      /\ inARow' = 0 /\ skew' = {} /\ UNCHANGED <<now, live>>
  BY DEF Succeed, Write
<1>2. /\ call' \in [Call -> Record]
      /\ call'[c].at = "issue"
      /\ \A d \in Call \ {c} :
           /\ call'[d].at = call[d].at
           /\ call'[d].row = call[d].row
           /\ call[d].at = "checked" => call'[d].since = call[d].since \cup {"reset"}
  BY <1>1, AfterCommit DEF IInv, Place
<1>3. Types'
  BY <1>1, <1>2 DEF IInv, Types, Fresh, Row
<1>4. FailuresAreCounted'
  BY <1>1, <1>2 DEF FailuresAreCounted, Fresh
<1>5. CountsRead'
  <2>1. \A d \in Call : call'[d].row.failed \in Nat
    BY <1>2 DEF Record, Row
  <2>2. QED
    BY <1>1, <1>2, <2>1 DEF CountsRead
<1>6. LocksRead'
  BY <1>1, <1>2 DEF IInv, Types, LocksRead, Fresh
<1>7. TokensLeft'
  BY <1>1 DEF IInv, Types, TokensLeft, InForce, Fresh
<1>8. QED
  BY <1>3, <1>4, <1>5, <1>6, <1>7 DEF IInv

LEMMA FailInv == ASSUME IInv, NEW c \in Call, Fail(c) PROVE IInv'
<1> DEFINE row == [call[c].row EXCEPT !.failed = call[c].row.failed + 1]
<1>1. /\ Committed(c, {"failure"}, "done") /\ staff' = row
      /\ inARow' = inARow + 1 /\ skew' = skew \cup (call[c].since \cap {"failure", "reset"})
      /\ call[c].at = "checked" /\ call[c].row.failed + 1 < MaxFailed
      /\ UNCHANGED <<now, live>>
  BY DEF Fail, Write
<1>2. /\ call' \in [Call -> Record]
      /\ call'[c].at = "done"
      /\ \A d \in Call \ {c} :
           /\ call'[d].at = call[d].at
           /\ call'[d].row = call[d].row
           /\ call'[d].since \in {call[d].since, call[d].since \cup {"failure"}}
           /\ call[d].at = "checked" => call'[d].since = call[d].since \cup {"failure"}
      /\ call'[c].since = call[c].since
  BY <1>1, AfterCommit DEF IInv, Place
<1>3. call[c].row \in Row /\ call[c].row.failed \in Nat /\ row \in Row
  BY <1>1 DEF IInv, Types, Record, Row
<1>4. row.failed = call[c].row.failed + 1 /\ row.lockedUntil = call[c].row.lockedUntil
  BY <1>3 DEF Row
<1>5. Types'
  BY <1>1, <1>2, <1>3 DEF IInv, Types
<1>6. inARow \in Nat /\ \A d \in Call : call[d].row.failed \in Nat
  BY DEF IInv, Types, Record, Row
<1>7. FailuresAreCounted'
  <2>1. "failure" \notin skew' => staff'.failed >= inARow'
    BY <1>1, <1>4, <1>6 DEF IInv, CountsRead
  <2>2. "reset" \notin skew' => staff'.failed =< inARow'
    BY <1>1, <1>4, <1>6 DEF IInv, FailuresAreCounted
  <2>3. ASSUME NEW d \in Call, call'[d].at = "checked", "reset" \notin call'[d].since \cup skew'
        PROVE  call'[d].row.failed =< inARow'
    BY <1>1, <1>2, <1>6, <2>3 DEF IInv, FailuresAreCounted
  <2>4. QED
    BY <2>1, <2>2, <2>3 DEF FailuresAreCounted
<1>8. CountsRead'
  BY <1>1, <1>2 DEF CountsRead
<1>9. row.lockedUntil =< now
  BY <1>1, <1>4 DEF IInv, LocksRead
<1>10. LocksRead'
  BY <1>1, <1>2, <1>9 DEF IInv, LocksRead
<1>11. TokensLeft'
  BY <1>1, <1>3, <1>4, <1>9 DEF IInv, Types, TokensLeft, InForce, Row
<1>12. QED
  BY <1>5, <1>7, <1>8, <1>10, <1>11 DEF IInv

LEMMA LockInv == ASSUME IInv, NEW c \in Call, Lock(c) PROVE IInv'
<1> DEFINE row == [failed |-> 0, lockedUntil |-> now + LockTime]
<1>1. /\ Committed(c, {"reset", "lock"}, "revokeAll") /\ staff' = row
      /\ inARow' = 0 /\ skew' = {} /\ UNCHANGED <<now, live>>
  BY DEF Lock, Write
<1>2. /\ call' \in [Call -> Record]
      /\ call'[c].at = "revokeAll"
      /\ \A d \in Call \ {c} :
           /\ call'[d].at = call[d].at
           /\ call'[d].row = call[d].row
           /\ call[d].at = "checked" => call'[d].since = call[d].since \cup {"reset", "lock"}
  BY <1>1, AfterCommit DEF IInv, Place
<1>3. Types'
  BY <1>1, <1>2 DEF IInv, Types, Row
<1>4. FailuresAreCounted'
  BY <1>1, <1>2 DEF FailuresAreCounted
<1>5. CountsRead'
  <2>1. \A d \in Call : call'[d].row.failed \in Nat
    BY <1>2 DEF Record, Row
  <2>2. QED
    BY <1>1, <1>2, <2>1 DEF CountsRead
<1>6. LocksRead'
  BY <1>1, <1>2 DEF IInv, LocksRead
<1>7. TokensLeft'
  BY <1>2 DEF TokensLeft
<1>8. QED
  BY <1>3, <1>4, <1>5, <1>6, <1>7 DEF IInv

LEMMA RevokeAllInv == ASSUME IInv, NEW c \in Call, RevokeAll(c) PROVE IInv'
<1>1. Committed(c, {"revocation"}, "done") /\ live' = {} /\ UNCHANGED <<now, staff, inARow, skew>>
  BY DEF RevokeAll
<1>2. /\ call' \in [Call -> Record]
      /\ call'[c].at = "done"
      /\ \A d \in Call \ {c} :
           /\ call'[d].at = call[d].at
           /\ call'[d].row = call[d].row
           /\ call'[d].since \in {call[d].since, call[d].since \cup {"revocation"}}
           /\ call[d].at \in {"rotate", "issue"} =>
                call'[d].since = call[d].since \cup {"revocation"}
  BY <1>1, AfterCommit DEF IInv, Place
<1>3. Types'
  BY <1>1, <1>2 DEF IInv, Types
<1>4. FailuresAreCounted'
  BY <1>1, <1>2 DEF IInv, FailuresAreCounted
<1>5. CountsRead'
  BY <1>1, <1>2 DEF IInv, CountsRead
<1>6. LocksRead'
  BY <1>1, <1>2 DEF IInv, LocksRead
<1>7. TokensLeft'
  BY <1>1, <1>2 DEF TokensLeft
<1>8. QED
  BY <1>3, <1>4, <1>5, <1>6, <1>7 DEF IInv

-----------------------------------------------------------------------------
(* The steps that change one call, the tokens, the clock or a lock by hand *)
(* and leave the counting alone.                                           *)
LEMMA TokenSteps ==
  ASSUME IInv, NEW c \in Call, FindToken(c) \/ Rotate(c) \/ IssueTokens(c) \/ Break(c)
  PROVE  IInv'
<1>1. call[c] \in Record
  BY DEF IInv, Types
<1>2. CASE FindToken(c)
  <2>1. PICK t \in live :
          call' = [call EXCEPT ![c] = [call[c] EXCEPT
                     !.at = "rotate", !.token = {t},
                     !.since = call[t].since \cap {"revocation"}]]
    BY <1>2 DEF FindToken
  <2>2. t \in Call /\ call[t] \in Record
    BY <2>1 DEF IInv, Types
  <2>3. /\ call'[c].at = "rotate" /\ call'[c] \in Record
        /\ call'[c].since = call[t].since \cap {"revocation"}
        /\ \A d \in Call \ {c} : call'[d] = call[d]
        /\ call' \in [Call -> Record]
    BY <1>1, <2>1, <2>2 DEF IInv, Types, Record, Place
  <2>4. UNCHANGED <<now, staff, live, inARow, skew>> /\ call[c].at = "idle"
    BY <1>2 DEF FindToken
  <2>5. Types' /\ FailuresAreCounted' /\ CountsRead' /\ LocksRead'
    BY <2>3, <2>4 DEF IInv, Types, FailuresAreCounted, CountsRead, LocksRead
  <2>6. TokensLeft'
    BY <2>1, <2>3, <2>4 DEF IInv, TokensLeft, InForce
  <2>7. QED
    BY <2>5, <2>6 DEF IInv
<1>3. CASE Rotate(c)
  <2>1. /\ call[c].at = "rotate" /\ call'[c].at = "issue" /\ call'[c].since = call[c].since
        /\ \A d \in Call \ {c} : call'[d] = call[d]
        /\ call' \in [Call -> Record]
    BY <1>1, <1>3 DEF IInv, Types, Record, Place, Rotate
  <2>2. UNCHANGED <<now, staff, inARow, skew>> /\ live' \subseteq live
    BY <1>3 DEF Rotate
  <2>3. Types' /\ FailuresAreCounted' /\ CountsRead' /\ LocksRead'
    BY <2>1, <2>2 DEF IInv, Types, FailuresAreCounted, CountsRead, LocksRead
  <2>4. \A d \in Call : /\ call'[d].since = call[d].since
                        /\ d = c \/ call'[d].at = call[d].at
    BY <2>1
  <2>5. live' \subseteq Call
    BY <2>3 DEF Types
  <2>6. TokensLeft'
    BY <2>1, <2>2, <2>4, <2>5 DEF IInv, TokensLeft, InForce
  <2>7. QED
    BY <2>3, <2>6 DEF IInv
<1>4. CASE IssueTokens(c)
  <2>1. /\ call[c].at = "issue" /\ call'[c].at = "done" /\ call'[c].since = call[c].since
        /\ \A d \in Call \ {c} : call'[d] = call[d]
        /\ call' \in [Call -> Record]
    BY <1>1, <1>4 DEF IInv, Types, Record, Place, IssueTokens
  <2>2. UNCHANGED <<now, staff, inARow, skew>> /\ live' = live \cup {c}
    BY <1>4 DEF IssueTokens
  <2>3. Types' /\ FailuresAreCounted' /\ CountsRead' /\ LocksRead'
    BY <2>1, <2>2 DEF IInv, Types, FailuresAreCounted, CountsRead, LocksRead
  <2>4. \A d \in Call : /\ call'[d].since = call[d].since
                        /\ d = c \/ call'[d].at = call[d].at
    BY <2>1
  <2>5. live' \subseteq Call
    BY <2>3 DEF Types
  <2>6. TokensLeft'
    BY <2>1, <2>2, <2>4, <2>5 DEF IInv, TokensLeft, InForce
  <2>7. QED
    BY <2>3, <2>6 DEF IInv
<1>5. CASE Break(c)
  <2>1. Fresh \in Row
    BY DEF Fresh, Row
  <2>2. /\ call[c].at \in {"checked", "revokeAll", "rotate", "issue"}
        /\ call'[c].at = IF call[c].at = "revokeAll" THEN "unrevoked" ELSE "done"
        /\ call'[c].since = call[c].since
        /\ \A d \in Call \ {c} : call'[d] = call[d]
        /\ call' \in [Call -> Record]
    BY <1>1, <1>5, <2>1 DEF IInv, Types, Record, Place, Break, UnderWay
  <2>3. UNCHANGED <<now, staff, live, inARow, skew>>
    BY <1>5 DEF Break
  <2>4. Types' /\ FailuresAreCounted' /\ CountsRead' /\ LocksRead'
    BY <2>2, <2>3 DEF IInv, Types, FailuresAreCounted, CountsRead, LocksRead
  <2>5. \A d \in Call : /\ call'[d].since = call[d].since
                        /\ d = c \/ call'[d].at = call[d].at
    BY <2>2
  <2>6. live \subseteq Call
    BY DEF IInv, Types
  <2>7. TokensLeft'
    BY <2>2, <2>3, <2>5, <2>6 DEF IInv, TokensLeft, InForce
  <2>8. QED
    BY <2>4, <2>7 DEF IInv
<1>6. QED
  BY <1>2, <1>3, <1>4, <1>5

LEMMA OutsideSteps == ASSUME IInv, Revoke \/ UnlockByHand \/ Tick PROVE IInv'
<1>1. staff \in Row /\ now \in Nat
  BY DEF IInv, Types
<1>2. CASE Revoke
  BY <1>2 DEF IInv, Types, FailuresAreCounted, CountsRead, LocksRead, TokensLeft, InForce, Revoke
<1>3. CASE UnlockByHand
  <2>1. staff' \in Row /\ staff'.failed = staff.failed /\ staff'.lockedUntil = 0
    BY <1>1, <1>3 DEF UnlockByHand, Row
  <2>2. UNCHANGED <<now, live, call, inARow, skew>>
    BY <1>3 DEF UnlockByHand
  <2>3. QED
    BY <1>1, <2>1, <2>2
    DEF IInv, Types, FailuresAreCounted, CountsRead, LocksRead, TokensLeft, InForce
<1>4. CASE Tick
  <2>1. /\ now' = now + 1 /\ now' \in 0 .. MaxTime
        /\ UNCHANGED <<staff, live, call, inARow, skew>>
    BY <1>4 DEF IInv, Types, Tick
  <2>2. \A c \in Call : call[c].row.lockedUntil \in Nat
    BY DEF IInv, Types, Record, Row
  <2>3. staff.lockedUntil \in Nat
    BY <1>1 DEF Row
  <2>4. LocksRead'
    BY <1>1, <2>1, <2>2, <2>3 DEF IInv, LocksRead
  <2>5. TokensLeft'
    BY <1>1, <2>1, <2>3 DEF IInv, TokensLeft, InForce
  <2>6. QED
    BY <2>1, <2>4, <2>5 DEF IInv, Types, FailuresAreCounted, CountsRead
<1>5. QED
  BY <1>2, <1>3, <1>4

LEMMA NextInv == IInv /\ [Next]_vars => IInv'
<1> SUFFICES ASSUME IInv, [Next]_vars PROVE IInv'
  OBVIOUS
<1>1. CASE UNCHANGED vars
  BY <1>1 DEF vars, IInv, Types, FailuresAreCounted, CountsRead, LocksRead, TokensLeft, InForce
<1>2. CASE Next
  BY <1>2, BeginInv, SucceedInv, FailInv, LockInv, RevokeAllInv, TokenSteps, OutsideSteps DEF Next
<1>3. QED
  BY <1>1, <1>2

LEMMA InvHolds == Spec => []IInv
BY InitInv, NextInv, PTL DEF Spec

-----------------------------------------------------------------------------
(* Type correctness: the count that is stored never reaches the limit.     *)
THEOREM LockoutTypes == Spec => []TypeOK
<1>1. IInv => TypeOK
  BY DEF IInv, Types, TypeOK, Record, Place
<1>2. QED
  BY <1>1, InvHolds, PTL

(* Ten failures in a row are counted as ten, but for attempts that         *)
(* overlap.                                                                *)
THEOREM FailuresCount == Spec => []FailuresAreCounted
BY InvHolds, PTL DEF IInv

(* After a lock, only what overlapped with the revocation still works.     *)
THEOREM SessionsEnd == Spec => []LockEndsSessions
<1>1. IInv => LockEndsSessions
  BY DEF IInv, TokensLeft, LockEndsSessions
<1>2. QED
  BY <1>1, InvHolds, PTL

(* A lock in force is lifted by nobody but the owner and the calls that    *)
(* passed _check_lock before it.                                           *)
THEOREM LocksStay == Spec => LockLasts
<1>1. ASSUME IInv, [Next]_vars, InForce, staff'.lockedUntil # staff.lockedUntil
      PROVE  \/ UNCHANGED call
             \/ \E c \in Call : "lock" \in call[c].since /\ call'[c].at # call[c].at
  <2>1. ASSUME NEW c \in Call, Succeed(c) \/ Fail(c) \/ Lock(c)
        PROVE  "lock" \in call[c].since /\ call'[c].at # call[c].at
    <3>1. call[c].at = "checked"
      BY <2>1 DEF Succeed, Fail, Lock
    <3>2. PICK events \in SUBSET {"failure", "reset", "lock", "revocation"},
               label \in {"issue", "done", "revokeAll"} : Committed(c, events, label)
      BY <2>1 DEF Succeed, Fail, Lock, Write
    <3>3. call'[c].at = label
      BY <1>1, <3>2, AfterCommit DEF IInv, Place
    <3>4. "lock" \in call[c].since
      BY <1>1, <3>1 DEF IInv, Types, LocksRead, InForce, Row
    <3>5. QED
      BY <3>1, <3>3, <3>4
  <2>2. CASE \E c \in Call : Succeed(c) \/ Fail(c) \/ Lock(c)
    BY <2>1, <2>2
  <2>3. CASE UNCHANGED staff
    BY <1>1, <2>3
  <2>4. CASE UnlockByHand
    BY <2>4 DEF UnlockByHand
  <2>5. QED
    BY <1>1, <2>2, <2>3, <2>4
    DEF vars, Next, Begin, RevokeAll, FindToken, Rotate, IssueTokens, Break, Revoke, Tick
<1>2. IInv /\ [Next]_vars =>
        [InForce /\ staff'.lockedUntil # staff.lockedUntil =>
           \/ UNCHANGED call
           \/ \E c \in Call : "lock" \in call[c].since /\ call'[c].at # call[c].at]_vars
  BY <1>1
<1>3. QED
  BY <1>2, InvHolds, PTL DEF Spec, LockLasts
=============================================================================
