------------------------------ MODULE Lockout ------------------------------
(***************************************************************************)
(* The lock of one member of staff after failures to log in, when logins   *)
(* and renewals overlap and each may fail between two of its commits.      *)
(*                                                                         *)
(* AuthService reads the row of the member, works on that copy and writes  *)
(* both columns back; every write is a commit of its own.  Refresh tokens  *)
(* are named by the call that issued them.  The member stays active, and   *)
(* tokens are used within their 12 hours.                                  *)
(***************************************************************************)
EXTENDS Integers

CONSTANTS Call,         \* the logins and renewals
          MaxFailed,    \* MAX_FAILED_ATTEMPTS
          LockTime,     \* LOCK_DURATION
          MayBreak,     \* whether a call may fail half way
          MaxTime       \* bound: the end of the business clock

ASSUME LockoutAssumption ==
  /\ {MaxFailed, LockTime} \subseteq Nat \ {0}
  /\ MaxTime \in Nat
  /\ MayBreak \in BOOLEAN

Never == 0      \* locked_until is NULL

Row == [failed : 0 .. MaxFailed - 1, lockedUntil : 0 .. MaxTime + LockTime]

VARIABLES now,          \* the business clock
          staff,        \* the row of the member
          live,         \* the refresh tokens that are not revoked
          call,         \* where each call is, what it read, and since then ...
          inARow,       \* failures since the last success or lock
          skew          \* what overlapped with those failures

vars == <<now, staff, live, call, inARow, skew>>

Fresh == [failed |-> 0, lockedUntil |-> Never]

(* "since" collects what others have committed after a call began.         *)
Idle == [at |-> "idle", row |-> Fresh, token |-> {}, since |-> {}]

UnderWay(c) == call[c].at \in {"checked", "revokeAll", "rotate", "issue"}

Init ==
  /\ now = 0
  /\ staff = Fresh
  /\ live = {}
  /\ call = [c \in Call |-> Idle]
  /\ inARow = 0
  /\ skew = {}

-----------------------------------------------------------------------------
InForce == now < staff.lockedUntil

\* mutant: the lock is not looked at
MayTry_Always == TRUE

(* _check_lock.                                                            *)
MayTry == ~InForce

(* authenticate, up to the verification of the password.                   *)
Begin(c) ==
  /\ call[c].at = "idle"
  /\ call' = [call EXCEPT ![c] = IF MayTry THEN [@ EXCEPT !.at = "checked", !.row = staff]
                                           ELSE [@ EXCEPT !.at = "done"]]
  /\ UNCHANGED <<now, staff, live, inARow, skew>>

(* A call has committed and goes on at a label.                            *)
Committed(c, events, label) ==
  call' = [d \in Call |->
             IF d = c THEN [call[c] EXCEPT !.at = label, !.row = Fresh]
             ELSE IF UnderWay(d) THEN [call[d] EXCEPT !.since = @ \cup events]
             ELSE call[d]]

(* SqlStaffRepository.update.                                              *)
Write(c, row, events, label) == staff' = row /\ Committed(c, events, label)

\* mutant: a success ends the lock and keeps the count
Succeed_KeepsCount(c) ==
  /\ call[c].at = "checked"
  /\ Write(c, [call[c].row EXCEPT !.lockedUntil = Never], {"reset"}, "issue")
  /\ inARow' = 0
  /\ skew' = {}
  /\ UNCHANGED <<now, live>>

(* The password is right.                                                  *)
Succeed(c) ==
  /\ call[c].at = "checked"
  /\ Write(c, Fresh, {"reset"}, "issue")
  /\ inARow' = 0
  /\ skew' = {}
  /\ UNCHANGED <<now, live>>

\* mutant: one failure more than MAX_FAILED_ATTEMPTS is put up with
Fail_OneMore(c) ==
  /\ call[c].at = "checked"
  /\ call[c].row.failed < MaxFailed
  /\ Write(c, [call[c].row EXCEPT !.failed = @ + 1], {"failure"}, "done")
  /\ inARow' = inARow + 1
  /\ skew' = skew \cup (call[c].since \cap {"failure", "reset"})
  /\ UNCHANGED <<now, live>>

(* It is wrong: the count that was read, plus one.                         *)
Fail(c) ==
  /\ call[c].at = "checked"
  /\ call[c].row.failed + 1 < MaxFailed
  /\ Write(c, [call[c].row EXCEPT !.failed = @ + 1], {"failure"}, "done")
  /\ inARow' = inARow + 1
  /\ skew' = skew \cup (call[c].since \cap {"failure", "reset"})
  /\ UNCHANGED <<now, live>>

\* mutant: the tokens are revoked before the lock is written
Lock_RevokesFirst(c) ==
  /\ call[c].at \in {"checked", "revokeAll"}
  /\ call[c].row.failed + 1 >= MaxFailed
  /\ IF call[c].at = "checked" /\ live # {}
       THEN live' = {} /\ UNCHANGED <<staff, call, inARow, skew>>
       ELSE /\ Write(c, [failed |-> 0, lockedUntil |-> now + LockTime], {"reset", "lock"},
                    "done")
            /\ inARow' = 0
            /\ skew' = {}
            /\ UNCHANGED live
  /\ UNCHANGED now

(* It is wrong once too often: the row first, ...                          *)
Lock(c) ==
  /\ call[c].at = "checked"
  /\ call[c].row.failed + 1 >= MaxFailed
  /\ Write(c, [failed |-> 0, lockedUntil |-> now + LockTime], {"reset", "lock"}, "revokeAll")
  /\ inARow' = 0
  /\ skew' = {}
  /\ UNCHANGED <<now, live>>

(* ... then revoke_all_for_staff, in a commit of its own.                  *)
RevokeAll(c) ==
  /\ call[c].at = "revokeAll"
  /\ live' = {}
  /\ Committed(c, {"revocation"}, "done")
  /\ UNCHANGED <<now, staff, inARow, skew>>

-----------------------------------------------------------------------------
(* refresh, up to its first write; the lock is not asked about.  What a    *)
(* token overlapped with holds for its successor, too.                     *)
FindToken(c) ==
  /\ call[c].at = "idle"
  /\ \E t \in live :
       call' = [call EXCEPT ![c] = [@ EXCEPT !.at = "rotate", !.token = {t},
                                             !.since = call[t].since \cap {"revocation"}]]
  /\ UNCHANGED <<now, staff, live, inARow, skew>>

Rotate(c) ==
  /\ call[c].at = "rotate"
  /\ live' = live \ call[c].token
  /\ call' = [call EXCEPT ![c].at = "issue", ![c].token = {}]
  /\ UNCHANGED <<now, staff, inARow, skew>>

(* _issue_tokens, after a success or a rotation.                           *)
IssueTokens(c) ==
  /\ call[c].at = "issue"
  /\ live' = live \cup {c}
  /\ call' = [call EXCEPT ![c].at = "done"]
  /\ UNCHANGED <<now, staff, inARow, skew>>

(* revoke: a logout.                                                       *)
Revoke ==
  /\ \E t \in live : live' = live \ {t}
  /\ UNCHANGED <<now, staff, call, inARow, skew>>

(* An error between two commits; what was committed stays.                 *)
Break(c) ==
  /\ MayBreak
  /\ UnderWay(c)
  /\ call' = [call EXCEPT ![c].at = IF @ = "revokeAll" THEN "unrevoked" ELSE "done",
                          ![c].row = Fresh, ![c].token = {}]
  /\ UNCHANGED <<now, staff, live, inARow, skew>>

(* NFR-SEC-04: the shop owner lifts a lock in the database.                *)
UnlockByHand ==
  /\ staff.lockedUntil # Never
  /\ staff' = [staff EXCEPT !.lockedUntil = Never]
  /\ UNCHANGED <<now, live, call, inARow, skew>>

Tick ==
  /\ now < MaxTime
  /\ now' = now + 1
  /\ UNCHANGED <<staff, live, call, inARow, skew>>

Next ==
  \/ \E c \in Call :
       \/ Begin(c) \/ Succeed(c) \/ Fail(c) \/ Lock(c) \/ RevokeAll(c)
       \/ FindToken(c) \/ Rotate(c) \/ IssueTokens(c) \/ Break(c)
  \/ Revoke
  \/ UnlockByHand
  \/ Tick

Spec == Init /\ [][Next]_vars

-----------------------------------------------------------------------------
(* Types; the count that is stored stays below the one that locks.         *)
TypeOK ==
  /\ now \in 0 .. MaxTime
  /\ staff \in Row
  /\ live \subseteq Call
  /\ call \in [Call -> [at : {"idle", "checked", "revokeAll", "rotate", "issue", "done",
                              "unrevoked"},
                        row : Row, token : SUBSET Call,
                        since : SUBSET {"failure", "reset", "lock", "revocation"}]]
  /\ inARow \in Nat
  /\ skew \subseteq {"failure", "reset"}

(* design.md 7.1: ten failures in a row.  A failure goes uncounted only    *)
(* because it overlapped with another, and the lock comes too early only   *)
(* if one that overlapped with a success or a lock has brought, or is      *)
(* about to bring, an earlier count back.                                  *)
FailuresAreCounted ==
  /\ "failure" \notin skew => staff.failed >= inARow
  /\ "reset" \notin skew => staff.failed =< inARow
  /\ \A c \in Call : call[c].at = "checked" /\ "reset" \notin call[c].since \cup skew =>
                      call[c].row.failed =< inARow

(* A lock in force lasts until it expires, unless the shop owner lifts it  *)
(* or a login writes that read the row before there was the lock.          *)
LockLasts ==
  [][InForce /\ staff'.lockedUntil # staff.lockedUntil =>
       \/ UNCHANGED call
       \/ \E c \in Call : "lock" \in call[c].since /\ call'[c].at # call[c].at]_vars

(* design.md 7.1: a lock ends the sessions.  Once the tokens are revoked,  *)
(* the only ones that work come from calls that were under way just then,  *)
(* or from renewals of such a token.                                       *)
LockEndsSessions ==
  InForce /\ (\A c \in Call : call[c].at \notin {"revokeAll", "unrevoked"}) =>
    \A t \in live : "revocation" \in call[t].since
=============================================================================
