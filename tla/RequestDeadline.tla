-------------------------- MODULE RequestDeadline --------------------------
(***************************************************************************)
(* One purchase on a database that stops responding for a while, and the   *)
(* two clocks that bound the wait: the driver's timeout on each statement  *)
(* of the backend and the BFF's timeout on the whole request.              *)
(*                                                                         *)
(* Time is counted in seconds.  A database that responds does so in no     *)
(* time; while it is stalled nothing completes.  A stall may begin and end *)
(* at any moment, MaxStalls times.  The numbers are constants: 3, 10 and   *)
(* 15 seconds in the code.  The names are this module's own, so that the    *)
(* proofs can extend it together with TransactionService.                  *)
(***************************************************************************)
EXTENDS Integers, Sequences

CONSTANTS ConnectTimeout,  \* connect_timeout
          ReadTimeout,     \* read_timeout and write_timeout
          BffTimeout,      \* BACKEND_TIMEOUT_MS
          MaxStalls        \* bound: stalls of the database during one request

ASSUME TimeoutAssumption ==
  /\ ConnectTimeout \in Nat \ {0}
  /\ ReadTimeout \in Nat \ {0}
  /\ BffTimeout \in Nat \ {0}
  /\ MaxStalls \in Nat

(* The statements of a purchase.  A pooled connection skips the first      *)
(* three; pool_pre_ping is off on purpose.                                 *)
Statements ==
  <<"tcp", "handshake", "init_command",
    "find key", "find products", "get member", "rate", "campaigns",
    "insert transaction", "insert lines", "commit">>

FirstOfPooled == 4

Last == Len(Statements)

\* mutant: reading and writing are timed one after the other
TimeoutOf_TwoSides(i) ==
  IF Statements[i] = "tcp" THEN ConnectTimeout ELSE 2 * ReadTimeout

TimeoutOf(i) == IF Statements[i] = "tcp" THEN ConnectTimeout ELSE ReadTimeout

VARIABLES stalled,   \* the database does not respond
          stalls,    \* how often it has stopped responding
          at,        \* the statement the backend is waiting for
          waited,    \* for how long, in seconds
          elapsed,   \* since the BFF sent the request, in seconds
          backend,   \* running, committed, failed, or inDoubt
          screen     \* waiting, completed, failed, or gaveUp (the BFF did)

deadlineVars == <<stalled, stalls, at, waited, elapsed, backend, screen>>

DeadlineInit ==
  /\ stalled = FALSE
  /\ stalls = 0
  /\ at \in {1, FirstOfPooled}
  /\ waited = 0
  /\ elapsed = 0
  /\ backend = "running"
  /\ screen = "waiting"

-----------------------------------------------------------------------------
Stall ==
  /\ ~stalled
  /\ stalls < MaxStalls
  /\ stalled' = TRUE
  /\ stalls' = stalls + 1
  /\ UNCHANGED <<at, waited, elapsed, backend, screen>>

Recover ==
  /\ stalled
  /\ stalled' = FALSE
  /\ UNCHANGED <<stalls, at, waited, elapsed, backend, screen>>

(* A statement completes; the last one is the COMMIT.                      *)
Complete ==
  /\ backend = "running"
  /\ ~stalled
  /\ IF at = Last
       THEN backend' = "committed" /\ UNCHANGED at
       ELSE at' = at + 1 /\ UNCHANGED backend
  /\ waited' = 0
  /\ UNCHANGED <<stalled, stalls, elapsed, screen>>

TimedOut == backend = "running" /\ stalled /\ waited = TimeoutOf(at)

\* mutant: pool_pre_ping, a check that is followed by a new connection
GiveUp_Reconnects ==
  /\ TimedOut
  /\ waited' = 0
  /\ IF at = FirstOfPooled
       THEN at' = 2 /\ UNCHANGED backend
       ELSE /\ backend' = IF at = Last THEN "inDoubt" ELSE "failed"
            /\ UNCHANGED at
  /\ UNCHANGED <<stalled, stalls, elapsed, screen>>

\* mutant: whatever was sent before the timeout is carried out in the end
GiveUp_Queued ==
  /\ TimedOut
  /\ backend' = IF at = Last THEN "inDoubt" ELSE "running"
  /\ at' = IF at = Last THEN at ELSE at + 1
  /\ waited' = 0
  /\ screen' = IF screen = "waiting" THEN "failed" ELSE screen
  /\ UNCHANGED <<stalled, stalls, elapsed>>

(* The driver's timeout: an exception, a rollback, a 500.  A COMMIT has    *)
(* been sent all the same: the database finds it when it recovers.         *)
GiveUp ==
  /\ TimedOut
  /\ backend' = IF at = Last THEN "inDoubt" ELSE "failed"
  /\ UNCHANGED <<stalled, stalls, at, waited, elapsed, screen>>

SettleCommit ==
  /\ backend = "inDoubt"
  /\ ~stalled
  /\ backend' \in {"committed", "failed"}
  /\ UNCHANGED <<stalled, stalls, at, waited, elapsed, screen>>

(* The backend answers while the BFF is still listening.                   *)
BackendAnswers ==
  /\ screen = "waiting"
  /\ backend # "running"
  /\ screen' = IF backend = "committed" THEN "completed" ELSE "failed"
  /\ UNCHANGED <<stalled, stalls, at, waited, elapsed, backend>>

(* The AbortController of callBackend.                                     *)
BffTimesOut ==
  /\ screen = "waiting"
  /\ elapsed = BffTimeout
  /\ screen' = "gaveUp"
  /\ UNCHANGED <<stalled, stalls, at, waited, elapsed, backend>>

(* A second passes: only when nothing can happen in no time.               *)
Tick ==
  /\ stalled
  /\ backend = "running"
  /\ waited < TimeoutOf(at)
  /\ (screen = "waiting") => (elapsed < BffTimeout)
  /\ waited' = waited + 1
  /\ elapsed' = IF screen = "waiting" THEN elapsed + 1 ELSE elapsed
  /\ UNCHANGED <<stalled, stalls, at, backend, screen>>

DeadlineNext ==
  \/ Stall \/ Recover \/ Complete \/ GiveUp \/ SettleCommit
  \/ BackendAnswers \/ BffTimesOut \/ Tick

DeadlineSpec == DeadlineInit /\ [][DeadlineNext]_deadlineVars

-----------------------------------------------------------------------------
(* design.md 6.2: "FastAPI always gives up before the BFF does".  The BFF  *)
(* never stops waiting for a backend that is still at work.                *)
GivesUpFirst == screen = "gaveUp" => backend # "running"

(* It does when the database stops once, whenever that begins and ends: no *)
(* two statements can then time out one after the other.                   *)
OneStallGivesUpFirst == stalls =< 1 => GivesUpFirst

(* However often it stops: a stop costs the waiting customer the timeout   *)
(* of one statement and no more, since the request ends with the first     *)
(* statement that times out and no other waits before the database is back. *)
LongestTimeout == IF ConnectTimeout > ReadTimeout THEN ConnectTimeout ELSE ReadTimeout

WaitPerStall == elapsed =< stalls * LongestTimeout

(* design.md 6.2 and IT-34 deny that a sale can come to exist after the    *)
(* screen was told of a failure.  It can, in two ways and no others: its   *)
(* COMMIT got no answer and was carried out after all, or the BFF gave up  *)
(* on a backend that was still at work, which takes stops that add up to   *)
(* its timeout.  No other statement that timed out is ever carried on with. *)
LateSalesAreExplained ==
  [][/\ screen \in {"failed", "gaveUp"}
     /\ backend # "committed"
     /\ backend' = "committed"
     => \/ backend = "inDoubt"
        \/ screen = "gaveUp" /\ stalls * LongestTimeout >= BffTimeout]_deadlineVars
=============================================================================
