--------------------------- MODULE CameraProofs ---------------------------
(***************************************************************************)
(* What the camera promises, for any number of visits: the screen tells    *)
(* the truth about it unless ZXing gave up, and a visit that is over holds *)
(* no camera but in the middle of a start.                                 *)
(*                                                                         *)
(* The inductive invariant says what each point of a start means for the   *)
(* stream and the loop, and that only the mounted visit can be running.    *)
(***************************************************************************)
EXTENDS Camera, TLAPS

Stage == {"absent", "formats", "permission", "playing", "modules", "opening", "opened",
          "running", "over", "rejected", "playRejected"}

(* A loop goes on with a live camera; ZXing's may have ended.              *)
Reads(v) ==
  \/ stream[v] = "live" /\ loop[v] \in {"detecting", "timer", "zxing"}
  \/ stream[v] = "stopped" /\ loop[v] = "ended"

VisitOK(v) ==
  /\ at[v] \in {"absent", "formats", "permission", "modules", "opening", "rejected"} =>
       stream[v] = "none" /\ loop[v] = "off"
  /\ at[v] \in {"playing", "playRejected"} => stream[v] = "live" /\ loop[v] = "off"
  /\ at[v] = "opened" => Reads(v) /\ loop[v] \in {"zxing", "ended"}
  /\ at[v] = "running" => v = mounted /\ Reads(v)
  /\ at[v] = "over" => stream[v] = "stopped" /\ loop[v] \in {"off", "detecting"}
  /\ at[v] = "absent" <=> v > visits

IInv ==
  /\ visits \in 0 .. MaxVisits
  /\ mounted \in {Nobody, visits}
  /\ at \in [Visit -> Stage]
  /\ stream \in [Visit -> {"none", "live", "stopped"}]
  /\ loop \in [Visit -> {"off", "detecting", "timer", "zxing", "ended"}]
  /\ \A v \in Visit : VisitOK(v)

USE VisitAssumption DEF Visit, Nobody

-----------------------------------------------------------------------------
LEMMA InitInv == Init => IInv
BY DEF Init, IInv, VisitOK, Reads, Stage

LEMMA InvImpliesTypeOK == IInv => TypeOK
<1> SUFFICES ASSUME IInv PROVE TypeOK
  OBVIOUS
<1>1. \A v \in Visit : /\ loop[v] # "off" => stream[v] # "none"
                       /\ loop[v] \in {"timer", "zxing"} => stream[v] = "live"
                       /\ loop[v] = "ended" => stream[v] = "stopped"
                       /\ at[v] = "absent" <=> v > visits
  BY DEF IInv, VisitOK, Reads, Stage
<1>2. QED
  BY <1>1 DEF IInv, TypeOK, Stage

LEMMA InvImpliesScans == IInv => ScansWhenItSaysSo
BY DEF IInv, VisitOK, Reads, ScansWhenItSaysSo

(* The steps of the page: a visit begins or ends.                          *)
LEMMA PageSteps ==
  ASSUME IInv, Mount \/ Unmount
  PROVE  IInv'
<1>1. CASE Mount
  BY <1>1 DEF IInv, VisitOK, Reads, Stage, Mount
<1>2. CASE Unmount
  <2>1. CASE at[mounted] = "running"
    <3>1. mounted \in Visit
      BY <1>2 DEF IInv, Unmount
    <3>2. /\ at' = [at EXCEPT ![mounted] = "over"]
          /\ stream' = [stream EXCEPT ![mounted] = "stopped"]
          /\ loop' = [loop EXCEPT ![mounted] =
                                     IF loop[mounted] = "detecting" THEN "detecting" ELSE "off"]
          /\ UNCHANGED visits /\ mounted' = 0
      BY <1>2, <2>1, <3>1 DEF IInv, Unmount, Go, Stop
    <3>3. \A u \in Visit : u = mounted => VisitOK(u)'
      BY <2>1, <3>1, <3>2 DEF IInv, VisitOK, Reads
    <3>4. \A u \in Visit \ {mounted} : VisitOK(u)'
      BY <3>1, <3>2 DEF IInv, VisitOK, Reads
    <3>5. QED
      BY <3>1, <3>2, <3>3, <3>4 DEF IInv, Stage
  <2>2. CASE at[mounted] # "running"
    BY <1>2, <2>2 DEF IInv, VisitOK, Reads, Stage, Unmount, Go, Reject
  <2>3. QED
    BY <2>1, <2>2
<1>3. QED
  BY <1>1, <1>2

(* The steps of a start.                                                   *)
LEMMA StartSteps ==
  ASSUME IInv, NEW v \in Visit,
         \/ AskFormats(v) \/ Permission(v) \/ Play(v)
         \/ LoadModules(v) \/ Open(v) \/ Opened(v)
  PROVE  IInv'
<1>1. CASE AskFormats(v)
  <2>1. VisitOK(v)'
    BY <1>1 DEF IInv, VisitOK, Reads, AskFormats, Go
  <2>2. \A u \in Visit \ {v} : VisitOK(u)'
    BY <1>1 DEF IInv, VisitOK, Reads, AskFormats, Go
  <2>3. QED
    BY <1>1, <2>1, <2>2 DEF IInv, Stage, AskFormats, Go
<1>2. CASE Permission(v)
  <2>1. VisitOK(v)'
    BY <1>2 DEF IInv, VisitOK, Reads, Permission, Go, Reject
  <2>2. \A u \in Visit \ {v} : VisitOK(u)'
    BY <1>2 DEF IInv, VisitOK, Reads, Permission, Go, Reject
  <2>3. QED
    BY <1>2, <2>1, <2>2 DEF IInv, Stage, Permission, Go, Reject
<1>3. CASE Play(v)
  <2>1. VisitOK(v)'
    BY <1>3 DEF IInv, VisitOK, Reads, Play, Started, Go, Reject
  <2>2. \A u \in Visit \ {v} : VisitOK(u)'
    BY <1>3 DEF IInv, VisitOK, Reads, Play, Started, Go, Reject
  <2>3. QED
    BY <1>3, <2>1, <2>2 DEF IInv, Stage, Play, Started, Go, Reject
<1>4. CASE LoadModules(v)
  <2>1. VisitOK(v)'
    BY <1>4 DEF IInv, VisitOK, Reads, LoadModules, Go
  <2>2. \A u \in Visit \ {v} : VisitOK(u)'
    BY <1>4 DEF IInv, VisitOK, Reads, LoadModules, Go
  <2>3. QED
    BY <1>4, <2>1, <2>2 DEF IInv, Stage, LoadModules, Go
<1>5. CASE Open(v)
  <2>1. VisitOK(v)'
    BY <1>5 DEF IInv, VisitOK, Reads, Open, Go, Reject
  <2>2. \A u \in Visit \ {v} : VisitOK(u)'
    BY <1>5 DEF IInv, VisitOK, Reads, Open, Go, Reject
  <2>3. QED
    BY <1>5, <2>1, <2>2 DEF IInv, Stage, Open, Go, Reject
<1>6. CASE Opened(v)
  <2>1. VisitOK(v)'
    <3>1. CASE mounted = v
      BY <1>6, <3>1 DEF IInv, VisitOK, Reads, Opened, Started, Go
    <3>2. CASE mounted # v
      BY <1>6, <3>2 DEF IInv, VisitOK, Reads, Opened, Started, Go
    <3>3. QED
      BY <3>1, <3>2
  <2>2. \A u \in Visit \ {v} : VisitOK(u)'
    BY <1>6 DEF IInv, VisitOK, Reads, Opened, Started, Go
  <2>3. QED
    BY <1>6, <2>1, <2>2 DEF IInv, Stage, Opened, Started, Go
<1>7. QED
  BY <1>1, <1>2, <1>3, <1>4, <1>5, <1>6

(* The steps of a reading loop.                                            *)
LEMMA LoopSteps ==
  ASSUME IInv, NEW v \in Visit, ZxingEnds(v) \/ Detected(v) \/ TimerRings(v)
  PROVE  IInv'
<1>1. CASE ZxingEnds(v)
  <2>1. at[v] \in {"opened", "running"} /\ (at[v] = "running" => v = mounted)
    BY <1>1 DEF IInv, VisitOK, Reads, Stage, ZxingEnds
  <2>2. VisitOK(v)'
    BY <1>1, <2>1 DEF IInv, VisitOK, Reads, ZxingEnds
  <2>3. \A u \in Visit \ {v} : VisitOK(u)'
    BY <1>1 DEF IInv, VisitOK, Reads, ZxingEnds
  <2>4. QED
    BY <1>1, <2>2, <2>3 DEF IInv, ZxingEnds
<1>2. CASE Detected(v)
  <2>1. at[v] \in {"running", "over"} /\ (at[v] = "running" => v = mounted)
    BY <1>2 DEF IInv, VisitOK, Reads, Stage, Detected
  <2>2. VisitOK(v)'
    BY <1>2, <2>1 DEF IInv, VisitOK, Reads, Detected
  <2>3. \A u \in Visit \ {v} : VisitOK(u)'
    BY <1>2 DEF IInv, VisitOK, Reads, Detected
  <2>4. QED
    BY <1>2, <2>2, <2>3 DEF IInv, Detected
<1>3. CASE TimerRings(v)
  <2>1. at[v] = "running"
    BY <1>3 DEF IInv, VisitOK, Reads, Stage, TimerRings
  <2>2. VisitOK(v)'
    BY <1>3, <2>1 DEF IInv, VisitOK, Reads, TimerRings
  <2>3. \A u \in Visit \ {v} : VisitOK(u)'
    BY <1>3 DEF IInv, VisitOK, Reads, TimerRings
  <2>4. QED
    BY <1>3, <2>2, <2>3 DEF IInv, TimerRings
<1>4. QED
  BY <1>1, <1>2, <1>3

LEMMA NextInv == IInv /\ [Next]_vars => IInv'
<1> SUFFICES ASSUME IInv, [Next]_vars PROVE IInv'
  OBVIOUS
<1>1. CASE UNCHANGED vars
  BY <1>1 DEF vars, IInv, VisitOK, Reads
<1>2. CASE Next
  BY <1>2, PageSteps, StartSteps, LoopSteps DEF Next
<1>3. QED
  BY <1>1, <1>2

LEMMA InvHolds == Spec => []IInv
BY InitInv, NextInv, PTL DEF Spec

-----------------------------------------------------------------------------
(* Type correctness; no reading is planned for a camera that was stopped.  *)
THEOREM CameraTypes == Spec => []TypeOK
BY InvHolds, InvImpliesTypeOK, PTL

(* 「スキャン中」 is true at any moment of any visit, except where ZXing ended its *)
(* loop by itself.                                                         *)
THEOREM ScreenTellsTheTruth == Spec => []ScansWhenItSaysSo
BY InvHolds, InvImpliesScans, PTL

(* No visit leaves a camera on but in the middle of a start, or after a    *)
(* play() that was rejected.                                               *)
THEOREM FewHoldTheCamera == Spec => []OnlyStartsHoldCamera
<1>1. IInv => OnlyStartsHoldCamera
  BY DEF IInv, VisitOK, Reads, Stage, OnlyStartsHoldCamera
<1>2. QED
  BY <1>1, InvHolds, PTL
=============================================================================
