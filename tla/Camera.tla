------------------------------ MODULE Camera ------------------------------
(***************************************************************************)
(* The camera of the register screen over several visits to that screen:   *)
(* how BarcodeScanner starts one of its two engines, reads frames, and     *)
(* gives the camera back, when the screen may be left at any moment of a   *)
(* start that waits for the browser four times.                            *)
(*                                                                         *)
(* Each visit is a mounted component with variables of its own.  The       *)
(* status, which the component shows, follows from how far the start got.  *)
(* A frame changes nothing here: it goes to the scan gate (ScanGate), and  *)
(* the guard at the head of handleFrame drops those of a visit that ended. *)
(***************************************************************************)
EXTENDS Integers

CONSTANT MaxVisits      \* bound: visits to the register screen

ASSUME VisitAssumption == MaxVisits \in Nat \ {0}

Visit == 1 .. MaxVisits

Nobody == 0

VARIABLES mounted,      \* the visit under way: ~cancelled
          visits,       \* how many there were
          at,           \* how far the start of a visit got
          stream,       \* the camera stream a visit holds; "stopped" by stop()
          loop          \* its reading loop; "ended" by ZXing on its own

vars == <<mounted, visits, at, stream, loop>>

Init ==
  /\ mounted = Nobody
  /\ visits = 0
  /\ at = [v \in Visit |-> "absent"]
  /\ stream = [v \in Visit |-> "none"]
  /\ loop = [v \in Visit |-> "off"]

-----------------------------------------------------------------------------
(* The effect runs: start().                                               *)
Mount ==
  /\ mounted = Nobody
  /\ visits < MaxVisits
  /\ visits' = visits + 1
  /\ mounted' = visits'
  /\ at' = [at EXCEPT ![visits'] = "formats"]
  /\ UNCHANGED <<stream, loop>>

Go(v, label) == at' = [at EXCEPT ![v] = label]

(* The start is rejected; the camera is left as it is.                     *)
Reject(v, label) == Go(v, label) /\ UNCHANGED <<stream, loop>>

\* mutant: clearTimeout is missing
Stop_KeepsTimer(v) ==
  /\ stream' = [stream EXCEPT ![v] = "stopped"]
  /\ loop' = [loop EXCEPT ![v] = IF @ = "zxing" THEN "off" ELSE @]

(* stop(): a frame that is being read is still answered.                   *)
Stop(v) ==
  /\ stream' = [stream EXCEPT ![v] = "stopped"]
  /\ loop' = [loop EXCEPT ![v] = IF @ = "detecting" THEN @ ELSE "off"]

(* The cleanup.  The video leaves the page, so that the browser rejects a  *)
(* play() that is not done.                                                *)
Unmount ==
  /\ mounted # Nobody
  /\ mounted' = Nobody
  /\ IF at[mounted] = "running"
       THEN Go(mounted, "over") /\ Stop(mounted)
       ELSE Reject(mounted, IF at[mounted] = "playing" THEN "playRejected" ELSE at[mounted])
  /\ UNCHANGED visits

\* mutant: the visit is not asked after when the start is over
Started_NotAsked(v) == Go(v, "running") /\ UNCHANGED stream

(* start() is resolved, with a loop under way.                             *)
Started(v) ==
  IF mounted = v
    THEN Go(v, "running") /\ UNCHANGED stream
    ELSE Go(v, "over") /\ stream' = [stream EXCEPT ![v] = "stopped"]

(* supportsNativeCode128.                                                  *)
AskFormats(v) ==
  /\ at[v] = "formats"
  /\ \E label \in {"permission", "modules", "rejected"} : Go(v, label)
  /\ UNCHANGED <<mounted, visits, stream, loop>>

(* startNativeScanner: getUserMedia, then play().                          *)
Permission(v) ==
  /\ at[v] = "permission"
  /\ \/ /\ Go(v, "playing")
        /\ stream' = [stream EXCEPT ![v] = "live"]
        /\ UNCHANGED loop
     \/ Reject(v, "rejected")
  /\ UNCHANGED <<mounted, visits>>

Play(v) ==
  /\ at[v] = "playing"
  /\ \/ Started(v) /\ loop' = [loop EXCEPT ![v] = "detecting"]
     \/ Reject(v, "playRejected")
  /\ UNCHANGED <<mounted, visits>>

(* startZxingScanner: the modules, then decodeFromConstraints, which       *)
(* closes the camera again when it fails, and whose loop runs before it is *)
(* resolved: it may even have ended by then.                               *)
LoadModules(v) ==
  /\ at[v] = "modules"
  /\ \E label \in {"opening", "rejected"} : Go(v, label)
  /\ UNCHANGED <<mounted, visits, stream, loop>>

Open(v) ==
  /\ at[v] = "opening"
  /\ \/ /\ Go(v, "opened")
        /\ stream' = [stream EXCEPT ![v] = "live"]
        /\ loop' = [loop EXCEPT ![v] = "zxing"]
     \/ Reject(v, "rejected")
  /\ UNCHANGED <<mounted, visits>>

Opened(v) ==
  /\ at[v] = "opened"
  /\ Started(v)
  /\ loop' = [loop EXCEPT ![v] = IF mounted = v THEN @ ELSE "off"]
  /\ UNCHANGED <<mounted, visits>>

-----------------------------------------------------------------------------
(* The decode loop of ZXing goes on after a frame without a code; any other *)
(* exception ends it and closes the camera, which the component is not     *)
(* told in a way it looks at.                                              *)
ZxingEnds(v) ==
  /\ loop[v] = "zxing"
  /\ loop' = [loop EXCEPT ![v] = "ended"]
  /\ stream' = [stream EXCEPT ![v] = "stopped"]
  /\ UNCHANGED <<mounted, visits, at>>

\* mutant: the loop ends when a frame cannot be read
Detected_EndsOnError(v) ==
  /\ loop[v] = "detecting"
  /\ IF stream[v] = "stopped"
       THEN loop' = [loop EXCEPT ![v] = "off"]
       ELSE \E l \in {"timer", "off"} : loop' = [loop EXCEPT ![v] = l]
  /\ UNCHANGED <<mounted, visits, at, stream>>

(* The rest of tick: a frame, or an error that is swallowed.               *)
Detected(v) ==
  /\ loop[v] = "detecting"
  /\ loop' = [loop EXCEPT ![v] = IF stream[v] = "stopped" THEN "off" ELSE "timer"]
  /\ UNCHANGED <<mounted, visits, at, stream>>

TimerRings(v) ==
  /\ loop[v] = "timer"
  /\ loop' = [loop EXCEPT ![v] = "detecting"]
  /\ UNCHANGED <<mounted, visits, at, stream>>

Next ==
  \/ Mount \/ Unmount
  \/ \E v \in Visit :
       \/ AskFormats(v) \/ Permission(v) \/ Play(v) \/ LoadModules(v) \/ Open(v) \/ Opened(v)
       \/ ZxingEnds(v) \/ Detected(v) \/ TimerRings(v)

Spec == Init /\ [][Next]_vars

(* What holds a camera is answered: play() and decodeFromConstraints.      *)
FairSpec == Spec /\ \A v \in Visit : WF_vars(Play(v)) /\ WF_vars(Opened(v))

-----------------------------------------------------------------------------
(* Types; a loop runs only on a camera, and only as long as stop() allows. *)
TypeOK ==
  /\ visits \in 0 .. MaxVisits
  /\ mounted \in {Nobody, visits}
  /\ at \in [Visit -> {"absent", "formats", "permission", "playing", "modules", "opening",
                       "opened", "running", "over", "rejected", "playRejected"}]
  /\ stream \in [Visit -> {"none", "live", "stopped"}]
  /\ loop \in [Visit -> {"off", "detecting", "timer", "zxing", "ended"}]
  /\ \A v \in Visit : /\ loop[v] # "off" => stream[v] # "none"
                      /\ loop[v] \in {"timer", "zxing"} => stream[v] = "live"
                      /\ loop[v] = "ended" => stream[v] = "stopped"
                      /\ at[v] = "absent" <=> v > visits

(* 「スキャン中」: while the screen says so, the camera is on and frames are read  *)
(* (for the native reader whatever the frames before made of it), or ZXing *)
(* ended its loop on an exception of its own, which the screen never shows *)
(* (BarcodeScanner.tsx:109).  Nothing else makes it untrue: no stop, no    *)
(* cleanup of another visit, and no start that was left half done.         *)
ScansWhenItSaysSo ==
  mounted # Nobody /\ at[mounted] = "running" =>
    \/ stream[mounted] = "live" /\ loop[mounted] \in {"detecting", "timer", "zxing"}
    \/ loop[mounted] = "ended"

(* A camera that is on although its visit is over is one whose start is    *)
(* still under way, or whose play() was rejected: leaving the screen stops *)
(* every other, and so does the end of a start that comes too late.        *)
OnlyStartsHoldCamera ==
  \A v \in Visit : v # mounted /\ stream[v] = "live" =>
                     at[v] \in {"playing", "opened", "playRejected"}

(* Leaving the screen ends the recording, at whatever point of the start   *)
(* (BarcodeScanner.tsx:228), unless play() is rejected: nothing stops the  *)
(* camera then.                                                            *)
CameraIsReleased ==
  \A v \in Visit : v # mounted /\ stream[v] = "live" ~>
                     stream[v] = "stopped" \/ at[v] = "playRejected"
=============================================================================
