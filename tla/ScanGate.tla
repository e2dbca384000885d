------------------------------ MODULE ScanGate ------------------------------
(***************************************************************************)
(* The gate between the camera and the cart (lib/scanGate.ts): the scanner *)
(* reads the same barcodes five times a second, and the gate lets a code   *)
(* through when it is put in front of the camera, once, until it has been  *)
(* taken away and brought back.                                            *)
(*                                                                         *)
(* The gate keeps a little state for each code and forgets a code it has   *)
(* not seen for a while.  What it is meant to achieve is about the past it *)
(* does not keep, so the module also records, for each code, when it was   *)
(* last in view and for how long it has been the one in the centre.        *)
(***************************************************************************)
EXTENDS Integers, FiniteSets

CONSTANTS Code,           \* the barcodes there are
          NoCode,         \* null
          StableFrames,   \* STABLE_FRAMES: 3
          ReleaseMisses,  \* RELEASE_MISSES: 12
          ReleaseMs,      \* RELEASE_MS: 3000
          ForgetMisses,   \* FORGET_MISSES: 30
          FrameMs,        \* the least time between two frames: 200
          PauseMs,        \* bound: the most time between two frames
          LastMs          \* bound: when the observation ends

ASSUME CodeAssumption == NoCode \notin Code

ASSUME GateAssumption ==
  /\ StableFrames \in Nat \ {0}
  /\ ReleaseMisses \in Nat \ {0}
  /\ ReleaseMs \in Nat
  /\ ForgetMisses \in Nat \ {0}
  /\ FrameMs \in Nat
  /\ PauseMs \in Nat
  /\ LastMs \in Nat

(* A code is only forgotten after it was away long enough to be released:  *)
(* 30 frames of 200 ms are 6 s.                                            *)
ASSUME ForgetAssumption ==
  /\ ForgetMisses * FrameMs >= ReleaseMs
  /\ ForgetMisses >= ReleaseMisses

VARIABLES now,          \* the time of the last frame, in ms
          states,       \* the gate's state of each code it remembers
          accepted,     \* the code this frame let through, or NoCode
          seenAt,       \* the time of the last frame with the code in view
          missed,       \* the frames since then
          centred,      \* for how many frames the code has been the picked one
          away,         \* it was away for ReleaseMs since it was let through
          owed          \* it was taken away for as long as the gate asks for

vars == <<now, states, accepted, seenAt, missed, centred, away, owed>>

CodeState == [lastSeenAt : 0 .. LastMs, misses : Nat, released : BOOLEAN,
              everAccepted : BOOLEAN, stableFrames : Nat]

Unknown == [lastSeenAt |-> 0, misses |-> 0, released |-> FALSE,
            everAccepted |-> FALSE, stableFrames |-> 0]

Init ==
  /\ now = 0
  /\ states = [c \in {} |-> Unknown]
  /\ accepted = NoCode
  /\ seenAt = [c \in Code |-> 0]
  /\ missed = [c \in Code |-> 0]
  /\ centred = [c \in Code |-> 0]
  /\ away = [c \in Code |-> TRUE]
  /\ owed = [c \in Code |-> TRUE]

-----------------------------------------------------------------------------
(* What states.get(code) gives, the absent fields by their defaults.       *)
StateOf(c) == IF c \in DOMAIN states THEN states[c] ELSE Unknown

\* mutant: time alone, or a number of frames alone, releases a code
Released_Either(s, misses, t) ==
  s.released \/ misses >= ReleaseMisses \/ t - s.lastSeenAt >= ReleaseMs

Released(s, misses, t) ==
  s.released \/ (misses >= ReleaseMisses /\ t - s.lastSeenAt >= ReleaseMs)

Missed(c, t) ==
  [states[c] EXCEPT !.misses = @ + 1,
                    !.released = Released(states[c], states[c].misses + 1, t),
                    !.stableFrames = 0]

\* mutant: only the codes that leave the view lose their stable frames
Seen_KeepsStable(c, picked, t) ==
  [StateOf(c) EXCEPT !.lastSeenAt = t, !.misses = 0,
                     !.stableFrames = IF c = picked THEN @ + 1 ELSE @]

\* mutant: being in view again also takes the release back
Seen_NotReleased(c, picked, t) ==
  [StateOf(c) EXCEPT !.lastSeenAt = t, !.misses = 0, !.released = FALSE,
                     !.stableFrames = IF c = picked THEN @ + 1 ELSE 0]

Seen(c, picked, t) ==
  [StateOf(c) EXCEPT !.lastSeenAt = t, !.misses = 0,
                     !.stableFrames = IF c = picked THEN @ + 1 ELSE 0]

\* mutant: a code is kept for one frame too many
Remembered_OneMore(detected) ==
  detected \cup {c \in DOMAIN states : states[c].misses < ForgetMisses}

(* Every code in view is kept; of the others, those not yet to be forgotten. *)
Remembered(detected) ==
  detected \cup {c \in DOMAIN states : states[c].misses + 1 < ForgetMisses}

Accepts(picked, t) ==
  /\ picked # NoCode
  /\ Seen(picked, picked, t).stableFrames >= StableFrames
  /\ ~StateOf(picked).everAccepted \/ StateOf(picked).released

NextScanState(detected, picked, t) ==
  [c \in Remembered(detected) |->
     IF c \notin detected THEN Missed(c, t)
     ELSE IF c = picked /\ Accepts(picked, t)
       THEN [Seen(c, picked, t) EXCEPT !.released = FALSE, !.everAccepted = TRUE]
     ELSE Seen(c, picked, t)]

(* pickCenterMost: null when nothing is in view.  The boxes decide among   *)
(* the codes that are: it may be any of them.                              *)
MayBePicked(detected) == IF detected = {} THEN {NoCode} ELSE detected

-----------------------------------------------------------------------------
(* What the gate does not know: how often and how long each code has really *)
(* been out of view.                                                        *)
Observe(detected, picked, t) ==
  /\ seenAt' = [c \in Code |-> IF c \in detected THEN t ELSE seenAt[c]]
  /\ missed' = [c \in Code |-> IF c \in detected THEN 0 ELSE missed[c] + 1]
  /\ centred' = [c \in Code |-> IF c = picked THEN centred[c] + 1 ELSE 0]
  /\ away' = [c \in Code |->
       c # accepted' /\ (away[c] \/ t - seenAt[c] >= ReleaseMs)]
  /\ owed' = [c \in Code |->
       /\ c # accepted'
       /\ \/ owed[c]
          \/ /\ c \notin detected
             /\ missed'[c] >= ReleaseMisses
             /\ t - seenAt[c] >= ReleaseMs]

(* handleFrame: one frame read.  A frame that could not be read is none: it *)
(* only makes the next one later, as does a camera that is started anew.    *)
Frame(detected, picked, t) ==
  /\ now' = t
  /\ states' = NextScanState(detected, picked, t)
  /\ accepted' = IF Accepts(picked, t) THEN picked ELSE NoCode
  /\ Observe(detected, picked, t)

Next ==
  \E t \in (now + FrameMs) .. (now + PauseMs), detected \in SUBSET Code :
    /\ t =< LastMs
    /\ \E picked \in MayBePicked(detected) : Frame(detected, picked, t)

Spec == Init /\ [][Next]_vars

-----------------------------------------------------------------------------
(* The gate's record of a code is never out of step with what was really in *)
(* view, and a code it has forgotten was out of view for ForgetMisses frames. *)
TypeOK ==
  /\ now \in 0 .. LastMs
  /\ DOMAIN states \subseteq Code
  /\ states \in [DOMAIN states -> CodeState]
  /\ accepted \in Code \cup {NoCode}
  /\ \A c \in DOMAIN states : /\ states[c].lastSeenAt = seenAt[c]
                              /\ states[c].misses = missed[c]
                              /\ states[c].misses < ForgetMisses

(* One visit, one item: between two times a code is let through it was out *)
(* of view for ReleaseMs without a break, although the gate may have       *)
(* forgotten in between that it ever let it through.                       *)
AcceptedOncePerVisit ==
  [][\A c \in Code :
       accepted' = c => away[c] \/ now' - seenAt[c] >= ReleaseMs]_vars

(* No item is missed: a code that was never let through, or that has been  *)
(* away for RELEASE_MISSES frames and ReleaseMs, is let through as soon as *)
(* it has been in the centre for StableFrames frames.                      *)
BroughtBackIsAccepted == \A c \in Code : owed[c] => centred[c] < StableFrames

(* A neighbour on the menu card is not taken for a moment's wobble: a code *)
(* is let through only after StableFrames frames in the centre in a row.   *)
OnlyCentredAccepted == accepted # NoCode => centred[accepted] >= StableFrames
=============================================================================
