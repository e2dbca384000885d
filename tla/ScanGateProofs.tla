--------------------------- MODULE ScanGateProofs ---------------------------
(***************************************************************************)
(* The scan gate keeps its promises for every value of its constants.      *)
(*                                                                         *)
(* The inductive invariant ties, code by code, what the gate remembers to  *)
(* what really was in view: it owes a code exactly when it never let it    *)
(* through or holds it released, and a code it has forgotten is owed       *)
(* because ForgetMisses frames take at least ReleaseMs.                    *)
(***************************************************************************)
EXTENDS ScanGate, TLAPS

PastOK(c) ==
  /\ seenAt[c] \in 0 .. now
  /\ missed[c] \in Nat
  /\ missed[c] * FrameMs =< now - seenAt[c]
  /\ centred[c] \in Nat
  /\ away[c] \in BOOLEAN
  /\ owed[c] \in BOOLEAN
  /\ owed[c] => away[c]
  /\ owed[c] => centred[c] < StableFrames

Remembers(c) ==
  /\ states[c] \in CodeState
  /\ states[c].lastSeenAt = seenAt[c]
  /\ states[c].misses = missed[c]
  /\ states[c].misses < ForgetMisses
  /\ states[c].stableFrames = centred[c]
  /\ owed[c] <=> (~states[c].everAccepted \/ states[c].released)

Forgotten(c) == owed[c] /\ centred[c] = 0

CodeOK(c) ==
  /\ PastOK(c)
  /\ IF c \in DOMAIN states THEN Remembers(c) ELSE Forgotten(c)

IInv ==
  /\ now \in 0 .. LastMs
  /\ DOMAIN states \subseteq Code
  /\ states = [c \in DOMAIN states |-> states[c]]
  /\ accepted \in Code \cup {NoCode}
  /\ accepted # NoCode => centred[accepted] >= StableFrames
  /\ seenAt \in [Code -> Int] /\ missed \in [Code -> Int] /\ centred \in [Code -> Int]
  /\ \A c \in Code : CodeOK(c)

USE GateAssumption, ForgetAssumption, CodeAssumption

-----------------------------------------------------------------------------
LEMMA InitInv == Init => IInv
BY DEF Init, IInv, CodeOK, PastOK, Forgotten

(* The product that bounds an absence from below grows with each frame.    *)
LEMMA OneFrameMore ==
  ASSUME NEW m \in Nat, NEW f \in Nat
  PROVE  (m + 1) * f = m * f + f
OBVIOUS

(* What is owed is what may be accepted.                                   *)
LEMMA OwedMayBeAccepted ==
  ASSUME IInv, NEW c \in Code, NEW t \in Int
  PROVE  /\ StateOf(c) \in CodeState
         /\ StateOf(c).stableFrames = centred[c]
         /\ owed[c] <=> (~StateOf(c).everAccepted \/ StateOf(c).released)
         /\ Accepts(c, t) <=> (owed[c] /\ centred[c] + 1 >= StableFrames)
<1>1. CodeOK(c)
  BY DEF IInv
<1>2. Unknown \in CodeState
  BY DEF IInv, Unknown, CodeState
<1>3. /\ StateOf(c) \in CodeState
      /\ StateOf(c).stableFrames = centred[c]
      /\ owed[c] <=> (~StateOf(c).everAccepted \/ StateOf(c).released)
  <2>1. CASE c \in DOMAIN states
    BY <1>1, <2>1 DEF StateOf, CodeOK, Remembers, PastOK
  <2>2. CASE c \notin DOMAIN states
    BY <1>1, <1>2, <2>2 DEF StateOf, CodeOK, Forgotten, Unknown, PastOK
  <2>3. QED
    BY <2>1, <2>2
<1>4. Seen(c, c, t).stableFrames = centred[c] + 1
  BY <1>3 DEF Seen, CodeState
<1>5. QED
  BY <1>3, <1>4 DEF Accepts

(* A frame read by the camera, with its facts at hand.                     *)
FrameFacts(detected, picked, t) ==
  /\ t \in (now + FrameMs) .. (now + PauseMs)
  /\ t =< LastMs
  /\ detected \subseteq Code
  /\ picked \in MayBePicked(detected)
  /\ Frame(detected, picked, t)

LEMMA PickedInView ==
  ASSUME NEW detected \in SUBSET Code, NEW picked \in MayBePicked(detected)
  PROVE  picked = NoCode \/ picked \in detected
BY DEF MayBePicked

(* What is recorded of the past of one code stays true.                    *)
LEMMA PastStep ==
  ASSUME IInv, NEW detected, NEW picked, NEW t,
         FrameFacts(detected, picked, t), NEW c \in Code
  PROVE  PastOK(c)'
<1>1. CodeOK(c) /\ PastOK(c)
  BY DEF IInv, CodeOK
<1>2. t \in Int /\ t >= now + FrameMs /\ now' = t /\ now \in Int
  BY DEF FrameFacts, Frame, IInv
<1>3. Observe(detected, picked, t)
  BY DEF FrameFacts, Frame
<1>4. /\ seenAt'[c] \in 0 .. now'
      /\ missed'[c] \in Nat
      /\ missed'[c] * FrameMs =< now' - seenAt'[c]
  <2>1. CASE c \in detected
    BY <1>1, <1>2, <1>3, <2>1 DEF Observe, PastOK, IInv
  <2>2. CASE c \notin detected
    <3>1. seenAt'[c] = seenAt[c] /\ missed'[c] = missed[c] + 1
      BY <1>3, <2>2 DEF Observe
    <3>2. (missed[c] + 1) * FrameMs = missed[c] * FrameMs + FrameMs
      BY <1>1, OneFrameMore DEF PastOK
    <3>3. missed[c] * FrameMs \in Int
      BY <1>1 DEF PastOK
    <3>4. QED
      BY <1>1, <1>2, <3>1, <3>2, <3>3 DEF PastOK, IInv
  <2>3. QED
    BY <2>1, <2>2
<1>5. centred'[c] = IF c = picked THEN centred[c] + 1 ELSE 0
  BY <1>3 DEF Observe
<1>6. /\ away'[c] = (c # accepted' /\ (away[c] \/ t - seenAt[c] >= ReleaseMs))
      /\ owed'[c] = (/\ c # accepted'
                     /\ \/ owed[c]
                        \/ /\ c \notin detected
                           /\ missed'[c] >= ReleaseMisses
                           /\ t - seenAt[c] >= ReleaseMs)
  BY <1>3 DEF Observe
<1>7. owed'[c] => away'[c]
  BY <1>1, <1>6 DEF PastOK
<1>8. owed'[c] => centred'[c] < StableFrames
  <2>1. CASE c # picked
    BY <1>5, <2>1
  <2>2. CASE c = picked
    <3>1. c \in detected
      BY <2>2, PickedInView, CodeAssumption DEF FrameFacts
    <3>2. c # accepted' => ~Accepts(c, t)
      BY <2>2 DEF FrameFacts, Frame
    <3>3. owed'[c] => owed[c] /\ ~Accepts(c, t)
      BY <1>6, <3>1, <3>2
    <3>4. Accepts(c, t) <=> (owed[c] /\ centred[c] + 1 >= StableFrames)
      BY <1>2, OwedMayBeAccepted
    <3>5. QED
      BY <1>1, <1>5, <2>2, <3>3, <3>4 DEF PastOK
  <2>3. QED
    BY <2>1, <2>2
<1>9. centred'[c] \in Nat /\ away'[c] \in BOOLEAN /\ owed'[c] \in BOOLEAN
  BY <1>1, <1>5, <1>6 DEF PastOK
<1>10. QED
  BY <1>4, <1>7, <1>8, <1>9 DEF PastOK

(* A code that is in view is remembered, and rightly.                      *)
LEMMA SeenStep ==
  ASSUME IInv, NEW detected, NEW picked, NEW t,
         FrameFacts(detected, picked, t), NEW c \in Code, c \in detected
  PROVE  c \in (DOMAIN states)' /\ Remembers(c)'
<1>1. /\ t \in 0 .. LastMs
      /\ Observe(detected, picked, t)
      /\ states' = NextScanState(detected, picked, t)
      /\ accepted' = IF Accepts(picked, t) THEN picked ELSE NoCode
  BY DEF FrameFacts, Frame, IInv
<1>2. c \in DOMAIN states'
  BY <1>1 DEF NextScanState, Remembered
<1>3. /\ seenAt'[c] = t
      /\ missed'[c] = 0
      /\ centred'[c] = IF c = picked THEN centred[c] + 1 ELSE 0
      /\ owed'[c] = (c # accepted' /\ owed[c])
  BY <1>1 DEF Observe
<1>4. PICK s : s = Seen(c, picked, t)
  OBVIOUS
<1>5. /\ StateOf(c) \in CodeState
      /\ StateOf(c).stableFrames = centred[c]
      /\ owed[c] <=> (~StateOf(c).everAccepted \/ StateOf(c).released)
      /\ Accepts(c, t) <=> (owed[c] /\ centred[c] + 1 >= StableFrames)
  BY <1>1, OwedMayBeAccepted
<1>6. /\ s \in CodeState
      /\ s.lastSeenAt = t
      /\ s.misses = 0
      /\ s.stableFrames = centred'[c]
      /\ s.released = StateOf(c).released
      /\ s.everAccepted = StateOf(c).everAccepted
  <2>1. PICK r : r = StateOf(c)
    OBVIOUS
  <2>2. r \in CodeState /\ r.stableFrames = centred[c] /\ centred[c] \in Nat
    BY <1>5, <2>1 DEF IInv, CodeOK, PastOK
  <2>3. s = [lastSeenAt |-> t, misses |-> 0, released |-> r.released,
             everAccepted |-> r.everAccepted, stableFrames |-> centred'[c]]
    BY <1>3, <1>4, <2>1, <2>2 DEF Seen, CodeState
  <2>4. r.released \in BOOLEAN /\ r.everAccepted \in BOOLEAN
    BY <2>2 DEF CodeState
  <2>5. QED
    BY <1>1, <1>3, <2>1, <2>2, <2>3, <2>4 DEF CodeState
<1>7. CASE c = picked /\ Accepts(picked, t)
  <2>1. states'[c] = [s EXCEPT !.released = FALSE, !.everAccepted = TRUE]
    BY <1>1, <1>2, <1>4, <1>7 DEF NextScanState
  <2>2. ~owed'[c]
    BY <1>1, <1>3, <1>7
  <2>3. states'[c] = [lastSeenAt |-> s.lastSeenAt, misses |-> s.misses,
                      released |-> FALSE, everAccepted |-> TRUE,
                      stableFrames |-> s.stableFrames]
    BY <1>6, <2>1 DEF CodeState
  <2>4. states'[c] \in CodeState
    BY <1>6, <2>3 DEF CodeState
  <2>5. QED
    BY <1>2, <1>3, <1>6, <2>2, <2>3, <2>4, GateAssumption DEF Remembers
<1>8. CASE ~(c = picked /\ Accepts(picked, t))
  <2>1. states'[c] = s
    BY <1>1, <1>2, <1>4, <1>8 DEF NextScanState
  <2>2. owed'[c] <=> owed[c]
    <3>1. c # accepted'
      BY <1>1, <1>8, CodeAssumption
    <3>2. owed[c] \in BOOLEAN
      BY DEF IInv, CodeOK, PastOK
    <3>3. QED
      BY <1>3, <3>1, <3>2
  <2>3. QED
    BY <1>2, <1>3, <1>5, <1>6, <2>1, <2>2 DEF Remembers
<1>9. QED
  BY <1>7, <1>8

(* A code out of view is remembered, or forgotten when it is owed anyway.  *)
LEMMA MissedStep ==
  ASSUME IInv, NEW detected, NEW picked, NEW t,
         FrameFacts(detected, picked, t), NEW c \in Code, c \notin detected
  PROVE  IF c \in (DOMAIN states)' THEN Remembers(c)' ELSE Forgotten(c)'
<1>1. /\ t \in 0 .. LastMs
      /\ t >= now + FrameMs
      /\ Observe(detected, picked, t)
      /\ states' = NextScanState(detected, picked, t)
      /\ accepted' = IF Accepts(picked, t) THEN picked ELSE NoCode
      /\ now \in Nat
  BY DEF FrameFacts, Frame, IInv
<1>2. c # picked /\ c # accepted'
  BY <1>1, PickedInView, CodeAssumption DEF FrameFacts
<1>3. CodeOK(c) /\ PastOK(c)
  BY DEF IInv, CodeOK
<1>4. /\ seenAt'[c] = seenAt[c]
      /\ missed'[c] = missed[c] + 1
      /\ centred'[c] = 0
      /\ owed'[c] <=> \/ owed[c]
                      \/ /\ missed[c] + 1 >= ReleaseMisses
                         /\ t - seenAt[c] >= ReleaseMs
  BY <1>1, <1>2, <1>3 DEF Observe, PastOK
<1>5. CASE c \in DOMAIN states /\ states[c].misses + 1 < ForgetMisses
  <2>1. c \in DOMAIN states' /\ states'[c] = Missed(c, t)
    BY <1>1, <1>5 DEF NextScanState, Remembered
  <2>2. Remembers(c)
    BY <1>3, <1>5 DEF CodeOK
  <2>3. /\ states'[c] \in CodeState
        /\ states'[c].lastSeenAt = seenAt[c]
        /\ states'[c].misses = missed[c] + 1
        /\ states'[c].stableFrames = 0
        /\ states'[c].everAccepted = states[c].everAccepted
        /\ states'[c].released <=> \/ states[c].released
                                  \/ /\ missed[c] + 1 >= ReleaseMisses
                                     /\ t - seenAt[c] >= ReleaseMs
    <3>1. PICK r : r = states[c]
      OBVIOUS
    <3>2. r \in CodeState /\ r.lastSeenAt = seenAt[c] /\ r.misses = missed[c]
      BY <2>2, <3>1 DEF Remembers
    <3>3. PICK f \in BOOLEAN : f = Released(r, r.misses + 1, t)
      BY <3>2 DEF Released, CodeState
    <3>4. states'[c] = [lastSeenAt |-> r.lastSeenAt, misses |-> r.misses + 1,
                        released |-> f, everAccepted |-> r.everAccepted,
                        stableFrames |-> 0]
      BY <2>1, <3>1, <3>2, <3>3 DEF Missed, CodeState
    <3>5. r.everAccepted \in BOOLEAN /\ r.misses \in Nat /\ r.lastSeenAt \in 0 .. LastMs
      BY <3>2 DEF CodeState
    <3>6. f <=> \/ r.released
                \/ missed[c] + 1 >= ReleaseMisses /\ t - seenAt[c] >= ReleaseMs
      BY <3>2, <3>3 DEF Released
    <3>7. QED
      BY <3>1, <3>2, <3>4, <3>5, <3>6 DEF CodeState
  <2>4. owed'[c] <=> (~states'[c].everAccepted \/ states'[c].released)
    BY <1>4, <2>2, <2>3 DEF Remembers
  <2>5. QED
    BY <1>4, <1>5, <2>1, <2>2, <2>3, <2>4 DEF Remembers
<1>6. CASE c \in DOMAIN states /\ ~(states[c].misses + 1 < ForgetMisses)
  <2>1. c \notin DOMAIN states'
    BY <1>1, <1>6 DEF NextScanState, Remembered
  <2>2. missed[c] + 1 = ForgetMisses
    BY <1>3, <1>6 DEF CodeOK, Remembers, PastOK, CodeState
  <2>3. (missed[c] + 1) * FrameMs = missed[c] * FrameMs + FrameMs
    BY <1>3, OneFrameMore DEF PastOK
  <2>4. missed[c] * FrameMs + FrameMs >= ReleaseMs
    BY <2>2, <2>3, ForgetAssumption
  <2>5. missed[c] * FrameMs \in Int
    BY <1>3 DEF PastOK
  <2>6. t - seenAt[c] >= ReleaseMs
    BY <1>1, <1>3, <2>4, <2>5 DEF PastOK
  <2>7. QED
    BY <1>4, <2>1, <2>2, <2>6, ForgetAssumption DEF Forgotten
<1>7. CASE c \notin DOMAIN states
  <2>1. c \notin DOMAIN states'
    BY <1>1, <1>7 DEF NextScanState, Remembered
  <2>2. QED
    BY <1>3, <1>4, <1>7, <2>1 DEF CodeOK, Forgotten
<1>8. QED
  BY <1>5, <1>6, <1>7

LEMMA NextInv == IInv /\ [Next]_vars => IInv'
<1> SUFFICES ASSUME IInv, [Next]_vars PROVE IInv'
  OBVIOUS
<1>1. CASE UNCHANGED vars
  BY <1>1 DEF vars, IInv, CodeOK, PastOK, Remembers, Forgotten
<1>2. CASE Next
  <2>1. PICK t, detected, picked : FrameFacts(detected, picked, t)
    BY <1>2 DEF Next, FrameFacts
  <2>2. /\ t \in 0 .. LastMs
        /\ Observe(detected, picked, t)
        /\ states' = NextScanState(detected, picked, t)
        /\ accepted' = IF Accepts(picked, t) THEN picked ELSE NoCode
        /\ now' = t
    BY <2>1 DEF FrameFacts, Frame, IInv
  <2>3. picked = NoCode \/ picked \in detected
    BY <2>1, PickedInView DEF FrameFacts
  <2>4. detected \subseteq Code
    BY <2>1 DEF FrameFacts
  <2>5. DOMAIN states' = Remembered(detected)
    BY <2>2 DEF NextScanState
  <2>6. DOMAIN states' \subseteq Code /\ states' = [c \in DOMAIN states' |-> states'[c]]
    BY <2>2, <2>4, <2>5 DEF NextScanState, Remembered, IInv
  <2>7. accepted' \in Code \cup {NoCode}
    BY <2>2, <2>3, <2>4
  <2>8. accepted' # NoCode => centred'[accepted'] >= StableFrames
    <3>1. SUFFICES ASSUME accepted' # NoCode PROVE centred'[picked] >= StableFrames
      BY <2>2
    <3>2. picked \in Code /\ Accepts(picked, t)
      BY <2>2, <2>3, <2>4, <3>1
    <3>3. centred'[picked] = centred[picked] + 1
      BY <2>2, <3>2 DEF Observe
    <3>4. QED
      BY <2>2, <3>2, <3>3, OwedMayBeAccepted
  <2>9. /\ seenAt' \in [Code -> Int]
        /\ missed' \in [Code -> Int]
        /\ centred' \in [Code -> Int]
    BY <2>2 DEF Observe, IInv
  <2>10. ASSUME NEW c \in Code PROVE CodeOK(c)'
    BY <2>1, PastStep, SeenStep, MissedStep DEF CodeOK
  <2>11. QED
    BY <2>2, <2>6, <2>7, <2>8, <2>9, <2>10 DEF IInv
<1>3. QED
  BY <1>1, <1>2

LEMMA Invariance == Spec => []IInv
BY InitInv, NextInv, PTL DEF Spec

-----------------------------------------------------------------------------
(* What the gate remembers of a code is what really was in view.           *)
THEOREM TypeCorrect == Spec => []TypeOK
<1>1. IInv => TypeOK
  BY DEF IInv, TypeOK, CodeOK, Remembers
<1>2. QED
  BY <1>1, Invariance, PTL

(* No item is missed: whatever was taken away for RELEASE_MISSES frames    *)
(* and RELEASE_MS is let through once it is steadily in the centre.        *)
THEOREM NoItemIsMissed == Spec => []BroughtBackIsAccepted
<1>1. IInv => BroughtBackIsAccepted
  BY DEF IInv, BroughtBackIsAccepted, CodeOK, PastOK
<1>2. QED
  BY <1>1, Invariance, PTL

(* Nothing is let through that was not in the centre for STABLE_FRAMES     *)
(* frames in a row.                                                        *)
THEOREM OnlySteadyCodes == Spec => []OnlyCentredAccepted
<1>1. IInv => OnlyCentredAccepted
  BY DEF IInv, OnlyCentredAccepted
<1>2. QED
  BY <1>1, Invariance, PTL

(* One visit, one item: a code is let through again only after it was out  *)
(* of view for RELEASE_MS, also when the gate has forgotten it meanwhile.  *)
THEOREM OneItemPerVisit == Spec => AcceptedOncePerVisit
<1>1. IInv /\ [Next]_vars =>
        [\A c \in Code : accepted' = c => away[c] \/ now' - seenAt[c] >= ReleaseMs]_vars
  <2> SUFFICES ASSUME IInv, Next, NEW c \in Code, accepted' = c PROVE away[c]
    BY DEF vars
  <2>1. PICK t, detected, picked : FrameFacts(detected, picked, t)
    BY DEF Next, FrameFacts
  <2>2. t \in Int /\ Accepts(c, t)
    BY <2>1, CodeAssumption DEF FrameFacts, Frame, IInv
  <2>3. owed[c]
    BY <2>2, OwedMayBeAccepted
  <2>4. QED
    BY <2>3 DEF IInv, CodeOK, PastOK
<1>2. QED
  BY <1>1, Invariance, PTL DEF Spec, AcceptedOncePerVisit
=============================================================================
