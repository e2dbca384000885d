SPECIFICATION Spec
CONSTANTS
  Code = {cardA, cardB}
  NoCode = NoCode
  StableFrames = 2
  ReleaseMisses = 2
  ReleaseMs = 4
  ForgetMisses = 4
  FrameMs = 1
  PauseMs = 3
  LastMs = 14
CHECK_DEADLOCK FALSE
INVARIANTS
  TypeOK
  BroughtBackIsAccepted
  OnlyCentredAccepted
PROPERTY
  AcceptedOncePerVisit
