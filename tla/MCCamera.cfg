SPECIFICATION FairSpec
CONSTANT
  MaxVisits = 3
CHECK_DEADLOCK FALSE
INVARIANTS
  TypeOK
  ScansWhenItSaysSo
  OnlyStartsHoldCamera
PROPERTIES
  CameraIsReleased
