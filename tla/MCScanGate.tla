----------------------------- MODULE MCScanGate -----------------------------
(* Two cards side by side.  The constants keep the order of the code's:     *)
(* ReleaseMisses frames are sooner than ReleaseMs, ForgetMisses frames are  *)
(* not; an interval may be one frame or as long as a pause of the camera.   *)
EXTENDS ScanGate
=============================================================================
