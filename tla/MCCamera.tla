----------------------------- MODULE MCCamera -----------------------------
(* Three visits: a camera that starts, one that is left, one that runs.     *)
EXTENDS Camera
=============================================================================
