----------------------------- MODULE MCSession -----------------------------
(* Three calls of one browser and four token pairs: every call may renew.   *)
EXTENDS Session, TLC

Symmetry == Permutations(Call)
=============================================================================
