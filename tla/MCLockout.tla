----------------------------- MODULE MCLockout -----------------------------
(* Five calls of one member, who is locked for one tick after the second   *)
(* failure in a row.                                                        *)
EXTENDS Lockout, TLC

Symmetry == Permutations(Call)
=============================================================================
