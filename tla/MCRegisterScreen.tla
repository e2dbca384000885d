-------------------------- MODULE MCRegisterScreen --------------------------
(* Two products and two member cards, two customers in a row, two lookups   *)
(* under way at a time.                                                     *)
EXTENDS RegisterScreen, TLC

Symmetry == Permutations(Product) \cup Permutations(Member) \cup Permutations(Call)
=============================================================================
