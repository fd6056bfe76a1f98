---------------------------- MODULE MCKotlinHub ----------------------------
(* TLC instances of KotlinHub. *)
EXTENDS KotlinHub, TLC

Symm == Permutations(Session) \cup Permutations(Hub)
=============================================================================
