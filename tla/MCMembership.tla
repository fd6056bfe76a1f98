---------------------------- MODULE MCMembership ----------------------------
(* Membership on small instances. *)
EXTENDS Membership, TLC

\* Users and request goroutines are interchangeable in Membership.
Symmetry == Permutations(User) \union Permutations(Request)
=============================================================================
