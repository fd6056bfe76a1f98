---------------------------- MODULE MCRoomEvents ----------------------------
(* TLC instances of RoomEvents. *)
EXTENDS RoomEvents, TLC

Symm == Permutations(Request) \union Permutations(User) \union Permutations(Name)
=============================================================================
