----------------------------- MODULE MCRoomView -----------------------------
(* RoomView for TLC. *)
EXTENDS RoomView, TLC

\* No property names a room, a sender or a history request.
Symmetry == Permutations(Room) \union Permutations(Sender) \union Permutations(Fetch)
=============================================================================
