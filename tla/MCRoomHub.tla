----------------------------- MODULE MCRoomHub -----------------------------
(* RoomHub on small instances. *)
EXTENDS RoomHub, TLC

\* Clients, hubs, senders and messages are interchangeable in RoomHub.
Symmetry == Permutations(Client) \union Permutations(Hub)
              \union Permutations(Sender) \union Permutations(Message)
=============================================================================
