----------------------------- MODULE RoomRoster -----------------------------
(***************************************************************************)
(* What the Elixir server promises about who is online in one room,        *)
(* whatever processes are started and stopped behind it: one set of those  *)
(* online, every change of it announced with its new size to all who       *)
(* listen, in the same step.  Nobody is taken out between the answer to    *)
(* its join and its own goodbye or end.                                    *)
(***************************************************************************)
EXTENDS Naturals, FiniteSets

CONSTANT Conn   \* connections

VARIABLES
    online,      \* who counts as online
    joined,      \* whose join was answered and who has not said goodbye
    listening,   \* who gets the announcements
    told         \* the size each listener was told last

rvars == <<online, joined, listening, told>>

Init ==
    /\ online = {} /\ joined = {} /\ listening = {}
    /\ told = [c \in Conn |-> 0]

Announce(set) ==
    told' = [c \in Conn |-> IF c \in listening THEN Cardinality(set) ELSE 0]

\* A new connection, of which nothing is left from earlier.
Listen(c) ==
    /\ c \notin listening \union online
    /\ listening' = listening \union {c}
    /\ UNCHANGED <<online, joined, told>>

\* A join is counted, also when the caller has given up waiting or is gone.
Enter(c) ==
    /\ online' = online \union {c}
    /\ \/ joined' = joined
       \/ c \in listening /\ joined' = joined \union {c}
    /\ Announce(online')
    /\ UNCHANGED listening

Goodbye(c) ==
    /\ c \in joined
    /\ joined' = joined \ {c}
    /\ UNCHANGED <<online, listening, told>>

\* The connection ends, in order or not.
End(c) ==
    /\ c \in listening
    /\ listening' = listening \ {c}
    /\ joined' = joined \ {c}
    /\ told' = [told EXCEPT ![c] = 0]
    /\ UNCHANGED online

\* Only who has not joined or has left is taken out.
Drop(c) ==
    /\ c \in online \ joined
    /\ online' = online \ {c}
    /\ Announce(online')
    /\ UNCHANGED <<joined, listening>>

Next == \E c \in Conn : Listen(c) \/ Enter(c) \/ Goodbye(c) \/ End(c) \/ Drop(c)

Spec == Init /\ [][Next]_rvars
=============================================================================
