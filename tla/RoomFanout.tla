----------------------------- MODULE RoomFanout -----------------------------
(***************************************************************************)
(* What one chat room of the Go server promises the connections subscribed *)
(* to it, whatever hubs are created and torn down behind it: one ordered   *)
(* feed of events, each of them handed to every subscriber in one step, in *)
(* feed order.  A subscriber that cannot take an event, whose inbox other  *)
(* traffic may fill too, loses its subscription at that very event, so     *)
(* what a subscriber receives has no gap; events are only forgotten when   *)
(* nobody is subscribed.                                                   *)
(***************************************************************************)
EXTENDS Naturals, Sequences

CONSTANTS
    Client,    \* WebSocket connections
    Message,   \* the events a room carries
    FeedCap,   \* events accepted and not yet handed out (broadcast buffer)
    InboxCap   \* events handed to a connection and not yet written to it

VARIABLES
    subs,      \* the subscribed connections
    feed,      \* accepted events, oldest first
    inbox      \* what each connection was handed and has not written yet

fvars == <<subs, feed, inbox>>

Init ==
    /\ subs = {}
    /\ feed = <<>>
    /\ inbox = [c \in Client |-> <<>>]

HasRoom(c) == Len(inbox[c]) < InboxCap

\* A new connection starts with an empty inbox.
Connect(c) ==
    /\ c \notin subs
    /\ inbox' = [inbox EXCEPT ![c] = <<>>]
    /\ UNCHANGED <<subs, feed>>

Subscribe(c) ==
    /\ subs' = subs \union {c}
    /\ UNCHANGED <<feed, inbox>>

Unsubscribe(c) ==
    /\ subs' = subs \ {c}
    /\ UNCHANGED <<feed, inbox>>

Publish(m) ==
    /\ Len(feed) < FeedCap
    /\ feed' = Append(feed, m)
    /\ UNCHANGED <<subs, inbox>>

\* The oldest event reaches the subscribers with room for it; the others are
\* unsubscribed in the same step.
Fanout ==
    /\ feed # <<>>
    /\ feed' = Tail(feed)
    /\ subs' \in SUBSET {c \in subs : HasRoom(c)}
    /\ inbox' = [c \in Client |->
                    IF c \in subs' THEN Append(inbox[c], Head(feed))
                                   ELSE inbox[c]]

Receive(c) ==
    /\ inbox[c] # <<>>
    /\ inbox' = [inbox EXCEPT ![c] = Tail(@)]
    /\ UNCHANGED <<subs, feed>>

Discard ==
    /\ subs = {}
    /\ feed' = <<>>
    /\ UNCHANGED <<subs, inbox>>

Next ==
    \/ \E c \in Client :
          Connect(c) \/ Subscribe(c) \/ Unsubscribe(c) \/ Receive(c)
    \/ \E m \in Message : Publish(m)
    \/ Fanout
    \/ Discard

Spec == Init /\ [][Next]_fvars
=============================================================================
