----------------------------- MODULE GroupRooms -----------------------------
(***************************************************************************)
(* What server-go's tables promise about group rooms, whatever requests    *)
(* are in flight: one book with one entry per room, changed by one         *)
(* operation at a time.  Spec is what every interleaving of the handlers   *)
(* keeps to.  StrictSpec adds what the handlers check before they write    *)
(* and do not check again: the owner does not walk out of its room, and a  *)
(* room is closed by its owner being its last member.                      *)
(***************************************************************************)
EXTENDS Naturals, FiniteSets

CONSTANTS
    User,
    Room,
    Cap        \* members a room may have

VARIABLE book  \* the rooms there are, each with its entry

Init == book = [r \in {} |-> r]

\* A new room has its creator as owner and only member, and no invites.
Create(r, u) ==
    /\ r \notin DOMAIN book
    /\ \E v \in {"public", "private"}, e \in BOOLEAN :
          book' = [s \in DOMAIN book \union {r} |->
                      IF s = r
                      THEN [owner |-> u, members |-> {u}, visibility |-> v,
                            emojiOnly |-> e, invites |-> {}]
                      ELSE book[s]]

\* A place is free, and somebody has invited if the room is private.
Join(r, u) ==
    /\ r \in DOMAIN book /\ u \notin book[r].members
    /\ Cardinality(book[r].members) < Cap
    /\ book[r].visibility = "private" => book[r].invites # {}
    /\ book' = [book EXCEPT ![r].members = @ \union {u}]

Leave(r, u) ==
    /\ r \in DOMAIN book /\ u \in book[r].members
    /\ book' = [book EXCEPT ![r].members = @ \ {u}]

\* Only to a member.
Transfer(r, u) ==
    /\ r \in DOMAIN book /\ u \in book[r].members
    /\ book' = [book EXCEPT ![r].owner = u]

Patch(r) ==
    /\ r \in DOMAIN book
    /\ \E e \in BOOLEAN : book' = [book EXCEPT ![r].emojiOnly = e]

\* The inviter may have left since it was found to be a member.
Invite(r, u) ==
    /\ r \in DOMAIN book
    /\ book' = [book EXCEPT ![r].invites = @ \union {u}]

Close(r) ==
    /\ r \in DOMAIN book
    /\ book' = [s \in DOMAIN book \ {r} |-> book[s]]

Next ==
    \E r \in Room :
        \/ Patch(r) \/ Close(r)
        \/ \E u \in User :
              Create(r, u) \/ Join(r, u) \/ Leave(r, u) \/ Transfer(r, u) \/ Invite(r, u)

Spec == Init /\ [][Next]_book

StrictNext ==
    \E r \in Room :
        \/ Patch(r)
        \/ Close(r) /\ book[r].members = {book[r].owner}
        \/ \E u \in User :
              \/ Create(r, u) \/ Join(r, u) \/ Transfer(r, u) \/ Invite(r, u)
              \/ Leave(r, u) /\ u # book[r].owner

StrictSpec == Init /\ [][StrictNext]_book
=============================================================================
