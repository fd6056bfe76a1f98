----------------------------- MODULE Membership -----------------------------
(***************************************************************************)
(* Rooms, members and invites of server-go: the REST handlers of           *)
(* handlers.go over the tables of repo.go, each request a goroutine that   *)
(* reads, decides, and writes later, with other requests in between.       *)
(*                                                                         *)
(* SQLite has one connection (SetMaxOpenConns(1)), so a statement or a     *)
(* transaction is one step.  Consecutive reads of one handler are one step *)
(* at the last of them: rooms do not come back, a room's visibility does   *)
(* not change and an invite is never revoked, so the earlier ones could    *)
(* not have answered differently.  What a request does after its write,    *)
(* telling the connections, is not here.                                   *)
(***************************************************************************)
EXTENDS Naturals, FiniteSets

CONSTANTS
    User,
    Room,            \* identities of group rooms; the lobby has no member rows
    Request,         \* request goroutines
    GroupMemberCap,  \* 100 in the code
    FaultyDB,        \* whether a statement may fail
    NoUser           \* NULL in rooms.owner_id

ASSUME MembershipConstants ==
    /\ IsFiniteSet(User)
    /\ GroupMemberCap \in Nat \ {0}
    /\ FaultyDB \in BOOLEAN
    /\ NoUser \notin User

VARIABLES
    rooms,       \* ids in table rooms
    visibility,  \* rooms.visibility
    owner,       \* rooms.owner_id
    emojiOnly,   \* rooms.emoji_only
    role,        \* room_members.role, "none" where there is no row
    hidden,      \* room_members.hidden, the users who hid the room
    invites,     \* the creators of the room's invites
    req          \* what each request goroutine does next, and for whom

tables == <<rooms, visibility, owner, emojiOnly, role, hidden, invites>>
vars == <<rooms, visibility, owner, emojiOnly, role, hidden, invites, req>>

Idle == [step |-> "idle"]
Steps == {"patch", "transfer", "remove", "count", "delete", "hide", "join", "invite"}
Pending == [step : Steps, user : User, room : Room, target : User]

Members(r) == {u \in User : role[r][u] # "none"}

\* A type invariant: tables and requests stay in their domains, and every room
\* in the table names an owner.
TypeOK ==
    /\ rooms \subseteq Room
    /\ visibility \in [Room -> {"public", "private"}]
    /\ owner \in [Room -> User \union {NoUser}]
    /\ \A r \in rooms : owner[r] \in User
    /\ emojiOnly \in [Room -> BOOLEAN]
    /\ role \in [Room -> [User -> {"none", "owner", "member"}]]
    /\ hidden \in [Room -> SUBSET User]
    /\ invites \in [Room -> SUBSET User]
    /\ req \in [Request -> Pending \union {Idle}]

NoRows == [u \in User |-> "none"]

Init ==
    /\ rooms = {}
    /\ visibility = [r \in Room |-> "public"]
    /\ owner = [r \in Room |-> NoUser]
    /\ emojiOnly = [r \in Room |-> FALSE]
    /\ role = [r \in Room |-> NoRows]
    /\ hidden = [r \in Room |-> {}]
    /\ invites = [r \in Room |-> {}]
    /\ req = [q \in Request |-> Idle]

-----------------------------------------------------------------------------
(* What a handler reads before it decides.                                 *)

\* The checks have passed; the request will do `step`.
Decide(q, step, u, r, v) ==
    req' = [req EXCEPT ![q] = [step |-> step, user |-> u, room |-> r, target |-> v]]

Respond(q) == req' = [req EXCEPT ![q] = Idle]

IsMember(r, u) == r \in rooms /\ role[r][u] # "none"

\* A mutant of the next definition: the room's visibility is not looked at.
MayJoinAny(r) == r \in rooms

\* getRoom, and getInvite where the room is private: the caller presents an
\* invite of this room if there is one.
MayJoin(r) == r \in rooms /\ (visibility[r] = "private" => invites[r] # {})

\* handlePatchRoom and handleTransferOwner compare rooms.owner_id with the
\* caller; handleLeaveRoom, setHide and handleCreateInvite look the caller's
\* row up, and only the first of them asks for the role.
Check(q, u, r) ==
    /\ req[q] = Idle
    /\ \/ r \in rooms /\ owner[r] = u /\ Decide(q, "patch", u, r, u)
       \/ r \in rooms /\ owner[r] = u /\ \E v \in User \ {u} : Decide(q, "transfer", u, r, v)
       \/ IsMember(r, u) /\ role[r][u] = "owner" /\ Decide(q, "count", u, r, u)
       \/ IsMember(r, u) /\ role[r][u] # "owner" /\ Decide(q, "remove", u, r, u)
       \/ IsMember(r, u) /\ Decide(q, "hide", u, r, u)
       \/ IsMember(r, u) /\ Decide(q, "invite", u, r, u)
       \/ MayJoin(r) /\ Decide(q, "join", u, r, u)
    /\ UNCHANGED tables

\* handleLeaveRoom by the owner: memberCount, whose error is ignored and then
\* counts nobody.
CountMembers(q) ==
    LET r == req[q].room IN
    /\ req[q].step = "count"
    /\ \E count \in {Cardinality(Members(r))} \union (IF FaultyDB THEN {0} ELSE {}) :
          IF count > 1 THEN Respond(q)
          ELSE Decide(q, "delete", req[q].user, r, req[q].user)
    /\ UNCHANGED tables

\* Any other statement that fails ends the request and rolls its transaction
\* back.
Fail(q) ==
    /\ FaultyDB /\ req[q].step \in Steps \ {"count"}
    /\ Respond(q)
    /\ UNCHANGED tables

-----------------------------------------------------------------------------
(* The writes.                                                             *)

\* A room id is a new uuid: nothing refers to it.
Fresh(r) ==
    /\ r \notin rooms
    /\ \A q \in Request : req[q] # Idle => req[q].room # r

\* handleCreateRoom: the room and its owner's row, in one transaction.
CreateRoom(u, r) ==
    /\ Fresh(r)
    /\ rooms' = rooms \union {r}
    /\ \E v \in {"public", "private"}, e \in BOOLEAN :
          /\ visibility' = [visibility EXCEPT ![r] = v]
          /\ emojiOnly' = [emojiOnly EXCEPT ![r] = e]
    /\ owner' = [owner EXCEPT ![r] = u]
    /\ role' = [role EXCEPT ![r][u] = "owner"]
    /\ UNCHANGED <<hidden, invites, req>>

\* patchRoom: UPDATE rooms ... WHERE id = ?, without another look at the owner.
PatchRoom(q) ==
    /\ req[q].step = "patch"
    /\ \E e \in BOOLEAN :
          emojiOnly' = IF req[q].room \in rooms
                       THEN [emojiOnly EXCEPT ![req[q].room] = e] ELSE emojiOnly
    /\ Respond(q)
    /\ UNCHANGED <<rooms, visibility, owner, role, hidden, invites>>

\* A mutant of the next definition: the others are not made members first.
SetRoomOwnerKeepingRoles(q) ==
    LET r == req[q].room  v == req[q].target IN
    /\ req[q].step = "transfer" /\ v \in Members(r)
    /\ owner' = [owner EXCEPT ![r] = v]
    /\ role' = [role EXCEPT ![r][v] = "owner"]
    /\ Respond(q)
    /\ UNCHANGED <<rooms, visibility, emojiOnly, hidden, invites>>

\* Another: the target's row is not looked up.
SetRoomOwnerUnchecked(q) ==
    LET r == req[q].room  v == req[q].target IN
    /\ req[q].step = "transfer" /\ r \in rooms
    /\ owner' = [owner EXCEPT ![r] = v]
    /\ role' = [role EXCEPT ![r] = [u \in User |-> IF u \notin Members(r) THEN "none"
                                                   ELSE IF u = v THEN "owner"
                                                   ELSE "member"]]
    /\ Respond(q)
    /\ UNCHANGED <<rooms, visibility, emojiOnly, hidden, invites>>

\* setRoomOwner, one transaction: the target is a member, becomes owner_id,
\* and is the one row with the owner's role.
SetRoomOwner(q) ==
    LET r == req[q].room  v == req[q].target IN
    /\ req[q].step = "transfer" /\ v \in Members(r)
    /\ owner' = [owner EXCEPT ![r] = v]
    /\ role' = [role EXCEPT ![r] = [u \in User |-> IF u = v THEN "owner"
                                                   ELSE IF u \in Members(r) THEN "member"
                                                   ELSE "none"]]
    /\ Respond(q)
    /\ UNCHANGED <<rooms, visibility, emojiOnly, hidden, invites>>

\* setRoomOwner finds no such member and rolls back.
TargetNotMember(q) ==
    /\ req[q].step = "transfer" /\ req[q].target \notin Members(req[q].room)
    /\ Respond(q)
    /\ UNCHANGED tables

\* removeMember: DELETE the caller's row, whatever its role is by now.
RemoveMember(q) ==
    LET r == req[q].room  u == req[q].user IN
    /\ req[q].step = "remove"
    /\ role' = [role EXCEPT ![r][u] = "none"]
    /\ hidden' = [hidden EXCEPT ![r] = @ \ {u}]
    /\ Respond(q)
    /\ UNCHANGED <<rooms, visibility, owner, emojiOnly, invites>>

\* deleteRoom; the foreign keys delete the member and invite rows with it.
DeleteRoom(q) ==
    LET r == req[q].room IN
    /\ req[q].step = "delete"
    /\ rooms' = rooms \ {r}
    /\ owner' = [owner EXCEPT ![r] = NoUser]
    /\ role' = [role EXCEPT ![r] = NoRows]
    /\ hidden' = [hidden EXCEPT ![r] = {}]
    /\ invites' = [invites EXCEPT ![r] = {}]
    /\ Respond(q)
    /\ UNCHANGED <<visibility, emojiOnly>>

\* setMemberHidden updates the row if it is still there.
SetMemberHidden(q) ==
    LET r == req[q].room  u == req[q].user IN
    /\ req[q].step = "hide"
    /\ \E hide \in BOOLEAN :
          hidden' = [hidden EXCEPT ![r] = IF hide /\ u \in Members(r) THEN @ \union {u}
                                                                     ELSE @ \ {u}]
    /\ Respond(q)
    /\ UNCHANGED <<rooms, visibility, owner, emojiOnly, role, invites>>

\* Mutants of the next definition: one member too many; no foreign key.
AdmitsOneMore(r) == r \in rooms /\ Cardinality(Members(r)) <= GroupMemberCap
AdmitsOrphan(r) == Cardinality(Members(r)) < GroupMemberCap

\* The INSERT of addMemberWithCap goes through: the count taken in the same
\* transaction is below the cap, and the foreign key finds the room.
Admits(r) == r \in rooms /\ Cardinality(Members(r)) < GroupMemberCap

\* addMemberWithCap, one transaction.  A member already, a full room or a room
\* that is gone: nothing is written.
AddMemberWithCap(q) ==
    LET r == req[q].room  u == req[q].user IN
    /\ req[q].step = "join"
    /\ role' = IF u \notin Members(r) /\ Admits(r)
               THEN [role EXCEPT ![r][u] = "member"] ELSE role
    /\ Respond(q)
    /\ UNCHANGED <<rooms, visibility, owner, emojiOnly, hidden, invites>>

\* createInvite: the foreign key refuses an invite for a room that is gone.
CreateInvite(q) ==
    LET r == req[q].room IN
    /\ req[q].step = "invite"
    /\ invites' = IF r \in rooms THEN [invites EXCEPT ![r] = @ \union {req[q].user}]
                                 ELSE invites
    /\ Respond(q)
    /\ UNCHANGED <<rooms, visibility, owner, emojiOnly, role, hidden>>

-----------------------------------------------------------------------------
Write(q) ==
    \/ PatchRoom(q) \/ SetRoomOwner(q) \/ TargetNotMember(q) \/ RemoveMember(q)
    \/ DeleteRoom(q) \/ SetMemberHidden(q) \/ AddMemberWithCap(q) \/ CreateInvite(q)

Next ==
    \/ \E u \in User, r \in Room :
          CreateRoom(u, r) \/ \E q \in Request : Check(q, u, r)
    \/ \E q \in Request : CountMembers(q) \/ Fail(q) \/ Write(q)

Spec == Init /\ [][Next]_vars

-----------------------------------------------------------------------------
(* What every interleaving keeps.                                          *)

\* The owner's role is held by the user the room's row names and by nobody
\* else, whatever transfers, joins and leaves race.
OwnerColumnAgrees ==
    \A r \in Room, u \in User : role[r][u] = "owner" => owner[r] = u

\* Joins that race for the last place do not overfill the room.
MembersWithinCap == \A r \in Room : Cardinality(Members(r)) <= GroupMemberCap

\* A request that was decided while the room was there leaves no member row,
\* no hidden flag and no invite behind when the room has been deleted, and a
\* hidden flag does not outlive the membership.
NoOrphanRows ==
    \A r \in Room : /\ r \notin rooms => Members(r) = {} /\ invites[r] = {}
                    /\ hidden[r] \subseteq Members(r)

\* A private room has a second member only after somebody invited.
PrivateByInvite ==
    \A r \in rooms :
        visibility[r] = "private" /\ Cardinality(Members(r)) > 1 => invites[r] # {}

\* The tables seen as one book with an entry for each room there is.
Entry(r) == [owner |-> owner[r], members |-> Members(r), visibility |-> visibility[r],
             emojiOnly |-> emojiOnly[r], invites |-> invites[r]]
Entries == [r \in rooms |-> Entry(r)]
Book == INSTANCE GroupRooms WITH book <- Entries, Cap <- GroupMemberCap

\* Whatever a handler read long before it writes, its write is one operation
\* on one room as GroupRooms allows it then, or changes nothing: no join to a
\* full, closed or sealed room, no owner who was not a member, no room that
\* comes back with what the old one left.
RefinesBook == Book!Spec

-----------------------------------------------------------------------------
(* What a message of the code says and the interleavings break.            *)

\* "owner must transfer before leaving": the owner of a room is one of its
\* members.
OwnerIsMember == \A r \in rooms : owner[r] \in Members(r)
=============================================================================
