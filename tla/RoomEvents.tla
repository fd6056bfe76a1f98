----------------------------- MODULE RoomEvents -----------------------------
(***************************************************************************)
(* What the members of one group room of server-go are told of the room's  *)
(* row and of one of them, the author: handlePatchRoom, handleTransferOwner *)
(* and the delete of handleLeaveRoom with their emit functions; handleGetMe *)
(* and handlePutMe with ensureUser and emitNameChanged; the author's        *)
(* connections in handleWebSocket, up to the registry, and in               *)
(* handleIncomingMsg.                                                       *)
(*                                                                         *)
(* SQLite is opened with one connection, so a statement is one step and no *)
(* statement runs while emitNameChanged has its cursor open; with FaultyDB *)
(* any statement may fail, and then it writes nothing.  The room has one   *)
(* hub with somebody in it (RoomHub); its broadcast channel is feed.       *)
(* The author is a member as long as the room exists; WsSession has what   *)
(* joins and leaves do.  emitNameChanged's last send, to the lobby's hub,  *)
(* comes after the cursor is closed and nothing depends on it: left out.   *)
(***************************************************************************)
EXTENDS Naturals, Sequences, EmojiOnly

CONSTANTS
    User,       \* who may own the room
    Name,       \* display names
    Request,    \* request goroutines
    Conn,       \* the author's connections
    Loads,      \* the mixes of requests the server is given: sets of verbs
    FeedCap,    \* capacity of RoomHub.broadcast (256 in the code)
    FaultyDB,   \* whether statements may fail
    Unnamed,    \* the empty display_name of a new row
    None        \* no row, no request

AllVerbs == {"me", "rename", "patch", "transfer", "delete"}

Room == [owner : User, emoji : BOOLEAN]

ASSUME EventConstants ==
    /\ Loads \subseteq SUBSET AllVerbs
    /\ User # {} /\ Name # {}
    /\ Conn \intersect Request = {}
    /\ FeedCap \in Nat \ {0} /\ FaultyDB \in BOOLEAN
    /\ Unnamed \notin Name /\ None \notin Name \union {Unnamed} \union Request \union Room

VARIABLES
    verbs,    \* what requests ask for in this behaviour
    name,     \* the author's users row: None, Unnamed or a name
    room,     \* the rooms row, or None
    cursor,   \* the request whose open cursor holds the database connection
    at,       \* where a request or a connection's goroutine stands
    call,     \* what a request asks for
    got,      \* the row ensureUser or getRoom has returned to it
    todo,     \* the connections a walk of the registry has yet to visit
    cached,   \* Client.displayName
    draft,    \* the kind of what a connection is about to store
    feed,     \* RoomHub.broadcast
    told,     \* what the members' pages show
    mixed,    \* history: kinds other than emoji stored in an emoji-only room
    crossed,  \* history: what has been written while somebody held an older
              \* reading of it
    untold    \* history: what was not told last time, a read having failed

tables == <<verbs, name, room, cursor>>
places == <<at, call, got, todo>>
conns == <<cached, draft>>
hub == <<feed, told>>
vars == <<verbs, name, room, cursor, at, call, got, todo, cached, draft, feed, told, mixed,
          crossed, untold>>

Goroutine == Request \union Conn
Row == {None, Unnamed} \union Name
Call == [verb : AllVerbs,
         arg : {None} \union Name \union User \union BOOLEAN]
NoCall == [verb |-> "me", arg |-> None]
Places == {"idle", "insert", "again", "ensured", "failed", "updated", "copy", "walk",
           "notify", "patch", "reread", "emit", "transfer", "delete", "up", "checked", "stored"}
Event == [type : {"room_updated"}, room : Room] \union [type : {"owner_changed"}, owner : User]
         \union [type : {"name_changed"}, name : Name] \union [type : {"room_deleted", "msg"}]

\* Whoever is connected has a display name.
TypeOK ==
    /\ verbs \in Loads
    /\ name \in Row
    /\ room \in Room \union {None}
    /\ cursor \in Request \union {None}
    /\ at \in [Goroutine -> Places]
    /\ call \in [Request -> Call]
    /\ got \in [Goroutine -> Row \union Room]
    /\ todo \in [Request -> SUBSET Conn]
    /\ cached \in [Conn -> Row]
    /\ draft \in [Conn -> Kinds]
    /\ feed \in Seq(Event) /\ Len(feed) <= FeedCap
    /\ told \in [room : Room \union {None}, name : Row]
    /\ mixed \subseteq Kinds
    /\ crossed \subseteq {"room", "name", "post"}
    /\ untold \subseteq {"room", "name"}
    /\ \A c \in Conn : at[c] \in {"up", "checked", "stored"} => cached[c] \in Name

\* The author has been here before or not; the room is open to text.
Init ==
    /\ verbs \in Loads
    /\ name \in {None} \union Name
    /\ room \in Room /\ ~room.emoji
    /\ cursor = None
    /\ at = [g \in Goroutine |-> "idle"]
    /\ call = [q \in Request |-> NoCall]
    /\ got = [g \in Goroutine |-> None]
    /\ todo = [q \in Request |-> {}]
    /\ cached = [c \in Conn |-> None]
    /\ draft = [c \in Conn |-> "emoji"]
    /\ feed = <<>>
    /\ told = [room |-> room, name |-> name]
    /\ mixed = {}
    /\ crossed = {}
    /\ untold = {}

-----------------------------------------------------------------------------
(* Steps of a goroutine.                                                   *)

Goto(g, place) == at' = [at EXCEPT ![g] = place]

\* A statement waits for the only database connection.
Statement == cursor = None

\* What a goroutine has finished with is forgotten.
Respond(g) ==
    /\ Goto(g, "idle")
    /\ got' = [got EXCEPT ![g] = None]
    /\ call' = IF g \in Request THEN [call EXCEPT ![g] = NoCall] ELSE call

\* select on a hub that lives: the send waits for room in the channel.
Send(event) ==
    /\ Len(feed) < FeedCap
    /\ feed' = Append(feed, event)

Asks(q, verb) == q \in Request /\ call[q].verb = verb

\* A statement fails and the handler answers with an error.  The reads that
\* begin a request may fail too, which changes nothing; getUser's failure in
\* ReadBack is ignored; ReadUpdated, OpenRows and InsertMessage say what theirs do.
Fail(g) ==
    /\ FaultyDB /\ Statement
    /\ \/ at[g] \in {"insert", "again", "patch", "transfer", "delete"}
       \/ at[g] = "ensured" /\ Asks(g, "rename")
    /\ Respond(g)
    /\ UNCHANGED <<tables, todo, conns, hub, mixed, crossed, untold>>

-----------------------------------------------------------------------------
(* ensureUser, for handleGetMe, handlePutMe and handleWebSocket.           *)

\* The request arrives; getUser answers.  A Conn comes again as another
\* *Client once no walk holds the old one.
EnsureUser(g) ==
    /\ at[g] = "idle" /\ Statement
    /\ IF g \in Conn THEN call' = call /\ \A q \in Request : g \notin todo[q]
       ELSE \E verb \in verbs \intersect {"me", "rename"}, n \in Name :
               call' = [call EXCEPT ![g] = [verb |-> verb,
                                            arg |-> IF verb = "rename" THEN n ELSE None]]
    /\ Goto(g, IF name = None THEN "insert" ELSE "ensured")
    /\ got' = [got EXCEPT ![g] = name]
    /\ UNCHANGED <<tables, todo, conns, hub, mixed, crossed, untold>>

\* SQLite's driver says UNIQUE in its error.
IsUniqueViolation == TRUE

InsertUser(g) ==
    /\ at[g] = "insert" /\ Statement
    /\ IF name = None
       THEN /\ name' = Unnamed
            /\ got' = [got EXCEPT ![g] = Unnamed]
            /\ Goto(g, "ensured")
       ELSE /\ Goto(g, IF IsUniqueViolation THEN "again" ELSE "failed")
            /\ UNCHANGED <<name, got>>
    /\ UNCHANGED <<verbs, room, cursor, call, todo, conns, hub, mixed, crossed, untold>>

GetUserAgain(g) ==
    /\ at[g] = "again" /\ Statement
    /\ got' = [got EXCEPT ![g] = name]
    /\ Goto(g, IF name = None THEN "failed" ELSE "ensured")
    /\ UNCHANGED <<tables, call, todo, conns, hub, mixed, crossed, untold>>

GetMe(q) ==
    /\ at[q] = "ensured" /\ Asks(q, "me")
    /\ Respond(q)
    /\ UNCHANGED <<tables, todo, conns, hub, mixed, crossed, untold>>

-----------------------------------------------------------------------------
(* handlePutMe: the row, the connections, the rooms.                       *)

\* A request has written a name and has yet to spread it.
Renaming(q) == call[q].verb = "rename" /\ at[q] \in {"updated", "copy", "walk", "notify"}

UpdateDisplayName(q) ==
    /\ at[q] = "ensured" /\ Asks(q, "rename") /\ Statement
    /\ name' = call[q].arg
    /\ crossed' = IF \E p \in Request : Renaming(p) THEN crossed \union {"name"} ELSE crossed
    /\ Goto(q, "updated")
    /\ UNCHANGED <<verbs, room, cursor, call, got, todo, conns, hub, mixed, untold>>

\* getUser for the response.
ReadBack(q) ==
    /\ at[q] = "updated" /\ Statement
    /\ Goto(q, "copy")
    /\ UNCHANGED <<tables, call, got, todo, conns, hub, mixed, crossed, untold>>

Registered == {c \in Conn : at[c] \in {"up", "checked", "stored"}}

\* A mutant of the next definition: updateUserDisplayName is not called.
CopyNobody(q) ==
    /\ at[q] = "copy"
    /\ Goto(q, "walk")
    /\ UNCHANGED <<tables, call, got, todo, conns, hub, mixed, crossed, untold>>

CopyRegistry(q) ==
    /\ at[q] = "copy"
    /\ todo' = [todo EXCEPT ![q] = Registered]
    /\ Goto(q, "walk")
    /\ UNCHANGED <<tables, call, got, conns, hub, mixed, crossed, untold>>

SetDisplayName(q, c) ==
    /\ at[q] = "walk" /\ c \in todo[q]
    /\ cached' = [cached EXCEPT ![c] = IF c \in Registered THEN call[q].arg ELSE @]
    /\ todo' = [todo EXCEPT ![q] = @ \ {c}]
    /\ UNCHANGED <<tables, at, call, got, draft, hub, mixed, crossed, untold>>

\* The rooms of emitNameChanged; the rows stay open while they are told.  If
\* the query fails, or the row cannot be read, nobody is told.
OpenRows(q) ==
    /\ at[q] = "walk" /\ todo[q] = {} /\ Statement
    /\ \/ /\ room # None
          /\ cursor' = q
          /\ Goto(q, "notify")
          /\ untold' = untold \ {"name"}
          /\ UNCHANGED <<call, got>>
       \/ room = None /\ Respond(q) /\ UNCHANGED <<cursor, untold>>
       \/ FaultyDB /\ Respond(q) /\ untold' = untold \union {"name"} /\ UNCHANGED cursor
    /\ UNCHANGED <<verbs, name, room, todo, conns, hub, mixed, crossed>>

NotifyName(q) ==
    /\ at[q] = "notify"
    /\ Send([type |-> "name_changed", name |-> call[q].arg])
    /\ cursor' = None
    /\ Respond(q)
    /\ UNCHANGED <<verbs, name, room, todo, conns, told, mixed, crossed, untold>>

-----------------------------------------------------------------------------
(* handleWebSocket: the name that ensureUser returned is kept.             *)

\* A mutant of the next definition: anybody may connect.
AdmitsAll(c) == TRUE
Admits(c) == got[c] # Unnamed

\* A rename that has been written since, and has copied the registry.
Outdated(c) == got[c] # name /\ \A q \in Request : at[q] \notin {"updated", "copy"}

Register(c) ==
    /\ at[c] = "ensured" /\ c \in Conn
    /\ IF Admits(c)
       THEN /\ cached' = [cached EXCEPT ![c] = got[c]]
            /\ crossed' = IF Outdated(c) THEN crossed \union {"name"} ELSE crossed
            /\ Goto(c, "up")
            /\ got' = [got EXCEPT ![c] = None]
            /\ UNCHANGED call
       ELSE Respond(c) /\ UNCHANGED <<cached, crossed>>
    /\ UNCHANGED <<tables, todo, draft, hub, mixed, untold>>

Disconnect(c) ==
    /\ at[c] = "up"
    /\ cached' = [cached EXCEPT ![c] = None]
    /\ Goto(c, "idle")
    /\ UNCHANGED <<tables, call, got, todo, draft, hub, mixed, crossed, untold>>

-----------------------------------------------------------------------------
(* handleIncomingMsg: membership and flag, INSERT, publication.            *)

\* A mutant of the next definition: the scan is not asked for.
AcceptsAll(content) == TRUE
Accepts(content) == room.emoji => IsEmojiOnly(content)

CheckMessage(c) ==
    /\ at[c] = "up" /\ Statement /\ room # None
    /\ \E content \in Contents :
          /\ Accepts(content)
          /\ draft' = [draft EXCEPT ![c] = Kind(content)]
    /\ Goto(c, "checked")
    /\ UNCHANGED <<tables, call, got, todo, cached, hub, mixed, crossed, untold>>

\* messages.room_id refers to rooms: the INSERT fails if the room is gone.
InsertMessage(c) ==
    /\ at[c] = "checked" /\ Statement
    /\ \/ /\ room # None
          /\ Goto(c, "stored")
          /\ mixed' = mixed \union (IF room.emoji THEN {draft[c]} \ {"emoji"} ELSE {})
       \/ (room = None \/ FaultyDB) /\ Goto(c, "up") /\ UNCHANGED mixed
    /\ draft' = [draft EXCEPT ![c] = "emoji"]
    /\ UNCHANGED <<tables, call, got, todo, cached, hub, crossed, untold>>

PublishMessage(c) ==
    /\ at[c] = "stored"
    /\ Send([type |-> "msg"])
    /\ Goto(c, "up")
    /\ UNCHANGED <<tables, call, got, todo, conns, told, mixed, crossed, untold>>

-----------------------------------------------------------------------------
(* The owner's requests.                                                   *)

\* getRoom and the comparison of owner_id; for a delete, the checks of
\* handleLeaveRoom.
CheckOwner(q) ==
    /\ at[q] = "idle" /\ Statement /\ room # None
    /\ \E verb \in verbs \intersect {"patch", "transfer", "delete"} :
          /\ \E arg \in CASE verb = "patch" -> BOOLEAN
                          [] verb = "transfer" -> User \ {room.owner}
                          [] verb = "delete" -> {None} :
                call' = [call EXCEPT ![q] = [verb |-> verb, arg |-> arg]]
          /\ Goto(q, verb)
    /\ UNCHANGED <<tables, got, todo, conns, hub, mixed, crossed, untold>>

\* Somebody holds a reading of the room that a write now makes old.
Overtakes(q) ==
    \E p \in Request \ {q} : at[p] = "emit" /\ call[p].verb \in {"patch", "transfer"}

\* Texts that were checked against the flag and are not stored.
Drafted == {c \in Conn : at[c] = "checked" /\ draft[c] = "text"}

PatchRoom(q) ==
    /\ at[q] = "patch" /\ Statement
    /\ room' = IF room = None THEN None ELSE [room EXCEPT !.emoji = call[q].arg]
    /\ crossed' = crossed \union (IF Overtakes(q) THEN {"room"} ELSE {})
                           \union (IF call[q].arg /\ Drafted # {} THEN {"post"} ELSE {})
    /\ Goto(q, "reread")
    /\ UNCHANGED <<verbs, name, cursor, call, got, todo, conns, hub, mixed, untold>>

\* A mutant of the next definition: the room as it was before, which is what
\* the pages have, is sent.
KeepRead(q) ==
    /\ at[q] = "reread" /\ Statement
    /\ got' = [got EXCEPT ![q] = told.room]
    /\ Goto(q, "emit")
    /\ UNCHANGED <<tables, call, todo, conns, hub, mixed, crossed, untold>>

\* getRoom's error is ignored: a row that cannot be read is a room without an
\* id, as a room that is gone is, and Emit finds no hub for it.
ReadUpdated(q) ==
    /\ at[q] = "reread" /\ Statement
    /\ \/ got' = [got EXCEPT ![q] = room] /\ untold' = untold \ {"room"}
       \/ FaultyDB /\ got' = [got EXCEPT ![q] = None] /\ untold' = untold \union {"room"}
    /\ Goto(q, "emit")
    /\ UNCHANGED <<tables, call, todo, conns, hub, mixed, crossed>>

\* setRoomOwner; without the target's member row, which goes with the room,
\* nothing is written and nothing is sent.
SetRoomOwner(q) ==
    /\ at[q] = "transfer" /\ Statement
    /\ IF room = None
       THEN Respond(q) /\ UNCHANGED <<room, crossed>>
       ELSE /\ room' = [room EXCEPT !.owner = call[q].arg]
            /\ crossed' = IF Overtakes(q) THEN crossed \union {"room"} ELSE crossed
            /\ Goto(q, "emit")
            /\ UNCHANGED <<call, got>>
    /\ UNCHANGED <<verbs, name, cursor, todo, conns, hub, mixed, untold>>

DeleteRoom(q) ==
    /\ at[q] = "delete" /\ Statement
    /\ room' = None
    /\ Goto(q, "emit")
    /\ UNCHANGED <<verbs, name, cursor, call, got, todo, conns, hub, mixed, crossed, untold>>

\* emitRoomUpdated of a room without an id finds no hub.
Emit(q) ==
    /\ at[q] = "emit"
    /\ CASE Asks(q, "patch") ->
              IF got[q] = None THEN UNCHANGED feed
              ELSE Send([type |-> "room_updated", room |-> got[q]])
         [] Asks(q, "transfer") -> Send([type |-> "owner_changed", owner |-> call[q].arg])
         [] Asks(q, "delete") -> Send([type |-> "room_deleted"])
    /\ Respond(q)
    /\ UNCHANGED <<tables, todo, conns, told, mixed, crossed, untold>>

-----------------------------------------------------------------------------
(* The hub, and the pages it feeds: onRoomUpdated, onOwnerChanged,         *)
(* onRoomDeleted, onNameChanged of app.js.  A room that is not in          *)
(* state.rooms stays out of it.                                            *)

Shown(event) ==
    CASE event.type = "name_changed" -> [told EXCEPT !.name = event.name]
      [] event.type = "room_deleted" -> [told EXCEPT !.room = None]
      [] event.type = "room_updated" /\ told.room # None -> [told EXCEPT !.room = event.room]
      [] event.type = "owner_changed" /\ told.room # None -> [told EXCEPT !.room.owner = event.owner]
      [] OTHER -> told

\* A mutant of the next definition: the hub asks the database for something.
FanoutReading ==
    /\ feed # <<>> /\ Statement
    /\ told' = Shown(Head(feed))
    /\ feed' = Tail(feed)
    /\ UNCHANGED <<tables, places, conns, mixed, crossed, untold>>

Fanout ==
    /\ feed # <<>>
    /\ told' = Shown(Head(feed))
    /\ feed' = Tail(feed)
    /\ UNCHANGED <<tables, places, conns, mixed, crossed, untold>>

-----------------------------------------------------------------------------

\* What a goroutine does of its own accord once it has begun.
Serve(q) ==
    \/ GetMe(q)
    \/ UpdateDisplayName(q) \/ ReadBack(q) \/ CopyRegistry(q)
    \/ \E c \in Conn : SetDisplayName(q, c)
    \/ OpenRows(q) \/ NotifyName(q)
    \/ PatchRoom(q) \/ ReadUpdated(q)
    \/ SetRoomOwner(q)
    \/ DeleteRoom(q)
    \/ Emit(q)

Receive(c) == Register(c) \/ InsertMessage(c) \/ PublishMessage(c)

Identify(g) == InsertUser(g) \/ GetUserAgain(g)

Next ==
    \/ \E g \in Goroutine : EnsureUser(g) \/ Identify(g) \/ Fail(g)
    \/ \E q \in Request : CheckOwner(q) \/ Serve(q)
    \/ \E c \in Conn : Disconnect(c) \/ CheckMessage(c) \/ Receive(c)
    \/ Fanout

Spec == Init /\ [][Next]_vars

-----------------------------------------------------------------------------
(* Properties                                                              *)

Quiet == feed = <<>> /\ \A g \in Goroutine : at[g] \in {"idle", "up"}

\* Once all is quiet the pages show the room as its row is, unless an edit or
\* a transfer was written between what another one has read or written and
\* its event (handlers.go 231-236, 275-283), events being sent after the
\* commits and maybe in another order; or the last edit's row could not be
\* read again, an error that handlePatchRoom ignores (handlers.go 235).
RoomShownIsRow == Quiet /\ "room" \notin crossed \union untold => told.room = room

\* Once all is quiet every connection sends its messages under the name of
\* the users row, and that is the name the room was told last, unless two
\* renames overlapped or the connection had read its name before a rename and
\* registered after the rename's walk (notify.go 79-88, 165-189; main.go
\* 788-813).  The room may keep the old name, and only the room, if the last
\* rename's rooms could not be read (notify.go 176-186).
NamesAgree ==
    Quiet /\ "name" \notin crossed =>
        /\ \A c \in Conn : at[c] = "up" => cached[c] = name
        /\ "name" \notin untold /\ name \in Name /\ room # None => told.name = name

\* A content with a letter, or with what cannot be decoded, is stored in an
\* emoji-only room only if it was checked before the room became one (main.go
\* 370-389).  Bare digits, # and * are stored there at any time: the comment
\* at main.go 500 excludes them, its branch and emoji_test.go 25 do not.
EmojiRoomKept == "text" \in mixed => "post" \in crossed

\* Whoever has begun something is not left with nobody who can go on: two
\* first requests of a user do not fail each other (repo.go 30-38), and the
\* cursor that is open while the rooms are told of a name, with their channels
\* full, is not waited for by whoever has to empty them (notify.go 176-188).
SomebodyGoesOn ==
    (\E g \in Goroutine : at[g] \notin {"idle", "up"})
    => \/ ENABLED Fanout
       \/ \E g \in Goroutine : ENABLED Identify(g)
       \/ \E q \in Request : ENABLED Serve(q)
       \/ \E c \in Conn : ENABLED Receive(c)
=============================================================================
