------------------------------ MODULE WsSession ------------------------------
(***************************************************************************)
(* One user's WebSocket connections and one group room of server-go:       *)
(* handleWebSocket building a connection up, readPump tearing it down, and *)
(* the REST to WS bridge of notify.go walking the client registry in       *)
(* between, while the room's hub sends.  The registry keeps one set per    *)
(* user, so other users matter only through what the hub sends.            *)
(*                                                                         *)
(* The hub is RoomFanout's view of it: attachClient subscribes in one step *)
(* and the hub hands an event to all its subscribers in one step, which is *)
(* what RoomHub is proved to implement.  A Conn is a *Client: it lives     *)
(* through one connection.  Requests pass their checks when they commit    *)
(* (Membership has them apart); the room is made, joined, left and deleted *)
(* by this user's requests.  Reads between the commit and the walks may    *)
(* fail.                                                                   *)
(***************************************************************************)
EXTENDS Naturals, FiniteSets

CONSTANTS
    Conn,      \* the user's *Client values
    Request,   \* request goroutines
    Verbs,     \* the requests made: a subset of AllVerbs
    Faults,    \* the reads that may fail: a subset of Reads
    SendCap,   \* capacity of Client.send (256 in the code)
    NoConn

AllVerbs == {"create", "join", "leave", "delete"}
Reads == {"snapshot", "user", "room"}

ASSUME SessionConstants ==
    /\ Verbs \subseteq AllVerbs
    /\ Faults \subseteq Reads
    /\ SendCap \in Nat \ {0}
    /\ NoConn \notin Conn

VARIABLES
    room,        \* the rooms row: not there yet, there, deleted
    member,      \* whether the user has a member row of the room
    registry,    \* clientRegistry.sets[user]
    subscribed,  \* the connections in the hub's clients
    feed,        \* whether a room_deleted event waits in the hub's broadcast
    hubs,        \* the connections whose c.hubs has the room
    nilled,      \* the connections whose c.hubs readPump has set to nil
    locked,      \* the connections whose hubsMu a panic left locked
    at,          \* where handleWebSocket or readPump stands
    snap,        \* whether the connection's snapshot listed the room
    queued,      \* len(c.send)
    lists,       \* whether a client that has read all of c.send lists the room
    early,       \* the connections told of the room before their snapshot
    missed,      \* the connections a notifyUser send was dropped for
    open,        \* whether the connection is open
    closed,      \* the connections whose send channel is closed
    req,         \* the request goroutines
    panics,      \* what has panicked: a request's walk, the hub
    failed,      \* the reads that have failed
    crossed      \* whether a request has crossed one that undoes it

tables == <<room, member>>
hubvars == <<subscribed, feed>>
entries == <<hubs, nilled, locked>>
place == <<at, snap>>
frames == <<queued, lists, early, missed>>
ends == <<open, closed>>
marks == <<failed, crossed>>
vars == <<room, member, registry, subscribed, feed, hubs, nilled, locked, at, snap,
          queued, lists, early, missed, open, closed, req, panics, failed, crossed>>

Places == {"new", "snapshot", "push", "attach", "record", "live",
           "unregister", "forget", "close", "gone"}
Stages == {"idle", "committed", "attach", "subscribe", "record", "tell",
           "detach", "unsubscribe"}

\* A type invariant; no send channel holds more than its capacity.
TypeOK ==
    /\ room \in {"none", "there", "deleted"}
    /\ member \in BOOLEAN
    /\ registry \subseteq Conn /\ subscribed \subseteq Conn
    /\ feed \in BOOLEAN
    /\ hubs \subseteq Conn /\ nilled \subseteq Conn /\ locked \subseteq Conn
    /\ at \in [Conn -> Places]
    /\ snap \in [Conn -> BOOLEAN]
    /\ queued \in [Conn -> 0 .. SendCap]
    /\ lists \in [Conn -> BOOLEAN]
    /\ early \subseteq Conn /\ missed \subseteq Conn
    /\ open \in [Conn -> BOOLEAN]
    /\ closed \subseteq Conn
    /\ req \in [Request -> [stage : Stages, verb : AllVerbs,
                            walk : SUBSET Conn, conn : Conn \union {NoConn}]]
    /\ panics \subseteq {"walk", "hub"}
    /\ failed \subseteq Reads
    /\ crossed \in BOOLEAN

Idle == [stage |-> "idle", verb |-> "join", walk |-> {}, conn |-> NoConn]

Init ==
    /\ \/ room = "none" /\ member = FALSE
       \/ room = "there" /\ member \in BOOLEAN
    /\ registry = {} /\ subscribed = {} /\ feed = FALSE
    /\ hubs = {} /\ nilled = {} /\ locked = {}
    /\ at = [c \in Conn |-> "new"]
    /\ snap = [c \in Conn |-> FALSE]
    /\ queued = [c \in Conn |-> 0]
    /\ lists = [c \in Conn |-> FALSE]
    /\ early = {} /\ missed = {}
    /\ open = [c \in Conn |-> FALSE]
    /\ closed = {}
    /\ req = [q \in Request |-> Idle]
    /\ panics = {}
    /\ failed = {} /\ crossed = FALSE

\* A panic outside a request's goroutine ends the process.
Alive == "hub" \notin panics

\* A mutant of the next definition.
HasRoomForOneMore(c) == queued[c] <= SendCap

HasRoom(c) == queued[c] < SendCap

\* What a client makes of a frame: a snapshot replaces its list of rooms.
Listed(c, kind) == CASE kind = "snapshot"     -> snap[c]
                     [] kind = "room_created" -> TRUE
                     [] kind = "room_deleted" -> FALSE
                     [] kind = "message"      -> lists[c]

\* One more frame for each of the connections in set.
Put(set, kind) ==
    /\ queued' = [c \in Conn |-> IF c \in set THEN queued[c] + 1 ELSE queued[c]]
    /\ lists' = [c \in Conn |-> IF c \in set THEN Listed(c, kind) ELSE lists[c]]

-----------------------------------------------------------------------------
(* A connection comes up: handleWebSocket.                                 *)

Standing(c, here) == Alive /\ at[c] = here
Goto(c, there) == at' = [at EXCEPT ![c] = there]

\* A mutant of the next definition: the client is not registered.
RegisterNothing(c) ==
    /\ Standing(c, "new")
    /\ open' = [open EXCEPT ![c] = TRUE]
    /\ Goto(c, "snapshot")
    /\ UNCHANGED <<tables, registry, hubvars, entries, snap, frames, closed, req, panics, marks>>

\* clientRegistry.add, before anything is read from the database.
RegisterClient(c) ==
    /\ Standing(c, "new")
    /\ open' = [open EXCEPT ![c] = TRUE]
    /\ registry' = registry \union {c}
    /\ Goto(c, "snapshot")
    /\ UNCHANGED <<tables, hubvars, entries, snap, frames, closed, req, panics, marks>>

\* myRoomsForSnapshot.  When it fails the connection carries on without rooms.
ReadRooms(c) ==
    /\ Standing(c, "snapshot")
    /\ \/ /\ snap' = [snap EXCEPT ![c] = member]
          /\ UNCHANGED failed
       \/ /\ "snapshot" \in Faults
          /\ failed' = failed \union {"snapshot"}
          /\ UNCHANGED snap
    /\ Goto(c, "push")
    /\ UNCHANGED <<tables, registry, hubvars, entries, frames, ends, req, panics, crossed>>

\* client.send <- data, which waits for room in the channel.
PushSnapshot(c) ==
    /\ Standing(c, "push") /\ HasRoom(c)
    /\ Put({c}, "snapshot")
    /\ Goto(c, IF snap[c] THEN "attach" ELSE "live")
    /\ UNCHANGED <<tables, registry, hubvars, entries, snap, early, missed, ends, req, panics, marks>>

\* A mutant of the next definition: the rooms of the snapshot are not attached.
AttachNothing(c) ==
    /\ Standing(c, "attach")
    /\ Goto(c, "live")
    /\ UNCHANGED <<tables, registry, hubvars, entries, snap, frames, ends, req, panics, marks>>

\* manager.attachClient for a room of the snapshot, deleted or not.
AttachRoom(c) ==
    /\ Standing(c, "attach")
    /\ subscribed' = subscribed \union {c}
    /\ Goto(c, "record")
    /\ UNCHANGED <<tables, registry, feed, entries, snap, frames, ends, req, panics, marks>>

\* client.hubs[room] = h; the pumps start.
RecordHub(c) ==
    /\ Standing(c, "record")
    /\ hubs' = hubs \union {c}
    /\ Goto(c, "live")
    /\ UNCHANGED <<tables, registry, hubvars, nilled, locked, snap, frames, ends, req, panics, marks>>

\* writePump takes a frame off the channel.
Drain(c) ==
    /\ Standing(c, "live") /\ open[c] /\ queued[c] > 0
    /\ queued' = [queued EXCEPT ![c] = @ - 1]
    /\ UNCHANGED <<tables, registry, hubvars, entries, place, lists, early, missed, ends, req, panics, marks>>

-----------------------------------------------------------------------------
(* A connection goes down: the deferred function of readPump.              *)

\* The peer is gone, or a ping was not answered.
PeerGone(c) ==
    /\ Alive /\ open[c]
    /\ open' = [open EXCEPT ![c] = FALSE]
    /\ UNCHANGED <<tables, registry, hubvars, entries, place, frames, closed, req, panics, marks>>

\* A mutant of the next definition: the hubs are not left.
TakeNothing(c) ==
    /\ Standing(c, "live") /\ ~open[c] /\ c \notin locked
    /\ hubs' = hubs \ {c}
    /\ nilled' = nilled \union {c}
    /\ Goto(c, "forget")
    /\ UNCHANGED <<tables, registry, hubvars, locked, snap, frames, ends, req, panics, marks>>

\* ReadMessage fails; under the lock, c.hubs is read and set to nil.
TakeHubs(c) ==
    /\ Standing(c, "live") /\ ~open[c] /\ c \notin locked
    /\ hubs' = hubs \ {c}
    /\ nilled' = nilled \union {c}
    /\ Goto(c, IF c \in hubs THEN "unregister" ELSE "forget")
    /\ UNCHANGED <<tables, registry, hubvars, locked, snap, frames, ends, req, panics, marks>>

\* h.unregister <- c.
LeaveHub(c) ==
    /\ Standing(c, "unregister")
    /\ subscribed' = subscribed \ {c}
    /\ Goto(c, "forget")
    /\ UNCHANGED <<tables, registry, feed, entries, snap, frames, ends, req, panics, marks>>

\* clientRegistry.remove.
Forget(c) ==
    /\ Standing(c, "forget")
    /\ registry' = registry \ {c}
    /\ Goto(c, "close")
    /\ UNCHANGED <<tables, hubvars, entries, snap, frames, ends, req, panics, marks>>

\* close(c.send).
CloseSend(c) ==
    /\ Standing(c, "close")
    /\ closed' = closed \union {c}
    /\ Goto(c, "gone")
    /\ UNCHANGED <<tables, registry, hubvars, entries, snap, frames, open, req, panics, marks>>

-----------------------------------------------------------------------------
(* The hub.                                                                *)

\* A fan-out: whoever has no room is dropped and has its connection closed.
\* A send to a closed channel ends the hub's goroutine and with it the process.
Fanout(kind) ==
    IF subscribed \intersect closed # {}
    THEN /\ panics' = panics \union {"hub"}
         /\ UNCHANGED <<subscribed, queued, lists, open>>
    ELSE /\ subscribed' = {c \in subscribed : HasRoom(c)}
         /\ Put(subscribed', kind)
         /\ open' = [c \in Conn |-> open[c] /\ c \notin subscribed \ subscribed']
         /\ UNCHANGED panics

\* An event somebody published.
HubSends ==
    /\ Alive /\ subscribed # {}
    /\ Fanout("message")
    /\ UNCHANGED <<tables, registry, feed, entries, place, early, missed, closed, req, marks>>

\* The room_deleted event of emitRoomDeleted.
HubSendsDeletion ==
    /\ Alive /\ feed
    /\ feed' = FALSE
    /\ Fanout("room_deleted")
    /\ UNCHANGED <<tables, registry, entries, place, early, missed, closed, req, marks>>

-----------------------------------------------------------------------------
(* The bridge.  A walk is forUser: the registry is copied under its lock   *)
(* and the copy is visited one by one, in any order, without the lock.     *)

Doing(q, stage) == Alive /\ req[q].stage = stage

Become(q, stage, walk, c) ==
    req' = [req EXCEPT ![q] = [stage |-> stage, verb |-> @.verb, walk |-> walk, conn |-> c]]

\* The verbs that make the user a member.
Joining == {"create", "join"}

\* A connection that comes up with the room in its snapshot is about to attach.
ComingUp == \E c \in Conn : snap[c] /\ at[c] \in {"push", "attach", "record"}

\* A request that has committed and is about to tell the connections.
Commit(q, verb) ==
    /\ Alive /\ verb \in Verbs /\ req[q] = Idle
    /\ req' = [req EXCEPT ![q] = [Idle EXCEPT !.stage = "committed", !.verb = verb]]
    /\ crossed' = \/ crossed
                  \/ \E p \in Request : /\ req[p] # Idle
                                       /\ (req[p].verb \in Joining) # (verb \in Joining)
                  \/ verb \notin Joining /\ ComingUp
    /\ UNCHANGED <<registry, hubvars, entries, place, frames, ends, panics, failed>>

\* handleCreateRoom commits: a new room with the user in it.
CreateCommit(q) ==
    /\ Commit(q, "create")
    /\ room = "none"
    /\ room' = "there" /\ member' = TRUE

\* addMemberWithCap commits, also for who is a member already.
JoinCommit(q) ==
    /\ Commit(q, "join")
    /\ room = "there"
    /\ member' = TRUE /\ UNCHANGED room

\* removeMember commits.
LeaveCommit(q) ==
    /\ Commit(q, "leave")
    /\ member
    /\ member' = FALSE /\ UNCHANGED room

\* deleteRoom commits, and the member row goes with the room.
DeleteCommit(q) ==
    /\ Commit(q, "delete")
    /\ member
    /\ room' = "deleted" /\ member' = FALSE

\* A joiner is attached and then told (emitMemberJoin, emitRoomCreated), a
\* leaver is told and then detached (emitMemberLeave).
Walks(verb) == IF verb \in Joining THEN <<"committed", "attach", "tell">>
                                   ELSE <<"committed", "tell", "detach">>

Done(q) == req' = [req EXCEPT ![q] = Idle]
\* A walk has visited everybody; the next one copies the registry again.  A
\* deletion has no walks.
NextWalk(q) ==
    /\ Alive /\ req[q].walk = {} /\ req[q].verb # "delete"
    /\ LET walks == Walks(req[q].verb)
       IN \/ \E i \in 1 .. 2 : /\ req[q].stage = walks[i]
                              /\ Become(q, walks[i + 1], registry, NoConn)
          \/ req[q].stage = walks[3] /\ Done(q)
    /\ UNCHANGED <<tables, registry, hubvars, entries, place, frames, ends, panics, marks>>

\* emitMemberJoin reads the joiner's users row first and gives up without it;
\* without the rooms row it does not tell.
ReadFails(q) ==
    /\ Alive /\ req[q].verb = "join" /\ req[q].walk = {}
    /\ \/ req[q].stage = "committed" /\ "user" \in Faults /\ failed' = failed \union {"user"}
       \/ req[q].stage = "attach" /\ "room" \in Faults /\ failed' = failed \union {"room"}
    /\ Done(q)
    /\ UNCHANGED <<tables, registry, hubvars, entries, place, frames, ends, panics, crossed>>

\* emitRoomDeleted: notifyRoom hands the event to the hub, which is there at
\* least as long as it has clients.  Nobody is detached.
AnnounceDeletion(q) ==
    /\ Doing(q, "committed") /\ req[q].verb = "delete"
    /\ feed' \in IF subscribed = {} THEN BOOLEAN ELSE {TRUE}
    /\ Done(q)
    /\ UNCHANGED <<tables, registry, subscribed, entries, place, frames, ends, panics, marks>>

\* A walk stays at a stage with one connection fewer to visit.
Visited(q, c, stage) == Become(q, stage, req[q].walk \ {c}, NoConn)

\* attachUserToRoom looks under the lock whether the connection has the room.
CheckAttached(q, c) ==
    /\ Doing(q, "attach") /\ c \in req[q].walk /\ c \notin locked
    /\ IF c \in hubs THEN Visited(q, c, "attach")
                     ELSE Become(q, "subscribe", req[q].walk \ {c}, c)
    /\ UNCHANGED <<tables, registry, hubvars, entries, place, frames, ends, panics, marks>>

\* manager.attachClient.
Subscribe(q) ==
    /\ Doing(q, "subscribe")
    /\ subscribed' = subscribed \union {req[q].conn}
    /\ Become(q, "record", req[q].walk, req[q].conn)
    /\ UNCHANGED <<tables, registry, feed, entries, place, frames, ends, panics, marks>>

\* c.hubs[roomID] = h under the lock.  When readPump has made the map nil the
\* assignment panics: net/http recovers, the rest of the request is lost and
\* the mutex stays locked.
Record(q) ==
    /\ Doing(q, "record") /\ req[q].conn \notin locked
    /\ IF req[q].conn \in nilled
       THEN /\ locked' = locked \union {req[q].conn}
            /\ panics' = panics \union {"walk"}
            /\ Done(q)
            /\ UNCHANGED hubs
       ELSE /\ hubs' = hubs \union {req[q].conn}
            /\ Visited(q, req[q].conn, "attach")
            /\ UNCHANGED <<locked, panics>>
    /\ UNCHANGED <<tables, registry, hubvars, nilled, place, frames, ends, marks>>

\* The frame of notifyUser.
Frame(q) == IF req[q].verb = "leave" THEN "room_deleted" ELSE "room_created"

\* The snapshot has yet to be put in.
NoteEarly(c) ==
    early' = IF at[c] \in {"snapshot", "push"} THEN early \union {c} ELSE early

\* A mutant of the next definition: notifyUser waits for room.
TellBlocks(q, c) ==
    /\ Doing(q, "tell") /\ c \in req[q].walk
    /\ c \notin closed /\ HasRoom(c)
    /\ Put({c}, Frame(q))
    /\ NoteEarly(c)
    /\ Visited(q, c, "tell")
    /\ UNCHANGED <<tables, registry, hubvars, entries, place, missed, ends, panics, marks>>

\* notifyUser: the frame is put in, or dropped when there is no room, and
\* panics when readPump has closed the channel.
Tell(q, c) ==
    /\ Doing(q, "tell") /\ c \in req[q].walk
    /\ IF c \in closed
       THEN panics' = panics \union {"walk"} /\ Done(q) /\ UNCHANGED frames
       ELSE /\ Visited(q, c, "tell")
            /\ UNCHANGED panics
            /\ IF HasRoom(c)
               THEN Put({c}, Frame(q)) /\ NoteEarly(c) /\ UNCHANGED missed
               ELSE missed' = missed \union {c} /\ UNCHANGED <<queued, lists, early>>
    /\ UNCHANGED <<tables, registry, hubvars, entries, place, ends, marks>>

\* detachUserFromRoom takes the room out of c.hubs under the lock ...
TakeEntry(q, c) ==
    /\ Doing(q, "detach") /\ c \in req[q].walk /\ c \notin locked
    /\ hubs' = hubs \ {c}
    /\ IF c \in hubs THEN Become(q, "unsubscribe", req[q].walk \ {c}, c)
                     ELSE Visited(q, c, "detach")
    /\ UNCHANGED <<tables, registry, hubvars, nilled, locked, place, frames, ends, panics, marks>>

\* A mutant of the next definition: the hub is not told.
UnsubscribeNothing(q) ==
    /\ Doing(q, "unsubscribe")
    /\ Visited(q, req[q].conn, "detach")
    /\ UNCHANGED <<tables, registry, hubvars, entries, place, frames, ends, panics, marks>>

\* ... and then has the hub forget the connection.
Unsubscribe(q) ==
    /\ Doing(q, "unsubscribe")
    /\ subscribed' = subscribed \ {req[q].conn}
    /\ Visited(q, req[q].conn, "detach")
    /\ UNCHANGED <<tables, registry, feed, entries, place, frames, ends, panics, marks>>

-----------------------------------------------------------------------------
Up(c) == RegisterClient(c) \/ ReadRooms(c) \/ PushSnapshot(c) \/ AttachRoom(c) \/ RecordHub(c)
Down(c) == TakeHubs(c) \/ LeaveHub(c) \/ Forget(c) \/ CloseSend(c)
Commits(q) == CreateCommit(q) \/ JoinCommit(q) \/ LeaveCommit(q) \/ DeleteCommit(q)
Walk(q) == \/ NextWalk(q) \/ AnnounceDeletion(q) \/ Subscribe(q) \/ Record(q) \/ Unsubscribe(q)
           \/ \E c \in Conn : CheckAttached(q, c) \/ Tell(q, c) \/ TakeEntry(q, c)

Next ==
    \/ \E c \in Conn : Up(c) \/ Drain(c) \/ PeerGone(c) \/ Down(c)
    \/ \E q \in Request : Commits(q) \/ Walk(q) \/ ReadFails(q)
    \/ HubSends \/ HubSendsDeletion

Spec == Init /\ [][Next]_vars

-----------------------------------------------------------------------------
(* Safety.  When a leave or a deletion crosses a join of the same user, or  *)
(* a connection that is coming up, the scheduler decides what they leave   *)
(* behind (crossed); and a failed read leaves things undone.               *)

Established(c) == at[c] = "live" /\ open[c]
Quiet == panics = {} /\ ~crossed /\ \A q \in Request : req[q] = Idle

\* Whatever joins and a connection that comes up do to each other, the joiner
\* ends up in the hub: registering before the snapshot is read leaves no gap.
\* (RegisterClient before ReadRooms; the commit before attachUserToRoom.)
JoinReachesLive ==
    Quiet /\ member /\ failed \subseteq {"room"} =>
        \A c \in Conn : Established(c) => c \in subscribed /\ c \in hubs

\* Once a leave has been handled no connection of the leaver gets the room's
\* events any more.  (emitMemberLeave's detachUserFromRoom.)
LeaveDetaches ==
    Quiet /\ ~member /\ room = "there" =>
        \A c \in Conn : Established(c) => c \notin subscribed /\ c \notin hubs

\* After every join, leave and deletion a connection's client lists the room if
\* and only if its user is a member, unless a frame found no room in the channel
\* or came before the snapshot.  (attach before tell, snapshot before attach;
\* a deletion is told through the hub alone.)
ListAgrees ==
    Quiet /\ failed = {} /\ ~feed =>
        \A c \in Conn : Established(c) => lists[c] = member \/ c \in missed \/ c \in early

\* A connection whose channel is closed is in the hub only while a request is
\* about to record it or to take it out, or after that request has panicked over
\* it: readPump itself always unregisters before it closes.
ClosedLeavesHub ==
    \A c \in closed \intersect subscribed : c \in locked \/ \E q \in Request : req[q].conn = c

\* A request never waits for a connection, however slow, closing or gone: it has
\* a step to take until it is done, and each takes it further along its walks.
\* Only a mutex that a panic left locked stops it.  (The default case of
\* notifyUser; no lock is held across a send.)
RequestsProceed ==
    Alive /\ locked = {} => \A q \in Request : req[q] # Idle => ENABLED Walk(q)

-----------------------------------------------------------------------------
(* What a comment of the code says and the code does not do.               *)

\* "We snapshot the set so concurrent add/remove during iteration is safe": no
\* walk over the copy makes the hub send on a closed channel.
HubSurvives == "hub" \notin panics

=============================================================================
