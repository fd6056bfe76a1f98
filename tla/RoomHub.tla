------------------------------ MODULE RoomHub ------------------------------
(***************************************************************************)
(* The hub manager of server-go/main.go for ONE key of its sync.Map: the   *)
(* hubs that serve a room one after the other, the goroutines that attach  *)
(* connections to the room and detach them, the goroutines that publish to *)
(* it, and the idle teardown that races with all of them.                  *)
(*                                                                         *)
(* A hub identity is an address: it may be used again for a new hub once   *)
(* nothing refers to the old one, as the garbage collector allows.  A      *)
(* client is a *Client; when its connection is gone the identity stands    *)
(* for the user's next connection.                                         *)
(***************************************************************************)
EXTENDS Naturals, Sequences, FiniteSets

CONSTANTS
    Client,        \* *Client values
    Hub,           \* *RoomHub values
    Sender,        \* goroutines that publish to the room
    Message,       \* encoded events
    RoomIDs,       \* the rooms looked at; a behaviour is about one of them
    LobbyRoomID,   \* the permanent lobby
    BroadcastCap,  \* capacity of RoomHub.broadcast (256 in the code)
    SendCap,       \* capacity of Client.send (256 in the code)
    NoHub          \* "no entry", a nil *RoomHub

ASSUME HubConstants ==
    /\ NoHub \notin Hub
    /\ BroadcastCap \in Nat \ {0}
    /\ SendCap \in Nat \ {0}

VARIABLES
    current,   \* the entry of HubManager.hubs for roomID
    status,    \* each hub: installed, running, removed (from the map), done
    clients,   \* RoomHub.clients
    armed,     \* whether the hub's idle timer is running
    queue,     \* RoomHub.broadcast
    pc,        \* where the goroutine attaching or detaching a client stands
    hub,       \* the hub that goroutine holds; while attached, c.hubs[roomID]
    send,      \* the events of the room in Client.send
    open,      \* whether the client's connection is open
    holds,     \* the hub a sender has looked up and not published to yet
    roomID     \* the key all this is about

hubvars == <<current, status, clients, armed, queue>>
clientvars == <<pc, hub, send, open>>
vars == <<current, status, clients, armed, queue, pc, hub, send, open, holds, roomID>>

\* An address without a hub counts as one whose hub is done.
Statuses == {"installed", "running", "removed", "done"}
Places == {"out", "load", "store", "start", "register", "attached", "unregister"}
Attaching == {"load", "store", "start", "register"}

\* A type invariant: every variable stays in the domain the Go types give it,
\* and no channel ever holds more than its capacity.
TypeOK ==
    /\ current \in Hub \union {NoHub}
    /\ status \in [Hub -> Statuses]
    /\ clients \in [Hub -> SUBSET Client]
    /\ armed \in [Hub -> BOOLEAN]
    /\ queue \in [Hub -> Seq(Message)]
    /\ \A h \in Hub : Len(queue[h]) <= BroadcastCap
    /\ pc \in [Client -> Places]
    /\ hub \in [Client -> Hub \union {NoHub}]
    /\ send \in [Client -> Seq(Message)]
    /\ \A c \in Client : Len(send[c]) <= SendCap
    /\ open \in [Client -> BOOLEAN]
    /\ holds \in [Sender -> Hub \union {NoHub}]
    /\ roomID \in RoomIDs

Init ==
    /\ current = NoHub
    /\ status = [h \in Hub |-> "done"]
    /\ clients = [h \in Hub |-> {}]
    /\ armed = [h \in Hub |-> FALSE]
    /\ queue = [h \in Hub |-> <<>>]
    /\ pc = [c \in Client |-> "out"]
    /\ hub = [c \in Client |-> NoHub]
    /\ send = [c \in Client |-> <<>>]
    /\ open = [c \in Client |-> FALSE]
    /\ holds = [s \in Sender |-> NoHub]
    /\ roomID \in RoomIDs

\* A mutant of the next definition: the lobby is treated like any room.
IdleTeardownAll == TRUE

\* Every room but the lobby loses its hub after an idle hour.
IdleTeardown == roomID # LobbyRoomID

Goto(c, place) == pc' = [pc EXCEPT ![c] = place]
Hold(c, h) == hub' = [hub EXCEPT ![c] = h]

-----------------------------------------------------------------------------
(* Connections.                                                            *)

\* handleWebSocket: a new connection with an empty send buffer.
Connect(c) ==
    /\ pc[c] = "out" /\ ~open[c]
    /\ open' = [open EXCEPT ![c] = TRUE]
    /\ send' = [send EXCEPT ![c] = <<>>]
    /\ UNCHANGED <<pc, hub, hubvars, holds, roomID>>

\* The peer goes away or a read or write fails.
Disconnect(c) ==
    /\ open[c] /\ pc[c] # "unregister"
    /\ open' = [open EXCEPT ![c] = FALSE]
    /\ UNCHANGED <<pc, hub, send, hubvars, holds, roomID>>

\* writePump takes one event off the send channel.
Drain(c) ==
    /\ open[c] /\ send[c] # <<>>
    /\ send' = [send EXCEPT ![c] = Tail(@)]
    /\ UNCHANGED <<pc, hub, open, hubvars, holds, roomID>>

-----------------------------------------------------------------------------
(* attachClient, one step per access to the shared map or to a hub.        *)

BeginAttach(c) ==
    /\ pc[c] = "out" /\ open[c]
    /\ Goto(c, "load")
    /\ UNCHANGED <<hub, send, open, hubvars, holds, roomID>>

\* Fast path: m.hubs.Load(roomID).
Load(c) ==
    /\ pc[c] = "load"
    /\ Hold(c, current)
    /\ Goto(c, IF current = NoHub THEN "store" ELSE "register")
    /\ UNCHANGED <<send, open, hubvars, holds, roomID>>

\* An address nothing refers to, where newRoomHub may put a hub.
Unreferenced(h) ==
    /\ status[h] = "done"
    /\ \A c \in Client : hub[c] # h
    /\ \A s \in Sender : holds[s] # h

InstallFresh(h) ==
    /\ current' = h
    /\ status' = [status EXCEPT ![h] = "installed"]
    /\ clients' = [clients EXCEPT ![h] = {}]
    /\ armed' = [armed EXCEPT ![h] = FALSE]
    /\ queue' = [queue EXCEPT ![h] = <<>>]

\* A mutant of the next definition: Store instead of LoadOrStore.
StoreAlways(c) ==
    /\ pc[c] = "store"
    /\ \E h \in Hub :
          /\ Unreferenced(h)
          /\ InstallFresh(h)
          /\ Hold(c, h)
    /\ Goto(c, "start")
    /\ UNCHANGED <<send, open, holds, roomID>>

\* Slow path: newRoomHub and m.hubs.LoadOrStore.
LoadOrStore(c) ==
    /\ pc[c] = "store"
    /\ \/ /\ current # NoHub
          /\ Hold(c, current)
          /\ Goto(c, "register")
          /\ UNCHANGED hubvars
       \/ /\ current = NoHub
          /\ \E h \in Hub :
                /\ Unreferenced(h)
                /\ InstallFresh(h)
                /\ Hold(c, h)
          /\ Goto(c, "start")
    /\ UNCHANGED <<send, open, holds, roomID>>

\* A mutant of the next definition: run forgets to start the idle timer.
StartRunUnarmed(c) ==
    /\ pc[c] = "start"
    /\ status' = [status EXCEPT ![hub[c]] = "running"]
    /\ Goto(c, "register")
    /\ UNCHANGED <<current, clients, armed, queue, hub, send, open, holds, roomID>>

\* go h.run(): the idle timer is created, and stopped at once for the lobby.
StartRun(c) ==
    /\ pc[c] = "start"
    /\ status' = [status EXCEPT ![hub[c]] = "running"]
    /\ armed' = [armed EXCEPT ![hub[c]] = IdleTeardown]
    /\ Goto(c, "register")
    /\ UNCHANGED <<current, clients, queue, hub, send, open, holds, roomID>>

\* tryRegister, h.register <- c, with the register case of run.
Register(c) ==
    LET h == hub[c] IN
    /\ pc[c] = "register" /\ status[h] = "running"
    /\ clients' = [clients EXCEPT ![h] = @ \union {c}]
    /\ armed' = [armed EXCEPT ![h] = @ /\ ~IdleTeardown]
    /\ Goto(c, "attached")
    /\ UNCHANGED <<current, status, queue, hub, send, open, holds, roomID>>

\* Mutants of the next definition: tryRegister answers true on a hub that is
\* done, or does not watch done at all.
RegisterDoneTrue(c) ==
    /\ pc[c] = "register" /\ status[hub[c]] = "done"
    /\ Goto(c, "attached")
    /\ UNCHANGED <<hub, send, open, hubvars, holds, roomID>>
RegisterDoneBlocks(c) == FALSE

\* tryRegister, <-h.done: attachClient starts over.
RegisterDone(c) ==
    /\ pc[c] = "register" /\ status[hub[c]] = "done"
    /\ Hold(c, NoHub)
    /\ Goto(c, "load")
    /\ UNCHANGED <<send, open, hubvars, holds, roomID>>

-----------------------------------------------------------------------------
(* Detaching: detachUserFromRoom, or the exit of readPump.                 *)

\* The entry leaves c.hubs before the hub hears of it.  An exit of readPump
\* also ends the connection.
Leave(c) ==
    /\ pc[c] = "attached"
    /\ Goto(c, "unregister")
    /\ UNCHANGED <<hub, send, open, hubvars, holds, roomID>>

\* A mutant of the next definition: no idleTimer.Reset.
UnregisterNoReset(c) ==
    LET h == hub[c] IN
    /\ pc[c] = "unregister" /\ status[h] = "running"
    /\ clients' = [clients EXCEPT ![h] = @ \ {c}]
    /\ Hold(c, NoHub)
    /\ Goto(c, "out")
    /\ UNCHANGED <<current, status, armed, queue, send, open, holds, roomID>>

\* h.unregister <- c, with the unregister case of run.
Unregister(c) ==
    LET h == hub[c] IN
    /\ pc[c] = "unregister" /\ status[h] = "running"
    /\ clients' = [clients EXCEPT ![h] = @ \ {c}]
    /\ armed' = [armed EXCEPT ![h] = @ \/ (clients'[h] = {} /\ IdleTeardown)]
    /\ Hold(c, NoHub)
    /\ Goto(c, "out")
    /\ UNCHANGED <<current, status, queue, send, open, holds, roomID>>

\* <-h.done.
UnregisterDone(c) ==
    /\ pc[c] = "unregister" /\ status[hub[c]] = "done"
    /\ Hold(c, NoHub)
    /\ Goto(c, "out")
    /\ UNCHANGED <<send, open, hubvars, holds, roomID>>

-----------------------------------------------------------------------------
(* Publishing.                                                             *)

\* handleIncomingMsg takes the hub out of the sending client's own c.hubs.
HandleIncomingMsg(s) ==
    /\ holds[s] = NoHub
    /\ \E c \in Client :
          /\ pc[c] = "attached"
          /\ holds' = [holds EXCEPT ![s] = hub[c]]
    /\ UNCHANGED <<hubvars, clientvars, roomID>>

\* notifyRoom takes it out of the manager's map; no hub, nothing to do.
NotifyRoom(s) ==
    /\ holds[s] = NoHub /\ current # NoHub
    /\ holds' = [holds EXCEPT ![s] = current]
    /\ UNCHANGED <<hubvars, clientvars, roomID>>

\* h.broadcast <- data: the channel is buffered, so this does not need run,
\* and it succeeds on a dead hub as well.
Publish(s) ==
    LET h == holds[s] IN
    /\ h # NoHub /\ Len(queue[h]) < BroadcastCap
    /\ \E m \in Message : queue' = [queue EXCEPT ![h] = Append(@, m)]
    /\ holds' = [holds EXCEPT ![s] = NoHub]
    /\ UNCHANGED <<current, status, clients, armed, clientvars, roomID>>

\* <-h.done.
PublishDone(s) ==
    /\ holds[s] # NoHub /\ status[holds[s]] = "done"
    /\ holds' = [holds EXCEPT ![s] = NoHub]
    /\ UNCHANGED <<hubvars, clientvars, roomID>>

-----------------------------------------------------------------------------
(* The rest of run's select.                                               *)

\* A mutant of the next definition: one more event than the buffer holds.
SlowOffByOne(h) == {c \in clients[h] : Len(send[c]) > SendCap}

\* The clients whose send channel events of this room fill by themselves.
Slow(h) == {c \in clients[h] : Len(send[c]) >= SendCap}

\* A mutant of the next definition: a slow client misses the event and stays.
DeliverKeepsSlow(h) ==
    /\ status[h] = "running" /\ queue[h] # <<>>
    /\ queue' = [queue EXCEPT ![h] = Tail(@)]
    /\ send' = [c \in Client |->
                   IF c \in clients[h] \ Slow(h)
                   THEN Append(send[c], Head(queue[h])) ELSE send[c]]
    /\ UNCHANGED <<current, status, clients, armed, pc, hub, open, holds, roomID>>

\* The broadcast case: every client gets the event or is dropped and has its
\* connection closed.  The send channel also carries the snapshot, errors and
\* the notifications of the user's other rooms, so a client may be full with
\* fewer events of this room in it.  The idle timer is not touched.
Deliver(h) ==
    /\ status[h] = "running" /\ queue[h] # <<>>
    /\ queue' = [queue EXCEPT ![h] = Tail(@)]
    /\ \E full \in SUBSET clients[h] :
          /\ Slow(h) \subseteq full
          /\ clients' = [clients EXCEPT ![h] = @ \ full]
          /\ send' = [c \in Client |->
                         IF c \in clients[h] \ full
                         THEN Append(send[c], Head(queue[h])) ELSE send[c]]
          /\ open' = [c \in Client |-> open[c] /\ c \notin full]
    /\ UNCHANGED <<current, status, armed, pc, hub, holds, roomID>>

\* The idle timer fires: CompareAndDelete if nobody is there, and a new timer
\* if the entry was not this hub's any more.
IdleFire(h) ==
    /\ status[h] = "running" /\ armed[h]
    /\ IF IdleTeardown /\ clients[h] = {} /\ current = h
       THEN /\ current' = NoHub
            /\ status' = [status EXCEPT ![h] = "removed"]
            /\ armed' = [armed EXCEPT ![h] = FALSE]
       ELSE /\ armed' = [armed EXCEPT ![h] = clients[h] = {} /\ IdleTeardown]
            /\ UNCHANGED <<current, status>>
    /\ UNCHANGED <<clients, queue, clientvars, holds, roomID>>

\* close(h.done); return.
CloseDone(h) ==
    /\ status[h] = "removed"
    /\ status' = [status EXCEPT ![h] = "done"]
    /\ UNCHANGED <<current, clients, armed, queue, clientvars, holds, roomID>>

-----------------------------------------------------------------------------
Attach(c) == \/ BeginAttach(c) \/ Load(c) \/ LoadOrStore(c) \/ StartRun(c)
             \/ Register(c) \/ RegisterDone(c)

Detach(c) == Leave(c) \/ Unregister(c) \/ UnregisterDone(c)

Send(s) == HandleIncomingMsg(s) \/ NotifyRoom(s) \/ Publish(s) \/ PublishDone(s)

Run(h) == Deliver(h) \/ IdleFire(h) \/ CloseDone(h)

Next ==
    \/ \E c \in Client :
          Connect(c) \/ Disconnect(c) \/ Drain(c) \/ Attach(c) \/ Detach(c)
    \/ \E s \in Sender : Send(s)
    \/ \E h \in Hub : Run(h)

Spec == Init /\ [][Next]_vars

(* Goroutines that can run do run.  A select chooses uniformly among its    *)
(* ready cases and a Go channel serves blocked senders in order, so a case  *)
(* that is ready again and again is taken (SF).  Nothing forces a peer to   *)
(* connect, to read or to leave; a closed connection does end readPump.     *)
(* Memory for a new hub is always found in the code, while the finite set   *)
(* Hub may be used up for a moment: hence SF for LoadOrStore.               *)

\* The goroutine attaching or detaching a client has a step to take.
Proceed(c) == \/ Load(c) \/ StartRun(c) \/ RegisterDone(c) \/ (~open[c] /\ Leave(c))
              \/ Unregister(c) \/ UnregisterDone(c)

Fairness ==
    /\ \A c \in Client :
          WF_vars(Proceed(c)) /\ SF_vars(LoadOrStore(c)) /\ SF_vars(Register(c))
    /\ \A s \in Sender : SF_vars(Publish(s)) /\ WF_vars(PublishDone(s))
    /\ \A h \in Hub : WF_vars(Deliver(h) \/ CloseDone(h)) /\ WF_vars(IdleFire(h))

FairSpec == Spec /\ Fairness

-----------------------------------------------------------------------------
(* Safety.                                                                 *)

\* At no time do two hubs serve the room: a hub with clients is the one the
\* manager's map names, and its run loop is alive.  A teardown that lost the
\* race with a registration would split the room in two.
OneHub ==
    \A h \in Hub : clients[h] # {} => current = h /\ status[h] = "running"

\* Whoever attachClient has returned to sits, as long as its connection is
\* open, in the hub everybody else will find: "callers never see a dying hub".
AttachedServed ==
    \A c \in Client :
        pc[c] = "attached" /\ open[c] => hub[c] = current /\ c \in clients[hub[c]]

\* A group room's hub without clients is on its way out: the idle timer runs,
\* or a client the broadcast loop dropped has yet to unregister and start it.
IdleTimerArmed ==
    \A h \in Hub :
        status[h] = "running" /\ clients[h] = {} /\ IdleTeardown =>
            armed[h] \/ \E c \in Client :
                           hub[c] = h /\ pc[c] \in {"attached", "unregister"}

\* Once the lobby has a hub it keeps that very hub.
LobbyPermanent ==
    [][roomID = LobbyRoomID /\ current # NoHub => current' = current]_vars

\* The succession of hubs seen as one room: the subscribers and the feed are
\* those of the hub the map names.
Subs == IF current = NoHub THEN {} ELSE clients[current]
Feed == IF current = NoHub THEN <<>> ELSE queue[current]
Fanout == INSTANCE RoomFanout WITH subs <- Subs, feed <- Feed, inbox <- send,
                                   FeedCap <- BroadcastCap, InboxCap <- SendCap

\* Every step of the code is a step of RoomFanout or invisible there: no
\* subscriber misses, repeats or reorders an event while it is subscribed.
RefinesFanout == Fanout!Spec

-----------------------------------------------------------------------------
(* Liveness.                                                               *)

\* Nobody stays blocked on a hub, also when it dies between the lookup and the
\* send: attachClient returns however often it meets hubs in teardown, and so
\* does every unregister and every publication.
CallsReturn ==
    /\ \A c \in Client :
          pc[c] \in Attaching \union {"unregister"} ~> pc[c] \in {"attached", "out"}
    /\ \A s \in Sender : holds[s] # NoHub ~> holds[s] = NoHub

\* A group room's hub nobody is attached to does not stay: again and again the
\* room has no hub or somebody in it.
EmptyHubReclaimed ==
    IdleTeardown => []<>(current = NoHub \/ clients[current] # {})
=============================================================================
