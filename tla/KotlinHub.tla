----------------------------- MODULE KotlinHub -----------------------------
(***************************************************************************)
(* The hubs of one room in the Kotlin server: RoomHubManager.kt, and the   *)
(* callbacks of ChatWebSocketHandler.kt that use them.  The map is a       *)
(* ConcurrentHashMap, a hub's register, unregister and idle check hold the *)
(* hub's monitor, and a failed send removes a client without it.           *)
(*                                                                         *)
(* A session's callbacks run one after the other, so afterConnectionClosed *)
(* comes after afterConnectionEstablished has returned.  The scheduler has *)
(* one thread: at most one idle check has begun and not ended.  A check    *)
(* that has begun waits for the monitor; cancel(false) no longer stops it. *)
(* The identity of a hub nobody refers to may be used again (Fresh).       *)
(***************************************************************************)
EXTENDS Naturals, FiniteSets

CONSTANTS Session,  \* WebSocket sessions; one that has ended may come again
          Hub,      \* identities of RoomHub objects
          NoHub     \* no hub

ASSUME KotlinConstants == NoHub \notin Hub

VARIABLES exists,    \* the room's row is there
          entry,     \* hubs[roomId]
          clients,   \* RoomHub.clients
          timer,     \* RoomHub.idleTask is scheduled and has not begun
          checking,  \* the hub whose idle check the scheduler has begun
          pc,        \* how far a session's callbacks are
          hub,       \* session.attributes["hub"]
          open,      \* session.isOpen
          dropped,   \* history: a failed send took the hub's last client
          raced      \* history: a check removed the entry while a session
                     \* held a hub it had found, or an entry of another hub

vars == <<exists, entry, clients, timer, checking, pc, hub, open, dropped, raced>>

\* "admitted": roomExists answered; "found": getOrCreate returned;
\* "in": register has returned; "refused": closed by the handler itself.
Places == {"out", "admitted", "found", "in", "refused"}

\* A session is in no hub but its own.
TypeOK ==
  /\ exists \in BOOLEAN /\ raced \in BOOLEAN
  /\ entry \in Hub \cup {NoHub} /\ checking \in Hub \cup {NoHub}
  /\ clients \in [Hub -> SUBSET Session]
  /\ timer \in [Hub -> BOOLEAN] /\ dropped \in [Hub -> BOOLEAN]
  /\ pc \in [Session -> Places] /\ hub \in [Session -> Hub \cup {NoHub}]
  /\ open \in [Session -> BOOLEAN]
  /\ \A h \in Hub : \A s \in clients[h] : hub[s] = h

Init ==
  /\ exists = TRUE /\ raced = FALSE
  /\ entry = NoHub /\ checking = NoHub
  /\ clients = [h \in Hub |-> {}]
  /\ timer = [h \in Hub |-> FALSE] /\ dropped = [h \in Hub |-> FALSE]
  /\ pc = [s \in Session |-> "out"] /\ hub = [s \in Session |-> NoHub]
  /\ open = [s \in Session |-> FALSE]

(***************************************************************************)
(* afterConnectionEstablished                                              *)
(***************************************************************************)

RoomExists(s) ==
  /\ pc[s] = "out"
  /\ open' = [open EXCEPT ![s] = exists]
  /\ pc' = [pc EXCEPT ![s] = IF exists THEN "admitted" ELSE "refused"]
  /\ UNCHANGED <<exists, entry, clients, timer, checking, hub, dropped, raced>>

\* A new object: nothing in the program refers to it.
Fresh(h) ==
  /\ entry # h /\ checking # h /\ ~timer[h]
  /\ \A s \in Session : hub[s] # h

GetOrCreate(s) ==
  /\ pc[s] = "admitted"
  /\ \E h \in Hub :
        /\ IF entry = NoHub THEN Fresh(h) ELSE h = entry
        /\ entry' = h
        /\ hub' = [hub EXCEPT ![s] = h]
        /\ clients' = IF entry = NoHub THEN [clients EXCEPT ![h] = {}] ELSE clients
        /\ dropped' = IF entry = NoHub THEN [dropped EXCEPT ![h] = FALSE] ELSE dropped
  /\ pc' = [pc EXCEPT ![s] = "found"]
  /\ UNCHANGED <<exists, timer, checking, open, raced>>

Register(s) ==
  /\ pc[s] = "found"
  /\ clients' = [clients EXCEPT ![hub[s]] = @ \cup {s}]
  /\ dropped' = [dropped EXCEPT ![hub[s]] = FALSE]
  /\ pc' = [pc EXCEPT ![s] = "in"]
  /\ timer' = [timer EXCEPT ![hub[s]] = FALSE]
  /\ UNCHANGED <<exists, entry, checking, hub, open, raced>>

(***************************************************************************)
(* The end of a session: its peer goes away, or a send to it fails in      *)
(* somebody's broadcast, which removes it and closes it.                   *)
(***************************************************************************)

PeerGone(s) ==
  /\ open[s]
  /\ open' = [open EXCEPT ![s] = FALSE]
  /\ UNCHANGED <<exists, entry, clients, timer, checking, pc, hub, dropped, raced>>

SendFails(s) ==
  /\ open[s] /\ hub[s] # NoHub /\ s \in clients[hub[s]]
  /\ open' = [open EXCEPT ![s] = FALSE]
  /\ clients' = [clients EXCEPT ![hub[s]] = @ \ {s}]
  /\ dropped' = [dropped EXCEPT ![hub[s]] = clients[hub[s]] = {s}]
  /\ UNCHANGED <<exists, entry, timer, checking, pc, hub, raced>>

\* afterConnectionClosed; the session object is gone with it.
Ended(s) ==
  /\ pc' = [pc EXCEPT ![s] = "out"]
  /\ hub' = [hub EXCEPT ![s] = NoHub]

\* Mutant of Unregister: the session stays in the hub.
UnregisterForgotten(s) ==
  /\ pc[s] = "in" /\ ~open[s]
  /\ Ended(s)
  /\ UNCHANGED <<exists, entry, clients, timer, checking, open, dropped, raced>>

\* Mutant of Unregister: no check is scheduled for the emptied hub.
UnregisterUntimed(s) ==
  /\ pc[s] = "in" /\ ~open[s]
  /\ clients' = [clients EXCEPT ![hub[s]] = @ \ {s}]
  /\ Ended(s)
  /\ UNCHANGED <<exists, entry, timer, checking, open, dropped, raced>>

Unregister(s) ==
  /\ pc[s] = "in" /\ ~open[s]
  /\ clients' = [clients EXCEPT ![hub[s]] = @ \ {s}]
  /\ timer' = [timer EXCEPT ![hub[s]] = @ \/ clients[hub[s]] = {s}]
  /\ Ended(s)
  /\ UNCHANGED <<exists, entry, checking, open, dropped, raced>>

Refused(s) ==
  /\ pc[s] = "refused"
  /\ pc' = [pc EXCEPT ![s] = "out"]
  /\ UNCHANGED <<exists, entry, clients, timer, checking, hub, open, dropped, raced>>

(***************************************************************************)
(* The idle check: scheduled, begun, and done under the hub's monitor.     *)
(***************************************************************************)

IdleDue(h) ==
  /\ timer[h] /\ checking = NoHub
  /\ timer' = [timer EXCEPT ![h] = FALSE]
  /\ checking' = h
  /\ UNCHANGED <<exists, entry, clients, pc, hub, open, dropped, raced>>

\* Mutant of IdleCheck: what the check is for is not looked at.
IdleCheckAlways(h) ==
  /\ checking = h
  /\ checking' = NoHub
  /\ entry' = NoHub
  /\ raced' = (raced \/ entry # h)
  /\ UNCHANGED <<exists, clients, timer, pc, hub, open, dropped>>

IdleCheck(h) ==
  /\ checking = h
  /\ checking' = NoHub
  /\ entry' = IF clients[h] = {} THEN NoHub ELSE entry
  /\ raced' = (raced \/ /\ clients[h] = {}
                        /\ \/ entry \notin {h, NoHub}
                           \/ \E s \in Session : pc[s] = "found")
  /\ UNCHANGED <<exists, clients, timer, pc, hub, open, dropped>>

\* RoomController.delete: the owner of a room never changes, so the check
\* before the DELETE cannot be stale; nobody is told.
DeleteRoom ==
  /\ exists
  /\ exists' = FALSE
  /\ UNCHANGED <<entry, clients, timer, checking, pc, hub, open, dropped, raced>>

Callbacks(s) ==
  \/ RoomExists(s) \/ GetOrCreate(s) \/ Register(s)
  \/ PeerGone(s) \/ SendFails(s) \/ Unregister(s) \/ Refused(s)

Next ==
  \/ \E s \in Session : Callbacks(s)
  \/ \E h \in Hub : IdleDue(h) \/ IdleCheck(h)
  \/ DeleteRoom

Spec == Init /\ [][Next]_vars

(***************************************************************************)
(* Properties                                                              *)
(***************************************************************************)

\* The room's sessions are in one hub, the one the next session will find,
\* unless an idle check has overlapped with a session that had found its hub
\* and not registered yet: computeIfAbsent and register are two steps, and
\* the check removes by key (RoomHubManager.kt 23-32, 48-65).
SplitOnlyByRace ==
  ~raced => \A h \in Hub : clients[h] # {} => entry = h

\* The hub in the map that has no session has a check to come, or somebody
\* about to register, or lost its last session to a failed send, which
\* schedules nothing (RoomHubManager.kt 57-68, 85-95).
CheckToCome ==
  /\ entry # NoHub
  /\ clients[entry] = {}
  => \/ timer[entry] \/ checking = entry \/ dropped[entry]
     \/ \E s \in Session : hub[s] = entry /\ pc[s] = "found"

\* What the README says of RoomHubManager.kt, a hub per room: no two hubs of
\* the room have sessions.
OneHub ==
  \A g, h \in Hub : clients[g] # {} /\ clients[h] # {} => g = h
=============================================================================
