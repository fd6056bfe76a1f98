-------------------------- MODULE WsSessionProofs ---------------------------
(***************************************************************************)
(* Theorems of WsSession.                                                  *)
(*                                                                         *)
(* JoinReachesLive and its like speak of a quiet system; the invariant Inv *)
(* says, of every state on the way there, who still has to do what is not  *)
(* done.  Typed: the types, with what each place says of a request and of  *)
(* a connection.  OneKind: unless requests crossed, whoever is at work     *)
(* wants what the member row says.  Wired: c.hubs and the hub agree.       *)
(* Reach, Detached: a connection that is not as the row says is still to   *)
(* be visited.  Told*: the same of what its client lists, for a member,    *)
(* for a stranger, and for the client of a room that is gone, which is     *)
(* told through the hub alone.                                             *)
(***************************************************************************)
EXTENDS WsSession, TLAPS

-----------------------------------------------------------------------------
(* The invariant.                                                          *)

\* readPump has taken c.hubs.
Ended == {"unregister", "forget", "close", "gone"}
Busy(q) == req[q].stage # "idle"
\* The snapshot listed the room and the connection is on its way into the hub.
Coming(c) == snap[c] /\ at[c] \in {"push", "attach", "record"}

\* The request goroutines but q do nothing.
OthersKeep(q) == \A p \in Request \ {q} : req'[p] = req[p]

\* A request goroutine.
RequestRecord == [stage : Stages, verb : AllVerbs, walk : SUBSET Conn, conn : Conn \union {NoConn}]

\* What the place of a request says of it.
RequestsOK ==
    \A q \in Request :
        /\ req[q].stage = "idle" => req[q] = Idle
        /\ req[q].stage \in {"subscribe", "record", "unsubscribe"} <=> req[q].conn \in Conn
        /\ req[q].stage \in {"attach", "subscribe", "record"} => req[q].verb \in Joining
        /\ req[q].stage \in {"detach", "unsubscribe"} => req[q].verb = "leave"
        /\ Busy(q) /\ req[q].verb = "delete" => req[q].stage = "committed" /\ room = "deleted"
        /\ \A c \in req[q].walk : at[c] # "new"
        /\ req[q].conn \in Conn => at[req[q].conn] # "new"

\* What the place of a connection says of it; and whoever is in the hub without
\* an entry in c.hubs has somebody who is seeing to it.
ConnsOK ==
    \A c \in Conn :
        /\ c \in closed => at[c] = "gone"
        /\ c \in nilled <=> at[c] \in Ended
        /\ c \in nilled => c \notin hubs /\ ~open[c]
        /\ c \in registry <=> at[c] \notin {"new", "close", "gone"}
        /\ at[c] = "new" => c \notin hubs /\ c \notin subscribed /\ ~open[c] /\ ~lists[c]
        /\ at[c] \in {"new", "snapshot"} => ~snap[c]
        /\ at[c] \in {"snapshot", "push"} => (lists[c] => c \in early)
        /\ at[c] \in {"attach", "record"} => snap[c]
        /\ c \in locked => "walk" \in panics
        /\ c \in subscribed => \/ c \in hubs \/ at[c] \in {"record", "unregister"} \/ c \in locked
                               \/ \E q \in Request : req[q].conn = c

\* A member row has its room, and only a deletion leaves an event.
RowsOK == (member => room = "there") /\ (feed => room = "deleted")

Typed == TypeOK /\ RequestsOK /\ ConnsOK /\ RowsOK

\* The requests at work all want what the member row says.
OneKind ==
    ~crossed =>
        /\ member => \A q \in Request : Busy(q) => req[q].verb \in Joining
        /\ ~member => /\ \A q \in Request : Busy(q) => req[q].verb \notin Joining
                      /\ \A c \in Conn : ~Coming(c)
        /\ room = "deleted" => \A q \in Request : Busy(q) => req[q].verb = "delete"

Calm == ~crossed /\ panics = {}

\* c.hubs has no hub that does not have the connection.
Wired ==
    Calm =>
        /\ \A c \in Conn : open[c] /\ (c \in hubs \/ at[c] = "record") => c \in subscribed
        /\ \A q \in Request :
              /\ req[q].stage = "record" /\ open[req[q].conn] => req[q].conn \in subscribed
              /\ req[q].stage = "unsubscribe" => req[q].conn \notin hubs

\* Somebody has yet to attach the connection.
ToAttach(c) ==
    \E q \in Request : /\ req[q].verb \in Joining
                       /\ \/ req[q].stage = "committed"
                          \/ req[q].stage \in {"attach", "subscribe", "record"} /\ (c \in req[q].walk \/ c = req[q].conn)

\* A member's connection is in the hub, or somebody has yet to attach it.
Reach ==
    Calm /\ member /\ failed \subseteq {"room"} =>
        \A c \in Conn : open[c] /\ (at[c] = "live" \/ (at[c] = "push" /\ ~snap[c]))
                        => c \in hubs \/ ToAttach(c)

\* Somebody has yet to detach the connection.
ToDetach(c) ==
    \E q \in Request : /\ req[q].verb = "leave"
                       /\ \/ req[q].stage \in {"committed", "tell"}
                          \/ req[q].stage \in {"detach", "unsubscribe"} /\ (c \in req[q].walk \/ c = req[q].conn)

\* A connection of somebody who has left is out, or has yet to be detached.
Detached ==
    Calm /\ ~member /\ room = "there" =>
        \A c \in Conn \ nilled : c \in hubs \/ c \in subscribed => ToDetach(c)

\* Somebody has yet to tell the connection.
ToTell(c) ==
    \E q \in Request : /\ req[q].verb # "delete"
                       /\ \/ req[q].stage \in {"committed", "attach", "subscribe", "record"}
                          \/ req[q].stage = "tell" /\ c \in req[q].walk

\* The deletion has yet to be told.
Announcing == feed \/ \E q \in Request : req[q].stage = "committed" /\ req[q].verb = "delete"

\* The same three for what the client lists.
ToldMember ==
    Calm /\ failed = {} /\ member =>
        \A c \in Conn \ (missed \union early) :
            open[c] /\ (at[c] \in {"attach", "record", "live"} \/ (at[c] = "push" /\ ~snap[c]))
            => lists[c] \/ ToTell(c)

ToldStranger ==
    Calm /\ failed = {} /\ ~member /\ room # "deleted" =>
        \A c \in Conn \ (missed \union early \union nilled) : lists[c] => ToTell(c)

ToldGone ==
    Calm /\ failed = {} /\ room = "deleted" =>
        \A c \in Conn \ (missed \union early \union nilled) :
            lists[c] /\ open[c] => c \in subscribed /\ Announcing

Inv == Typed /\ OneKind /\ Wired /\ Reach /\ Detached /\ ToldMember /\ ToldStranger /\ ToldGone

-----------------------------------------------------------------------------
(* A connection comes up.                                                  *)

\* handleWebSocket registers the client.
LEMMA RegisterClientStep ==
    ASSUME Inv, NEW c \in Conn, RegisterClient(c)
    PROVE  Inv'
  <1> USE SessionConstants DEF Inv, Typed, RegisterClient, Standing, Goto, Alive, Joining, Busy,
     tables, hubvars, entries, place, frames, ends, marks
  <1>1. TypeOK'
    BY DEF TypeOK, Places, Stages, AllVerbs
  <1>2. RequestsOK'
    BY DEF TypeOK, RequestsOK
  <1>3. ConnsOK'
    BY DEF TypeOK, ConnsOK, Ended
  <1>4. OneKind'
    BY DEF OneKind, Coming, RequestsOK, Idle
  <1>5. Wired'
    BY DEF Calm, Wired, TypeOK, RequestsOK, ConnsOK, Ended, Idle
  <1>6. Reach'
    BY DEF Calm, Reach, ToAttach, RequestsOK, ConnsOK, Idle
  <1>7. ToldMember'
    BY DEF Calm, OneKind, Coming, ToldMember, ToTell, ConnsOK, Idle
  <1>8. ToldGone'
    BY DEF Calm, OneKind, Coming, RowsOK, ToldGone, Announcing, ConnsOK, Ended, Idle
  <1>9. RowsOK' /\ Detached' /\ ToldStranger'
    BY DEF RowsOK, Calm, Detached, ToDetach, ToldStranger, ToTell
  <1> QED BY <1>1, <1>2, <1>3, <1>4, <1>5, <1>6, <1>7, <1>8, <1>9

\* The snapshot is read, or the read fails.
LEMMA ReadRoomsStep ==
    ASSUME Inv, NEW c \in Conn, ReadRooms(c)
    PROVE  Inv'
  <1> USE SessionConstants DEF Inv, Typed, Joining, Busy
  <1>0. /\ at[c] = "snapshot" /\ at'[c] = "push"
        /\ \A d \in Conn \ {c} : at'[d] = at[d] /\ snap'[d] = snap[d]
        /\ (snap'[c] <=> member) \/ ("snapshot" \in failed' /\ snap'[c] = snap[c])
        /\ at' \in [Conn -> Places] /\ snap' \in [Conn -> BOOLEAN]
        /\ failed' \subseteq Reads /\ failed \subseteq failed'
        /\ UNCHANGED <<room, member, registry, subscribed, feed, hubs, nilled, locked, queued,
                       lists, early, missed, open, closed, req, panics, crossed>>
    <2> USE DEF ReadRooms, Standing, Goto, Alive, TypeOK, Places, Reads, tables, hubvars, entries,
       place, frames, ends, marks
    <2>1. CASE snap' = [snap EXCEPT ![c] = member] /\ failed' = failed
        BY <2>1
    <2>2. CASE "snapshot" \in Faults /\ failed' = failed \union {"snapshot"} /\ snap' = snap
        BY <2>2
    <2> QED BY <2>1, <2>2
  <1>1. TypeOK'
    BY <1>0 DEF TypeOK, Places, Stages, AllVerbs
  <1>2. RequestsOK'
    BY <1>0 DEF TypeOK, RequestsOK
  <1>3. ConnsOK'
    BY <1>0 DEF TypeOK, ConnsOK, Ended
  <1>4. OneKind'
    BY <1>0 DEF TypeOK, RequestsOK, ConnsOK, RowsOK, OneKind, Coming, Idle
  <1>5. Wired'
    BY <1>0 DEF Calm, Wired, TypeOK, RequestsOK, ConnsOK, Ended, Idle
  <1>6. Reach'
    BY <1>0 DEF Calm, Reach, ToAttach, RequestsOK, ConnsOK, Idle
  <1>7. ToldMember'
    BY <1>0 DEF Calm, OneKind, Coming, ToldMember, ToTell, ConnsOK, Idle
  <1>8. ToldStranger'
    BY <1>0 DEF Calm, OneKind, Coming, ToldStranger, ToTell, ConnsOK, Ended, Idle
  <1>9. ToldGone'
    BY <1>0 DEF Calm, OneKind, Coming, RowsOK, ToldGone, Announcing, ConnsOK, Ended, Idle
  <1>10. RowsOK' /\ Detached'
    BY <1>0 DEF RowsOK, Calm, Detached, ToDetach
  <1> QED BY <1>1, <1>2, <1>3, <1>4, <1>5, <1>6, <1>7, <1>8, <1>9, <1>10

\* The snapshot is put into the channel.
LEMMA PushSnapshotStep ==
    ASSUME Inv, NEW c \in Conn, PushSnapshot(c)
    PROVE  Inv'
  <1> USE SessionConstants DEF Inv, Typed, Joining, Busy
  <1>0. /\ at[c] = "push" /\ at'[c] = (IF snap[c] THEN "attach" ELSE "live")
        /\ \A d \in Conn \ {c} : at'[d] = at[d] /\ lists'[d] = lists[d]
        /\ (lists'[c] <=> snap[c]) /\ lists' \in [Conn -> BOOLEAN]
        /\ queued' \in [Conn -> 0 .. SendCap] /\ at' \in [Conn -> Places]
        /\ UNCHANGED <<room, member, registry, subscribed, feed, hubs, nilled, locked, snap,
                       early, missed, open, closed, req, panics, failed, crossed>>
    BY DEF PushSnapshot, Standing, Goto, HasRoom, Put, Listed, Alive, TypeOK, tables, hubvars,
       entries, place, frames, ends, marks, Places
  <1>1. TypeOK'
    BY <1>0 DEF TypeOK, Places, Stages, AllVerbs
  <1>2. RequestsOK'
    BY <1>0 DEF TypeOK, RequestsOK
  <1>3. ConnsOK'
    BY <1>0 DEF TypeOK, ConnsOK, Ended
  <1>4. OneKind'
    BY <1>0 DEF OneKind, Coming, RequestsOK, Idle
  <1>5. Wired'
    BY <1>0 DEF Calm, Wired, TypeOK, RequestsOK, ConnsOK, Ended, Idle
  <1>6. Reach'
    BY <1>0 DEF Calm, Reach, ToAttach, RequestsOK, ConnsOK, Idle
  <1>7. ToldMember'
    BY <1>0 DEF Calm, OneKind, Coming, ToldMember, ToTell, ConnsOK, Idle
  <1>8. ToldStranger'
    BY <1>0 DEF Calm, OneKind, Coming, ToldStranger, ToTell, ConnsOK, Ended, Idle
  <1>9. ToldGone'
    BY <1>0 DEF Calm, OneKind, Coming, RowsOK, ToldGone, Announcing, ConnsOK, Ended, Idle
  <1>10. RowsOK' /\ Detached'
    BY <1>0 DEF RowsOK, Calm, Detached, ToDetach
  <1> QED BY <1>1, <1>2, <1>3, <1>4, <1>5, <1>6, <1>7, <1>8, <1>9, <1>10

\* The hub takes the connection in.
LEMMA AttachRoomStep ==
    ASSUME Inv, NEW c \in Conn, AttachRoom(c)
    PROVE  Inv'
  <1> USE SessionConstants DEF Inv, Typed, AttachRoom, Standing, Goto, Alive, Joining, Busy,
     tables, hubvars, entries, place, frames, ends, marks
  <1>1. TypeOK'
    BY DEF TypeOK, Places, Stages, AllVerbs
  <1>2. RequestsOK'
    BY DEF TypeOK, RequestsOK
  <1>3. ConnsOK'
    BY DEF TypeOK, ConnsOK, Ended
  <1>4. OneKind'
    BY DEF OneKind, Coming, RequestsOK, Idle
  <1>5. Wired'
    BY DEF Calm, Wired, TypeOK, RequestsOK, ConnsOK, Ended, Idle
  <1>6. Reach'
    BY DEF Calm, Reach, ToAttach, RequestsOK, ConnsOK, Idle
  <1>7. Detached'
    BY DEF Calm, OneKind, Coming, Detached, ToDetach, RequestsOK, ConnsOK, Ended, Idle
  <1>8. ToldMember'
    BY DEF Calm, OneKind, Coming, ToldMember, ToTell, ConnsOK, Idle
  <1>9. ToldGone'
    BY DEF Calm, OneKind, Coming, RowsOK, ToldGone, Announcing, ConnsOK, Ended, Idle
  <1>10. RowsOK' /\ ToldStranger'
    BY DEF RowsOK, Calm, ToldStranger, ToTell
  <1> QED BY <1>1, <1>2, <1>3, <1>4, <1>5, <1>6, <1>7, <1>8, <1>9, <1>10

\* c.hubs is written and the pumps start.
LEMMA RecordHubStep ==
    ASSUME Inv, NEW c \in Conn, RecordHub(c)
    PROVE  Inv'
  <1> USE SessionConstants DEF Inv, Typed, RecordHub, Standing, Goto, Alive, Joining, Busy,
     tables, hubvars, entries, place, frames, ends, marks
  <1>1. TypeOK'
    BY DEF TypeOK, Places, Stages, AllVerbs
  <1>2. RequestsOK'
    BY DEF TypeOK, RequestsOK
  <1>3. ConnsOK'
    BY DEF TypeOK, ConnsOK, Ended
  <1>4. OneKind'
    BY DEF OneKind, Coming, RequestsOK, Idle
  <1>5. Wired'
    BY DEF TypeOK, RequestsOK, ConnsOK, RowsOK, OneKind, Coming, Calm, Wired, Ended, Idle
  <1>6. Reach'
    BY DEF Calm, Reach, ToAttach, RequestsOK, ConnsOK, Idle
  <1>7. Detached'
    BY DEF Calm, OneKind, Coming, Detached, ToDetach, RequestsOK, ConnsOK, Ended, Idle
  <1>8. ToldMember'
    BY DEF Calm, OneKind, Coming, ToldMember, ToTell, ConnsOK, Idle
  <1>9. RowsOK' /\ ToldStranger' /\ ToldGone'
    BY DEF RowsOK, Calm, ToldStranger, ToTell, ToldGone, Announcing
  <1> QED BY <1>1, <1>2, <1>3, <1>4, <1>5, <1>6, <1>7, <1>8, <1>9

\* writePump takes a frame.
LEMMA DrainStep ==
    ASSUME Inv, NEW c \in Conn, Drain(c)
    PROVE  Inv'
  <1> USE SessionConstants DEF Inv, Typed, Drain, Standing, Alive, Joining, Busy, tables, hubvars,
     entries, place, frames, ends, marks
  <1>1. TypeOK'
    BY DEF TypeOK, Places, Stages, AllVerbs
  <1>2. RequestsOK' /\ ConnsOK' /\ RowsOK' /\ OneKind' /\ Wired' /\ Reach' /\ Detached' /\
     ToldMember' /\ ToldStranger' /\ ToldGone'
    BY DEF RequestsOK, ConnsOK, RowsOK, OneKind, Coming, Calm, Wired, Reach, ToAttach, Detached,
       ToDetach, ToldMember, ToTell, ToldStranger, ToldGone, Announcing
  <1> QED BY <1>1, <1>2

-----------------------------------------------------------------------------
(* A connection goes down.                                                 *)

\* The peer is gone.
LEMMA PeerGoneStep ==
    ASSUME Inv, NEW c \in Conn, PeerGone(c)
    PROVE  Inv'
  <1> USE SessionConstants DEF Inv, Typed, PeerGone, Alive, Joining, Busy, tables, hubvars,
     entries, place, frames, ends, marks
  <1>1. TypeOK'
    BY DEF TypeOK, Places, Stages, AllVerbs
  <1>2. ConnsOK'
    BY DEF TypeOK, ConnsOK, Ended
  <1>3. Wired'
    BY DEF Calm, Wired, TypeOK, RequestsOK, ConnsOK, Ended, Idle
  <1>4. Reach'
    BY DEF Calm, Reach, ToAttach, RequestsOK, ConnsOK, Idle
  <1>5. ToldMember'
    BY DEF Calm, OneKind, Coming, ToldMember, ToTell, ConnsOK, Idle
  <1>6. ToldGone'
    BY DEF Calm, OneKind, Coming, RowsOK, ToldGone, Announcing, ConnsOK, Ended, Idle
  <1>7. RequestsOK' /\ RowsOK' /\ OneKind' /\ Detached' /\ ToldStranger'
    BY DEF RequestsOK, RowsOK, OneKind, Coming, Calm, Detached, ToDetach, ToldStranger, ToTell
  <1> QED BY <1>1, <1>2, <1>3, <1>4, <1>5, <1>6, <1>7

\* readPump takes c.hubs and sets it to nil.
LEMMA TakeHubsStep ==
    ASSUME Inv, NEW c \in Conn, TakeHubs(c)
    PROVE  Inv'
  <1> USE SessionConstants DEF Inv, Typed, TakeHubs, Standing, Goto, Alive, Joining, Busy, tables,
     hubvars, entries, place, frames, ends, marks
  <1>1. TypeOK'
    BY DEF TypeOK, Places, Stages, AllVerbs
  <1>2. RequestsOK'
    BY DEF TypeOK, RequestsOK
  <1>3. ConnsOK'
    BY DEF TypeOK, ConnsOK, Ended
  <1>4. RowsOK'
    BY DEF RowsOK
  <1>5. OneKind'
    BY DEF OneKind, Coming, RequestsOK, Idle
  <1>6. Wired'
    BY DEF Calm, Wired, TypeOK, RequestsOK, ConnsOK, Ended, Idle
  <1>7. Reach'
    BY DEF Calm, Reach, ToAttach, RequestsOK, ConnsOK, Idle
  <1>8. Detached'
    BY DEF Calm, OneKind, Coming, Detached, ToDetach, RequestsOK, ConnsOK, Ended, Idle
  <1>9. ToldMember'
    BY DEF Calm, OneKind, Coming, ToldMember, ToTell, ConnsOK, Idle
  <1>10. ToldStranger'
    BY DEF Calm, OneKind, Coming, ToldStranger, ToTell, ConnsOK, Ended, Idle
  <1>11. ToldGone'
    BY DEF Calm, OneKind, Coming, RowsOK, ToldGone, Announcing, ConnsOK, Ended, Idle
  <1> QED BY <1>1, <1>2, <1>3, <1>4, <1>5, <1>6, <1>7, <1>8, <1>9, <1>10, <1>11

\* readPump unregisters from the hub.
LEMMA LeaveHubStep ==
    ASSUME Inv, NEW c \in Conn, LeaveHub(c)
    PROVE  Inv'
  <1> USE SessionConstants DEF Inv, Typed, LeaveHub, Standing, Goto, Alive, Joining, Busy, tables,
     hubvars, entries, place, frames, ends, marks
  <1>1. TypeOK'
    BY DEF TypeOK, Places, Stages, AllVerbs
  <1>2. RequestsOK'
    BY DEF TypeOK, RequestsOK
  <1>3. ConnsOK'
    BY DEF TypeOK, ConnsOK, Ended
  <1>4. OneKind'
    BY DEF OneKind, Coming, RequestsOK, Idle
  <1>5. Wired'
    BY DEF Calm, Wired, TypeOK, RequestsOK, ConnsOK, Ended, Idle
  <1>6. Reach'
    BY DEF Calm, Reach, ToAttach, RequestsOK, ConnsOK, Idle
  <1>7. Detached'
    BY DEF Calm, OneKind, Coming, Detached, ToDetach, RequestsOK, ConnsOK, Ended, Idle
  <1>8. ToldMember'
    BY DEF Calm, OneKind, Coming, ToldMember, ToTell, ConnsOK, Idle
  <1>9. ToldGone'
    BY DEF Calm, OneKind, Coming, RowsOK, ToldGone, Announcing, ConnsOK, Ended, Idle
  <1>10. RowsOK' /\ ToldStranger'
    BY DEF RowsOK, Calm, ToldStranger, ToTell
  <1> QED BY <1>1, <1>2, <1>3, <1>4, <1>5, <1>6, <1>7, <1>8, <1>9, <1>10

\* readPump leaves the registry.
LEMMA ForgetStep ==
    ASSUME Inv, NEW c \in Conn, Forget(c)
    PROVE  Inv'
  <1> USE SessionConstants DEF Inv, Typed, Forget, Standing, Goto, Alive, Joining, Busy, tables,
     hubvars, entries, place, frames, ends, marks
  <1>1. TypeOK'
    BY DEF TypeOK, Places, Stages, AllVerbs
  <1>2. RequestsOK'
    BY DEF TypeOK, RequestsOK
  <1>3. ConnsOK'
    BY DEF TypeOK, ConnsOK, Ended
  <1>4. OneKind'
    BY DEF OneKind, Coming, RequestsOK, Idle
  <1>5. Wired'
    BY DEF Calm, Wired, TypeOK, RequestsOK, ConnsOK, Ended, Idle
  <1>6. Reach'
    BY DEF Calm, Reach, ToAttach, RequestsOK, ConnsOK, Idle
  <1>7. ToldMember'
    BY DEF Calm, OneKind, Coming, ToldMember, ToTell, ConnsOK, Idle
  <1>8. RowsOK' /\ Detached' /\ ToldStranger' /\ ToldGone'
    BY DEF RowsOK, Calm, Detached, ToDetach, ToldStranger, ToTell, ToldGone, Announcing
  <1> QED BY <1>1, <1>2, <1>3, <1>4, <1>5, <1>6, <1>7, <1>8

\* readPump closes the channel.
LEMMA CloseSendStep ==
    ASSUME Inv, NEW c \in Conn, CloseSend(c)
    PROVE  Inv'
  <1> USE SessionConstants DEF Inv, Typed, CloseSend, Standing, Goto, Alive, Joining, Busy,
     tables, hubvars, entries, place, frames, ends, marks
  <1>1. TypeOK'
    BY DEF TypeOK, Places, Stages, AllVerbs
  <1>2. RequestsOK'
    BY DEF TypeOK, RequestsOK
  <1>3. ConnsOK'
    BY DEF TypeOK, ConnsOK, Ended
  <1>4. OneKind'
    BY DEF OneKind, Coming, RequestsOK, Idle
  <1>5. Wired'
    BY DEF Calm, Wired, TypeOK, RequestsOK, ConnsOK, Ended, Idle
  <1>6. Reach'
    BY DEF Calm, Reach, ToAttach, RequestsOK, ConnsOK, Idle
  <1>7. ToldMember'
    BY DEF Calm, OneKind, Coming, ToldMember, ToTell, ConnsOK, Idle
  <1>8. RowsOK' /\ Detached' /\ ToldStranger' /\ ToldGone'
    BY DEF RowsOK, Calm, Detached, ToDetach, ToldStranger, ToTell, ToldGone, Announcing
  <1> QED BY <1>1, <1>2, <1>3, <1>4, <1>5, <1>6, <1>7, <1>8

-----------------------------------------------------------------------------
(* The hub sends.                                                          *)

\* The hub fans a message out.
LEMMA HubSendsStep ==
    ASSUME Inv, HubSends
    PROVE  Inv'
  <1> USE SessionConstants DEF Inv, Typed, Joining, Busy
  <1>0. /\ queued' \in [Conn -> 0 .. SendCap] /\ lists' \in [Conn -> BOOLEAN]
        /\ open' \in [Conn -> BOOLEAN]
        /\ subscribed' \subseteq subscribed
        /\ \A c \in Conn : open'[c] => open[c] /\ (c \in subscribed => c \in subscribed')
        /\ panics \subseteq panics' /\ panics' \subseteq {"walk", "hub"}
        /\ lists' = lists
        /\ \A c \in Conn \ subscribed : lists'[c] = lists[c]
        /\ UNCHANGED <<room, member, registry, feed, hubs, nilled, locked, at, snap, early,
                       missed, closed, req, failed, crossed>>
    <2> USE DEF HubSends, Fanout, Alive, TypeOK, tables, hubvars, entries, place, frames, ends,
       marks
    <2>1. CASE subscribed \intersect closed # {}
        BY <2>1
    <2>2. CASE subscribed \intersect closed = {}
        <3>1. /\ subscribed' \subseteq subscribed /\ panics' = panics
              /\ \A d \in subscribed' : queued[d] < SendCap
            BY <2>2 DEF HasRoom
        <3>2. queued' \in [Conn -> 0 .. SendCap]
            <4>1. \A d \in Conn : (IF d \in subscribed' THEN queued[d] + 1 ELSE queued[d]) \in 0 .. SendCap
                BY <3>1
            <4> QED BY <2>2, <4>1 DEF Put
        <3>3. /\ lists' \in [Conn -> BOOLEAN]
              /\ lists' = lists
            BY <2>2, <3>1 DEF Put, Listed
        <3>4. /\ open' \in [Conn -> BOOLEAN]
              /\ \A d \in Conn : open'[d] => open[d] /\ (d \in subscribed => d \in subscribed')
            BY <2>2, <3>1
        <3> QED BY <2>2, <3>1, <3>2, <3>3, <3>4
    <2> QED BY <2>1, <2>2
  <1>1. TypeOK'
    BY <1>0 DEF TypeOK, Places, Stages, AllVerbs
  <1>2. ConnsOK'
    <2>1. \A d \in subscribed' : \/ d \in hubs' \/ at'[d] \in {"record", "unregister"} \/ d \in locked'
                                \/ \E q \in Request : req'[q].conn = d
        BY <1>0 DEF TypeOK, ConnsOK
    <2>2. \A d \in Conn : (d \in nilled' => ~open'[d]) /\ (at'[d] = "new" => ~open'[d] /\ ~lists'[d])
        BY <1>0 DEF TypeOK, ConnsOK
    <2>3. \A d \in Conn : at'[d] \in {"snapshot", "push"} => (lists'[d] => d \in early')
        BY <1>0 DEF TypeOK, ConnsOK, RequestsOK
    <2> QED BY <1>0, <2>1, <2>2, <2>3 DEF ConnsOK, Ended
  <1>3. Wired'
    BY <1>0 DEF Calm, Wired, TypeOK, RequestsOK, ConnsOK, Ended, Idle
  <1>4. Reach'
    BY <1>0 DEF Calm, Reach, ToAttach, RequestsOK, ConnsOK, Idle
  <1>5. Detached'
    BY <1>0 DEF Calm, OneKind, Coming, Detached, ToDetach, RequestsOK, ConnsOK, Ended, Idle
  <1>6. ToldMember'
    BY <1>0 DEF Calm, OneKind, Coming, ToldMember, ToTell, ConnsOK, Idle
  <1>7. ToldStranger'
    BY <1>0 DEF Calm, OneKind, Coming, ToldStranger, ToTell, ConnsOK, Ended, Idle
  <1>8. ToldGone'
    BY <1>0 DEF Calm, OneKind, Coming, RowsOK, ToldGone, Announcing, ConnsOK, Ended, Idle
  <1>9. RequestsOK' /\ RowsOK' /\ OneKind'
    BY <1>0 DEF RequestsOK, RowsOK, OneKind, Coming
  <1> QED BY <1>1, <1>2, <1>3, <1>4, <1>5, <1>6, <1>7, <1>8, <1>9

\* The hub fans room_deleted out.
LEMMA HubSendsDeletionStep ==
    ASSUME Inv, HubSendsDeletion
    PROVE  Inv'
  <1> USE SessionConstants DEF Inv, Typed, Joining, Busy
  <1>0. /\ queued' \in [Conn -> 0 .. SendCap] /\ lists' \in [Conn -> BOOLEAN]
        /\ open' \in [Conn -> BOOLEAN]
        /\ subscribed' \subseteq subscribed
        /\ \A c \in Conn : open'[c] => open[c] /\ (c \in subscribed => c \in subscribed')
        /\ panics \subseteq panics' /\ panics' \subseteq {"walk", "hub"}
        /\ \A c \in Conn : lists'[c] => lists[c] /\ (panics' = {} => c \notin subscribed')
        /\ \A c \in Conn \ subscribed : lists'[c] = lists[c]
        /\ feed /\ ~feed' /\ feed' \in BOOLEAN
        /\ UNCHANGED <<room, member, registry, hubs, nilled, locked, at, snap, early, missed,
                       closed, req, failed, crossed>>
    <2> USE DEF HubSendsDeletion, Fanout, Alive, TypeOK, tables, hubvars, entries, place, frames,
       ends, marks
    <2>1. CASE subscribed \intersect closed # {}
        BY <2>1
    <2>2. CASE subscribed \intersect closed = {}
        <3>1. /\ subscribed' \subseteq subscribed /\ panics' = panics
              /\ \A d \in subscribed' : queued[d] < SendCap
            BY <2>2 DEF HasRoom
        <3>2. queued' \in [Conn -> 0 .. SendCap]
            <4>1. \A d \in Conn : (IF d \in subscribed' THEN queued[d] + 1 ELSE queued[d]) \in 0 .. SendCap
                BY <3>1
            <4> QED BY <2>2, <4>1 DEF Put
        <3>3. /\ lists' \in [Conn -> BOOLEAN]
              /\ \A d \in Conn : lists'[d] = (d \notin subscribed' /\ lists[d])
            BY <2>2, <3>1 DEF Put, Listed
        <3>4. /\ open' \in [Conn -> BOOLEAN]
              /\ \A d \in Conn : open'[d] => open[d] /\ (d \in subscribed => d \in subscribed')
            BY <2>2, <3>1
        <3> QED BY <2>2, <3>1, <3>2, <3>3, <3>4
    <2> QED BY <2>1, <2>2
  <1>1. TypeOK'
    BY <1>0 DEF TypeOK, Places, Stages, AllVerbs
  <1>2. ConnsOK'
    <2>1. \A d \in subscribed' : \/ d \in hubs' \/ at'[d] \in {"record", "unregister"} \/ d \in locked'
                                \/ \E q \in Request : req'[q].conn = d
        BY <1>0 DEF TypeOK, ConnsOK
    <2>2. \A d \in Conn : (d \in nilled' => ~open'[d]) /\ (at'[d] = "new" => ~open'[d] /\ ~lists'[d])
        BY <1>0 DEF TypeOK, ConnsOK
    <2>3. \A d \in Conn : at'[d] \in {"snapshot", "push"} => (lists'[d] => d \in early')
        BY <1>0 DEF TypeOK, ConnsOK, RequestsOK
    <2> QED BY <1>0, <2>1, <2>2, <2>3 DEF ConnsOK, Ended
  <1>3. RowsOK'
    BY <1>0 DEF RowsOK, RequestsOK
  <1>4. Wired'
    BY <1>0 DEF Calm, Wired, TypeOK, RequestsOK, ConnsOK, Ended, Idle
  <1>5. Reach'
    BY <1>0 DEF Calm, Reach, ToAttach, RequestsOK, ConnsOK, Idle
  <1>6. Detached'
    BY <1>0 DEF Calm, OneKind, Coming, Detached, ToDetach, RequestsOK, ConnsOK, Ended, Idle
  <1>7. ToldMember'
    BY <1>0 DEF TypeOK, RequestsOK, ConnsOK, RowsOK, OneKind, Coming, Calm, ToldMember, ToTell, Idle
  <1>8. ToldStranger'
    BY <1>0 DEF Calm, OneKind, Coming, ToldStranger, ToTell, ConnsOK, Ended, Idle
  <1>9. ToldGone'
    BY <1>0 DEF Calm, OneKind, Coming, RowsOK, ToldGone, Announcing, ConnsOK, Ended, Idle
  <1>10. RequestsOK' /\ OneKind'
    BY <1>0 DEF RequestsOK, OneKind, Coming
  <1> QED BY <1>1, <1>2, <1>3, <1>4, <1>5, <1>6, <1>7, <1>8, <1>9, <1>10

-----------------------------------------------------------------------------
(* A request commits.                                                      *)

\* A room is made.
LEMMA CreateCommitStep ==
    ASSUME Inv, NEW q \in Request, CreateCommit(q)
    PROVE  Inv'
  <1> USE SessionConstants DEF Inv, Typed, CreateCommit, Commit, Idle, ComingUp, Alive, Joining,
     Busy, tables, hubvars, entries, place, frames, ends, marks
  <1>1. TypeOK'
    BY DEF TypeOK, Places, Stages, AllVerbs
  <1>2. RequestsOK'
    BY DEF TypeOK, RequestsOK
  <1>3. ConnsOK'
    BY DEF TypeOK, ConnsOK, Ended
  <1>4. RowsOK'
    BY DEF RowsOK, RequestsOK
  <1>5. OneKind'
    BY DEF OneKind, Coming, RequestsOK
  <1>6. Wired'
    BY DEF Calm, Wired, TypeOK, RequestsOK, ConnsOK, Ended
  <1>7. Reach'
    BY DEF TypeOK, RequestsOK, ConnsOK, RowsOK, OneKind, Coming, Calm, Wired, Reach, ToAttach
  <1>8. Detached'
    BY DEF Calm, OneKind, Coming, Detached, ToDetach, RequestsOK, ConnsOK, Ended
  <1>9. ToldMember'
    BY DEF TypeOK, RequestsOK, ConnsOK, RowsOK, OneKind, Coming, Calm, ToldMember, ToTell
  <1>10. ToldStranger'
    BY DEF Calm, OneKind, Coming, ToldStranger, ToTell, ConnsOK, Ended
  <1>11. ToldGone'
    BY DEF Calm, OneKind, Coming, RowsOK, ToldGone, Announcing, ConnsOK, Ended
  <1> QED BY <1>1, <1>2, <1>3, <1>4, <1>5, <1>6, <1>7, <1>8, <1>9, <1>10, <1>11

\* A join commits.
LEMMA JoinCommitStep ==
    ASSUME Inv, NEW q \in Request, JoinCommit(q)
    PROVE  Inv'
  <1> USE SessionConstants DEF Inv, Typed, JoinCommit, Commit, Idle, ComingUp, Alive, Joining,
     Busy, tables, hubvars, entries, place, frames, ends, marks
  <1>1. TypeOK'
    BY DEF TypeOK, Places, Stages, AllVerbs
  <1>2. RequestsOK'
    BY DEF TypeOK, RequestsOK
  <1>3. ConnsOK'
    BY DEF TypeOK, ConnsOK, Ended
  <1>4. RowsOK'
    BY DEF RowsOK, RequestsOK
  <1>5. OneKind'
    BY DEF OneKind, Coming, RequestsOK
  <1>6. Wired'
    BY DEF Calm, Wired, TypeOK, RequestsOK, ConnsOK, Ended
  <1>7. Reach'
    BY DEF TypeOK, RequestsOK, ConnsOK, RowsOK, OneKind, Coming, Calm, Wired, Reach, ToAttach
  <1>8. Detached'
    BY DEF Calm, OneKind, Coming, Detached, ToDetach, RequestsOK, ConnsOK, Ended
  <1>9. ToldMember'
    BY DEF TypeOK, RequestsOK, ConnsOK, RowsOK, OneKind, Coming, Calm, ToldMember, ToTell
  <1>10. ToldStranger'
    BY DEF Calm, OneKind, Coming, ToldStranger, ToTell, ConnsOK, Ended
  <1>11. ToldGone'
    BY DEF Calm, OneKind, Coming, RowsOK, ToldGone, Announcing, ConnsOK, Ended
  <1> QED BY <1>1, <1>2, <1>3, <1>4, <1>5, <1>6, <1>7, <1>8, <1>9, <1>10, <1>11

\* A leave commits.
LEMMA LeaveCommitStep ==
    ASSUME Inv, NEW q \in Request, LeaveCommit(q)
    PROVE  Inv'
  <1> USE SessionConstants DEF Inv, Typed, LeaveCommit, Commit, Idle, ComingUp, Alive, Joining,
     Busy, tables, hubvars, entries, place, frames, ends, marks
  <1>1. TypeOK'
    BY DEF TypeOK, Places, Stages, AllVerbs
  <1>2. RequestsOK'
    BY DEF TypeOK, RequestsOK
  <1>3. ConnsOK'
    BY DEF TypeOK, ConnsOK, Ended
  <1>4. RowsOK'
    BY DEF RowsOK, RequestsOK
  <1>5. OneKind'
    BY DEF TypeOK, RequestsOK, ConnsOK, RowsOK, OneKind, Coming
  <1>6. Wired'
    BY DEF Calm, Wired, TypeOK, RequestsOK, ConnsOK, Ended
  <1>7. Reach'
    BY DEF Calm, Reach, ToAttach, RequestsOK, ConnsOK
  <1>8. Detached'
    BY DEF TypeOK, RequestsOK, ConnsOK, RowsOK, OneKind, Coming, Calm, Wired, Detached, ToDetach,
       Ended
  <1>9. ToldMember'
    BY DEF Calm, OneKind, Coming, ToldMember, ToTell, ConnsOK
  <1>10. ToldStranger'
    BY DEF TypeOK, RequestsOK, ConnsOK, RowsOK, OneKind, Coming, Calm, ToldStranger, ToTell, Ended
  <1>11. ToldGone'
    BY DEF Calm, OneKind, Coming, RowsOK, ToldGone, Announcing, ConnsOK, Ended
  <1> QED BY <1>1, <1>2, <1>3, <1>4, <1>5, <1>6, <1>7, <1>8, <1>9, <1>10, <1>11

\* A deletion commits: whoever lists the room is in the hub then.
LEMMA DeleteCommitStep ==
    ASSUME Inv, NEW q \in Request, DeleteCommit(q)
    PROVE  Inv'
  <1> USE SessionConstants DEF Inv, Typed, Joining, Busy, OthersKeep, RequestRecord
  <1>0. /\ req'[q].stage = "committed" /\ req'[q].verb = "delete" /\ req'[q].walk = {}
        /\ req'[q].conn = NoConn
        /\ OthersKeep(q)
        /\ ~Busy(q) /\ member /\ member' = FALSE /\ room' = "deleted"
        /\ req' \in [Request -> RequestRecord]
        /\ (crossed => crossed') /\ crossed' \in BOOLEAN
        /\ (~crossed' => (\A p \in Request : ~Busy(p)) /\ (\A c \in Conn : ~Coming(c)))
        /\ UNCHANGED <<registry, subscribed, feed, hubs, nilled, locked, at, snap, queued, lists,
                       early, missed, open, closed, panics, failed>>
    <2> USE DEF DeleteCommit, Commit, Alive, tables, hubvars, entries, place, frames, ends, marks
    <2> DEFINE r == [Idle EXCEPT !.stage = "committed", !.verb = "delete"]
    <2>1. r.stage = "committed" /\ r.verb = "delete" /\ r.walk = {} /\ r.conn = NoConn
        BY DEF Idle
    <2>2. req[q].stage = "idle" /\ req' = [req EXCEPT ![q] = r]
        BY DEF Idle
    <2>3. r \in RequestRecord
        BY DEF RequestRecord, Stages, AllVerbs, Idle
    <2>4. req' \in [Request -> RequestRecord] /\ req'[q] = r /\ OthersKeep(q)
        <3> HIDE DEF r
        <3> QED BY <2>2, <2>3 DEF TypeOK, RequestRecord
    <2>5. crossed' \in BOOLEAN /\ (crossed => crossed')
        BY DEF TypeOK
    <2>6. ~crossed' => (\A p \in Request : ~Busy(p)) /\ (\A d \in Conn : ~Coming(d))
        <3> SUFFICES ASSUME ~crossed' PROVE (\A p \in Request : ~Busy(p)) /\ (\A d \in Conn : ~Coming(d))
            OBVIOUS
        <3>1. /\ ~crossed /\ member /\ ~ComingUp
              /\ \A p \in Request : req[p] # Idle => (req[p].verb \in Joining <=> "delete" \in Joining)
            OBVIOUS
        <3> QED BY <3>1 DEF OneKind, ComingUp, Coming, Idle
    <2> HIDE DEF r
    <2> QED BY <2>1, <2>2, <2>4, <2>5, <2>6 DEF TypeOK, RequestRecord
  <1>1. TypeOK'
    BY <1>0 DEF TypeOK, Places, Stages, AllVerbs
  <1>2. RequestsOK'
    BY <1>0 DEF TypeOK, RequestsOK
  <1>3. ConnsOK'
    BY <1>0 DEF TypeOK, RequestsOK, ConnsOK, Ended, Idle
  <1>4. RowsOK'
    BY <1>0 DEF RowsOK, RequestsOK
  <1>5. OneKind'
    BY <1>0 DEF OneKind, Coming, RequestsOK, Idle
  <1>6. Wired'
    BY <1>0 DEF Calm, Wired, TypeOK, RequestsOK, ConnsOK, Ended, Idle
  <1>7. Reach'
    BY <1>0 DEF Calm, Reach, ToAttach, RequestsOK, ConnsOK, Idle
  <1>8. Detached'
    BY <1>0 DEF Calm, OneKind, Coming, Detached, ToDetach, RequestsOK, ConnsOK, Ended, Idle
  <1>9. ToldMember'
    BY <1>0 DEF Calm, OneKind, Coming, ToldMember, ToTell, ConnsOK, Idle
  <1>10. ToldStranger'
    BY <1>0 DEF Calm, OneKind, Coming, ToldStranger, ToTell, ConnsOK, Ended, Idle
  <1>11. ToldGone'
    <2> SUFFICES ASSUME Calm', failed' = {}, NEW d \in Conn, d \notin nilled', lists'[d], open'[d],
                        d \notin missed', d \notin early'
                 PROVE  d \in subscribed' /\ Announcing'
        BY DEF ToldGone
    <2>1. Calm /\ (\A p \in Request : ~Busy(p)) /\ ~Coming(d) /\ open[d]
        BY <1>0 DEF Calm
    <2>2. at[d] = "live" \/ (at[d] = "push" /\ ~snap[d])
        BY <1>0, <2>1 DEF ConnsOK, TypeOK, Places, Ended, Coming
    <2>3. d \in hubs
        BY <1>0, <2>1, <2>2 DEF Reach, ToAttach
    <2>4. d \in subscribed
        BY <2>1, <2>3 DEF Wired
    <2> QED BY <1>0, <2>4 DEF Announcing
  <1> QED BY <1>1, <1>2, <1>3, <1>4, <1>5, <1>6, <1>7, <1>8, <1>9, <1>10, <1>11

-----------------------------------------------------------------------------
(* A request walks the registry.                                           *)

\* A walk ends and the next one copies the registry.
LEMMA NextWalkStep ==
    ASSUME Inv, NEW q \in Request, NextWalk(q)
    PROVE  Inv'
  <1> USE SessionConstants DEF Inv, Typed, Joining, Busy, OthersKeep, RequestRecord
  <1>0. /\ req[q].walk = {} /\ req[q].conn = NoConn /\ Busy(q) /\ OthersKeep(q)
        /\ \/ req'[q] = Idle /\ req[q].stage \in {"tell", "detach"} /\ (req[q].stage = "tell" => req[q].verb \in Joining)
           \/ /\ req'[q].verb = req[q].verb /\ req'[q].walk = registry /\ req'[q].conn = NoConn
              /\ \/ req[q].verb \in Joining /\ req[q].stage = "committed" /\ req'[q].stage = "attach"
                 \/ req[q].verb \in Joining /\ req[q].stage = "attach" /\ req'[q].stage = "tell"
                 \/ req[q].verb = "leave" /\ req[q].stage = "committed" /\ req'[q].stage = "tell"
                 \/ req[q].verb = "leave" /\ req[q].stage = "tell" /\ req'[q].stage = "detach"
        /\ \A p \in Request : req'[p].stage # "idle" => req[p].stage # "idle" /\ req'[p].verb = req[p].verb
        /\ req' \in [Request -> RequestRecord]
        /\ UNCHANGED <<room, member, registry, subscribed, feed, hubs, nilled, locked, at, snap,
                       queued, lists, early, missed, open, closed, panics, failed, crossed>>
    <2> USE DEF NextWalk, Alive, Walks, tables, hubvars, entries, place, frames, ends, marks
    <2>1. CASE \E i \in 1 .. 2 : /\ req[q].stage = Walks(req[q].verb)[i]
                                /\ Become(q, Walks(req[q].verb)[i + 1], registry, NoConn)
        BY <2>1 DEF RequestsOK, TypeOK, Become, Stages, AllVerbs
    <2>2. CASE req[q].stage = Walks(req[q].verb)[3] /\ Done(q)
        BY <2>2 DEF RequestsOK, TypeOK, Done, Idle, Stages, AllVerbs
    <2> QED BY <2>1, <2>2
  <1>1. TypeOK'
    BY <1>0 DEF TypeOK, Places, Stages, AllVerbs
  <1>2. RequestsOK'
    BY <1>0 DEF TypeOK, RequestsOK, ConnsOK, Idle
  <1>3. ConnsOK'
    BY <1>0 DEF TypeOK, ConnsOK, Ended
  <1>4. RowsOK'
    BY <1>0 DEF RowsOK
  <1>5. OneKind'
    BY <1>0 DEF OneKind, Coming, RequestsOK, Idle
  <1>6. Wired'
    BY <1>0 DEF Calm, Wired, TypeOK, RequestsOK, ConnsOK, Ended, Idle
  <1>7. Reach'
    BY <1>0 DEF Calm, Reach, ToAttach, RequestsOK, ConnsOK, Idle
  <1>8. Detached'
    <2> SUFFICES ASSUME Calm', ~member', room' = "there", NEW d \in Conn, d \notin nilled',
                        d \in hubs' \/ d \in subscribed'
                 PROVE  ToDetach(d)'
        BY DEF Detached
    <2>1. ToDetach(d) /\ d \in registry
        BY <1>0 DEF Calm, Detached, ConnsOK, Ended
    <2>2. PICK p \in Request :
              /\ req[p].verb = "leave"
              /\ \/ req[p].stage \in {"committed", "tell"}
                 \/ req[p].stage \in {"detach", "unsubscribe"} /\ (d \in req[p].walk \/ d = req[p].conn)
        BY <2>1 DEF ToDetach
    <2>3. CASE p = q
        BY <1>0, <2>1, <2>2, <2>3 DEF ToDetach
    <2>4. CASE p # q
        BY <1>0, <2>2, <2>4 DEF ToDetach
    <2> QED BY <2>3, <2>4
  <1>9. ToldMember'
    <2> SUFFICES ASSUME Calm', failed' = {}, member', NEW d \in Conn, d \notin missed', d \notin early', open'[d],
                        at'[d] \in {"attach", "record", "live"} \/ (at'[d] = "push" /\ ~snap'[d])
                 PROVE  lists'[d] \/ ToTell(d)'
        BY DEF ToldMember
    <2>1. /\ Calm /\ req[q].verb \in Joining /\ d \in registry
          /\ lists[d] \/ ToTell(d)
        BY <1>0 DEF Calm, OneKind, RequestsOK, ConnsOK, ToldMember
    <2>2. CASE ToTell(d)
        <3>1. PICK p \in Request : /\ req[p].verb # "delete"
                                  /\ \/ req[p].stage \in {"committed", "attach", "subscribe", "record"}
                                     \/ req[p].stage = "tell" /\ d \in req[p].walk
            BY <2>2 DEF ToTell
        <3>2. /\ req'[p].verb # "delete"
              /\ \/ req'[p].stage \in {"committed", "attach", "subscribe", "record"}
                 \/ req'[p].stage = "tell" /\ d \in req'[p].walk
            BY <1>0, <2>1, <3>1
        <3> QED BY <3>2 DEF ToTell
    <2> QED BY <1>0, <2>1, <2>2
  <1>10. ToldStranger'
    BY <1>0 DEF Calm, OneKind, Coming, ToldStranger, ToTell, ConnsOK, Ended, Idle
  <1>11. ToldGone'
    BY <1>0 DEF Calm, OneKind, Coming, RowsOK, ToldGone, Announcing, ConnsOK, Ended, Idle
  <1> QED BY <1>1, <1>2, <1>3, <1>4, <1>5, <1>6, <1>7, <1>8, <1>9, <1>10, <1>11

\* emitMemberJoin gives up.
LEMMA ReadFailsStep ==
    ASSUME Inv, NEW q \in Request, ReadFails(q)
    PROVE  Inv'
  <1> USE SessionConstants DEF Inv, Typed, Joining, Busy, OthersKeep, RequestRecord
  <1>0. /\ req[q].walk = {} /\ req[q].conn = NoConn /\ req[q].verb = "join"
        /\ req'[q] = Idle /\ OthersKeep(q)
        /\ \/ req[q].stage = "committed" /\ "user" \in failed'
           \/ req[q].stage = "attach" /\ "room" \in failed'
        /\ failed \subseteq failed' /\ failed' \subseteq Reads
        /\ req' \in [Request -> RequestRecord]
        /\ UNCHANGED <<room, member, registry, subscribed, feed, hubs, nilled, locked, at, snap,
                       queued, lists, early, missed, open, closed, panics, crossed>>
    BY DEF ReadFails, Done, Idle, Alive, TypeOK, tables, hubvars, entries, place, frames, ends,
       marks, RequestsOK, Stages, AllVerbs, Reads
  <1>1. TypeOK'
    BY <1>0 DEF TypeOK, Places, Stages, AllVerbs
  <1>2. RequestsOK'
    BY <1>0 DEF TypeOK, RequestsOK, ConnsOK, Idle
  <1>3. ConnsOK'
    BY <1>0 DEF TypeOK, ConnsOK, Ended
  <1>4. RowsOK'
    BY <1>0 DEF RowsOK
  <1>5. OneKind'
    BY <1>0 DEF OneKind, Coming, RequestsOK, Idle
  <1>6. Wired'
    BY <1>0 DEF Calm, Wired, TypeOK, RequestsOK, ConnsOK, Ended, Idle
  <1>7. Reach'
    <2> SUFFICES ASSUME Calm', member', failed' \subseteq {"room"}, NEW d \in Conn, open'[d],
                        at'[d] = "live" \/ (at'[d] = "push" /\ ~snap'[d]), d \notin hubs'
                 PROVE  ToAttach(d)'
        BY DEF Reach
    <2>1. req[q].stage = "attach" /\ ToAttach(d)
        BY <1>0 DEF Calm, Reach
    <2>2. PICK p \in Request :
              /\ req[p].verb \in Joining
              /\ \/ req[p].stage = "committed"
                 \/ req[p].stage \in {"attach", "subscribe", "record"} /\ (d \in req[p].walk \/ d = req[p].conn)
        BY <2>1 DEF ToAttach
    <2>3. p # q
        BY <1>0, <2>1, <2>2
    <2> QED BY <1>0, <2>2, <2>3 DEF ToAttach
  <1>8. Detached'
    BY <1>0 DEF Calm, OneKind, Coming, Detached, ToDetach, RequestsOK, ConnsOK, Ended, Idle
  <1>9. ToldMember'
    BY <1>0 DEF Calm, OneKind, Coming, ToldMember, ToTell, ConnsOK, Idle
  <1>10. ToldStranger'
    BY <1>0 DEF Calm, OneKind, Coming, ToldStranger, ToTell, ConnsOK, Ended, Idle
  <1>11. ToldGone'
    BY <1>0 DEF Calm, OneKind, Coming, RowsOK, ToldGone, Announcing, ConnsOK, Ended, Idle
  <1> QED BY <1>1, <1>2, <1>3, <1>4, <1>5, <1>6, <1>7, <1>8, <1>9, <1>10, <1>11

\* The deletion is handed to the hub.
LEMMA AnnounceDeletionStep ==
    ASSUME Inv, NEW q \in Request, AnnounceDeletion(q)
    PROVE  Inv'
  <1> USE SessionConstants DEF Inv, Typed, Joining, Busy, OthersKeep, RequestRecord
  <1>0. /\ req[q].stage = "committed" /\ req[q].verb = "delete" /\ req'[q] = Idle
        /\ OthersKeep(q)
        /\ room = "deleted" /\ (subscribed # {} => feed') /\ feed' \in BOOLEAN
        /\ req' \in [Request -> RequestRecord]
        /\ UNCHANGED <<room, member, registry, subscribed, hubs, nilled, locked, at, snap, queued,
                       lists, early, missed, open, closed, panics, failed, crossed>>
    BY DEF AnnounceDeletion, Doing, Done, Idle, Alive, TypeOK, tables, hubvars, entries, place,
       frames, ends, marks, RequestsOK, Stages, AllVerbs
  <1>1. TypeOK'
    BY <1>0 DEF TypeOK, Places, Stages, AllVerbs
  <1>2. RequestsOK'
    BY <1>0 DEF TypeOK, RequestsOK, ConnsOK, Idle
  <1>3. ConnsOK'
    BY <1>0 DEF TypeOK, RequestsOK, ConnsOK, Ended, Idle
  <1>4. RowsOK'
    BY <1>0 DEF RowsOK, RequestsOK
  <1>5. OneKind'
    BY <1>0 DEF OneKind, Coming, RequestsOK, Idle
  <1>6. Wired'
    BY <1>0 DEF Calm, Wired, TypeOK, RequestsOK, ConnsOK, Ended, Idle
  <1>7. Reach'
    BY <1>0 DEF Calm, Reach, ToAttach, RequestsOK, ConnsOK, Idle
  <1>8. Detached'
    BY <1>0 DEF Calm, OneKind, Coming, Detached, ToDetach, RequestsOK, ConnsOK, Ended, Idle
  <1>9. ToldMember'
    BY <1>0 DEF Calm, OneKind, Coming, ToldMember, ToTell, ConnsOK, Idle
  <1>10. ToldStranger'
    BY <1>0 DEF Calm, OneKind, Coming, ToldStranger, ToTell, ConnsOK, Ended, Idle
  <1>11. ToldGone'
    BY <1>0 DEF Calm, OneKind, Coming, RowsOK, ToldGone, Announcing, ConnsOK, Ended, Idle
  <1> QED BY <1>1, <1>2, <1>3, <1>4, <1>5, <1>6, <1>7, <1>8, <1>9, <1>10, <1>11

\* attachUserToRoom looks at a connection.
LEMMA CheckAttachedStep ==
    ASSUME Inv, NEW q \in Request, NEW c \in Conn, CheckAttached(q, c)
    PROVE  Inv'
  <1> USE SessionConstants DEF Inv, Typed, Joining, Busy, OthersKeep, RequestRecord
  <1>0. /\ req[q].stage = "attach" /\ req[q].conn = NoConn /\ req[q].verb \in Joining
        /\ c \in req[q].walk /\ c \notin locked /\ OthersKeep(q)
        /\ req'[q].verb = req[q].verb /\ req'[q].walk = req[q].walk \ {c}
        /\ \/ c \in hubs /\ req'[q].stage = "attach" /\ req'[q].conn = NoConn
           \/ c \notin hubs /\ req'[q].stage = "subscribe" /\ req'[q].conn = c
        /\ req' \in [Request -> RequestRecord] /\ at[c] # "new"
        /\ UNCHANGED <<room, member, registry, subscribed, feed, hubs, nilled, locked, at, snap,
                       queued, lists, early, missed, open, closed, panics, failed, crossed>>
    BY DEF CheckAttached, Doing, Visited, Become, Alive, TypeOK, tables, hubvars, entries, place,
       frames, ends, marks, RequestsOK, Stages, AllVerbs
  <1>1. TypeOK'
    BY <1>0 DEF TypeOK, Places, Stages, AllVerbs
  <1>2. RequestsOK'
    BY <1>0 DEF TypeOK, RequestsOK
  <1>3. ConnsOK'
    BY <1>0 DEF TypeOK, ConnsOK, Ended
  <1>4. RowsOK'
    BY <1>0 DEF RowsOK
  <1>5. OneKind'
    BY <1>0 DEF OneKind, Coming, RequestsOK, Idle
  <1>6. Wired'
    BY <1>0 DEF Calm, Wired, TypeOK, RequestsOK, ConnsOK, Ended, Idle
  <1>7. Reach'
    BY <1>0 DEF Calm, Reach, ToAttach, RequestsOK, ConnsOK, Idle
  <1>8. Detached'
    BY <1>0 DEF Calm, OneKind, Coming, Detached, ToDetach, RequestsOK, ConnsOK, Ended, Idle
  <1>9. ToldMember'
    BY <1>0 DEF Calm, OneKind, Coming, ToldMember, ToTell, ConnsOK, Idle
  <1>10. ToldStranger'
    BY <1>0 DEF Calm, OneKind, Coming, ToldStranger, ToTell, ConnsOK, Ended, Idle
  <1>11. ToldGone'
    BY <1>0 DEF Calm, OneKind, Coming, RowsOK, ToldGone, Announcing, ConnsOK, Ended, Idle
  <1> QED BY <1>1, <1>2, <1>3, <1>4, <1>5, <1>6, <1>7, <1>8, <1>9, <1>10, <1>11

\* attachUserToRoom subscribes it.
LEMMA SubscribeStep ==
    ASSUME Inv, NEW q \in Request, Subscribe(q)
    PROVE  Inv'
  <1> USE SessionConstants DEF Inv, Typed, Subscribe, Doing, Become, Alive, Joining, Busy, tables,
     hubvars, entries, place, frames, ends, marks
  <1>1. TypeOK'
    BY DEF TypeOK, RequestsOK, Places, Stages, AllVerbs, Reads
  <1>2. RequestsOK'
    BY DEF TypeOK, RequestsOK
  <1>3. ConnsOK'
    BY DEF TypeOK, RequestsOK, ConnsOK, Ended, Idle
  <1>4. RowsOK'
    BY DEF RowsOK
  <1>5. OneKind'
    BY DEF OneKind, Coming, RequestsOK, Idle
  <1>6. Wired'
    BY DEF Calm, Wired, TypeOK, RequestsOK, ConnsOK, Ended, Idle
  <1>7. Reach'
    BY DEF Calm, Reach, ToAttach, RequestsOK, ConnsOK, Idle
  <1>8. Detached'
    BY DEF Calm, OneKind, Coming, Detached, ToDetach, RequestsOK, ConnsOK, Ended, Idle
  <1>9. ToldMember'
    BY DEF Calm, OneKind, Coming, ToldMember, ToTell, ConnsOK, Idle
  <1>10. ToldStranger'
    BY DEF Calm, OneKind, Coming, ToldStranger, ToTell, ConnsOK, Ended, Idle
  <1>11. ToldGone'
    BY DEF Calm, OneKind, Coming, RowsOK, ToldGone, Announcing, ConnsOK, Ended, Idle
  <1> QED BY <1>1, <1>2, <1>3, <1>4, <1>5, <1>6, <1>7, <1>8, <1>9, <1>10, <1>11

\* attachUserToRoom records the hub, or panics.
LEMMA RecordStep ==
    ASSUME Inv, NEW q \in Request, Record(q)
    PROVE  Inv'
  <1> USE SessionConstants DEF Inv, Typed, Joining, Busy, OthersKeep, RequestRecord
  <1>0. /\ req[q].stage = "record" /\ req[q].conn \in Conn /\ req[q].verb \in Joining
        /\ req[q].conn \notin locked /\ OthersKeep(q)
        /\ \/ /\ req[q].conn \in nilled /\ req'[q] = Idle /\ hubs' = hubs
              /\ locked' = locked \union {req[q].conn} /\ panics' = panics \union {"walk"}
           \/ /\ req[q].conn \notin nilled /\ hubs' = hubs \union {req[q].conn}
              /\ req'[q].verb = req[q].verb /\ req'[q].walk = req[q].walk \ {req[q].conn}
              /\ req'[q].conn = NoConn
              /\ req'[q].stage = "attach" /\ locked' = locked /\ panics' = panics
        /\ \A p \in Request : req'[p].stage # "idle" => req[p].stage # "idle" /\ req'[p].verb = req[p].verb
        /\ req' \in [Request -> RequestRecord]
        /\ UNCHANGED <<room, member, registry, subscribed, feed, nilled, at, snap, queued, lists,
                       early, missed, open, closed, failed, crossed>>
    <2> USE DEF Record, Doing, Alive, RequestsOK, TypeOK, Stages, AllVerbs, tables, hubvars,
       entries, place, frames, ends, marks
    <2>1. CASE req[q].conn \in nilled
        BY <2>1 DEF Done, Idle
    <2>2. CASE req[q].conn \notin nilled
        BY <2>2 DEF Visited, Become
    <2> QED BY <2>1, <2>2
  <1>1. TypeOK'
    BY <1>0 DEF TypeOK, Places, Stages, AllVerbs
  <1>2. RequestsOK'
    BY <1>0 DEF TypeOK, RequestsOK, ConnsOK, Idle
  <1>3. ConnsOK'
    BY <1>0 DEF TypeOK, RequestsOK, ConnsOK, Ended, Idle
  <1>4. RowsOK'
    BY <1>0 DEF RowsOK
  <1>5. OneKind'
    BY <1>0 DEF OneKind, Coming, RequestsOK, Idle
  <1>6. Wired'
    <2> SUFFICES ASSUME Calm' PROVE Wired'
        BY DEF Wired
    <2>1. Calm /\ req[q].conn \notin nilled /\ hubs' = hubs \union {req[q].conn}
        BY <1>0 DEF Calm
    <2>2. \A d \in Conn : open[d] /\ (d \in hubs' \/ at[d] = "record") => d \in subscribed
        BY <1>0, <2>1 DEF Wired
    <2>3. \A p \in Request : req[p].stage # "unsubscribe"
        BY <1>0, <2>1 DEF Calm, OneKind, RequestsOK
    <2>4. \A p \in Request : /\ req'[p].stage = "record" /\ open[req'[p].conn] => req'[p].conn \in subscribed
                            /\ req'[p].stage # "unsubscribe"
        BY <1>0, <2>1, <2>3 DEF Wired
    <2> QED BY <1>0, <2>2, <2>4 DEF Wired
  <1>7. Reach'
    <2> SUFFICES ASSUME Calm', member', failed' \subseteq {"room"}, NEW d \in Conn, open'[d],
                        at'[d] = "live" \/ (at'[d] = "push" /\ ~snap'[d]), d \notin hubs'
                 PROVE  ToAttach(d)'
        BY DEF Reach
    <2>1. Calm /\ req[q].conn \notin nilled /\ ToAttach(d)
        BY <1>0 DEF Calm, Reach
    <2>2. PICK p \in Request :
              /\ req[p].verb \in Joining
              /\ \/ req[p].stage = "committed"
                 \/ req[p].stage \in {"attach", "subscribe", "record"} /\ (d \in req[p].walk \/ d = req[p].conn)
        BY <2>1 DEF ToAttach
    <2>3. CASE p = q
        <3>1. d \in req[q].walk \ {req[q].conn}
            BY <1>0, <2>1, <2>2, <2>3
        <3> QED BY <1>0, <2>1, <2>3, <3>1 DEF ToAttach
    <2>4. CASE p # q
        BY <1>0, <2>2, <2>4 DEF ToAttach
    <2> QED BY <2>3, <2>4
  <1>8. Detached'
    BY <1>0 DEF Calm, OneKind, Coming, Detached, ToDetach, RequestsOK, ConnsOK, Ended, Idle
  <1>9. ToldMember'
    BY <1>0 DEF Calm, OneKind, Coming, ToldMember, ToTell, ConnsOK, Idle
  <1>10. ToldStranger'
    BY <1>0 DEF Calm, OneKind, Coming, ToldStranger, ToTell, ConnsOK, Ended, Idle
  <1>11. ToldGone'
    BY <1>0 DEF Calm, OneKind, Coming, RowsOK, ToldGone, Announcing, ConnsOK, Ended, Idle
  <1> QED BY <1>1, <1>2, <1>3, <1>4, <1>5, <1>6, <1>7, <1>8, <1>9, <1>10, <1>11

\* notifyUser puts a frame in, drops it, or panics.
LEMMA TellStep ==
    ASSUME Inv, NEW q \in Request, NEW c \in Conn, Tell(q, c)
    PROVE  Inv'
  <1> USE SessionConstants DEF Inv, Typed, Joining, Busy, OthersKeep, RequestRecord
  <1>0. /\ req[q].stage = "tell" /\ req[q].conn = NoConn /\ req[q].verb # "delete"
        /\ c \in req[q].walk /\ at[c] # "new"
        /\ OthersKeep(q)
        /\ req'[q] = Idle \/ req'[q] = [stage |-> "tell", verb |-> req[q].verb, walk |-> req[q].walk \ {c}, conn |-> NoConn]
        /\ req' \in [Request -> RequestRecord]
        /\ queued' \in [Conn -> 0 .. SendCap] /\ lists' \in [Conn -> BOOLEAN]
        /\ \A d \in Conn \ {c} : lists'[d] = lists[d]
        /\ missed \subseteq missed' /\ missed' \subseteq Conn /\ early \subseteq early'
        /\ early' \subseteq Conn
        /\ panics \subseteq panics' /\ panics' \subseteq {"walk", "hub"}
        /\ lists'[c] => lists[c] \/ c \in early' \/ at[c] \notin {"snapshot", "push"}
        /\ panics' = {} => /\ req'[q] # Idle
                           /\ c \in missed' \/ (lists'[c] <=> req[q].verb # "leave")
        /\ UNCHANGED <<room, member, registry, subscribed, feed, hubs, nilled, locked, at, snap,
                       open, closed, failed, crossed>>
    <2> USE DEF Tell, Doing, Alive, tables, hubvars, entries, place, frames, ends, marks
    <2>1. /\ req[q].stage = "tell" /\ req[q].conn = NoConn /\ req[q].verb # "delete" /\ at[c] # "new"
          /\ req[q].verb \in AllVerbs /\ req[q].walk \subseteq Conn
        BY DEF RequestsOK, TypeOK
    <2>2. ASSUME NEW r, r \in RequestRecord, req' = [req EXCEPT ![q] = r]
          PROVE  req' \in [Request -> RequestRecord] /\ req'[q] = r /\ OthersKeep(q)
        BY <2>2 DEF TypeOK, RequestRecord
    <2>3. CASE c \in closed
        <3>1. Idle \in RequestRecord /\ req' = [req EXCEPT ![q] = Idle]
            BY <2>3 DEF Idle, RequestRecord, Stages, AllVerbs, Done
        <3> HIDE DEF Idle
        <3>2. req' \in [Request -> RequestRecord] /\ req'[q] = Idle /\ OthersKeep(q)
            BY <2>2, <3>1
        <3> QED BY <2>1, <2>3, <3>2 DEF frames, TypeOK, RequestRecord
    <2>4. CASE c \notin closed
        <3> DEFINE r == [stage |-> "tell", verb |-> req[q].verb, walk |-> req[q].walk \ {c}, conn |-> NoConn]
        <3>1. r \in RequestRecord /\ req' = [req EXCEPT ![q] = r] /\ r # Idle
            BY <2>1, <2>4 DEF RequestRecord, Stages, Visited, Become, Idle
        <3>2. req' \in [Request -> RequestRecord] /\ req'[q] = r /\ OthersKeep(q)
            <4> HIDE DEF r
            <4> QED BY <2>2, <3>1
        <3>3. CASE ~HasRoom(c)
            <4>1. missed' = missed \union {c} /\ panics' = panics /\ UNCHANGED <<queued, lists,
                                                                                 early>>
                BY <2>4, <3>3
            <4> QED BY <2>1, <2>4, <3>1, <3>2, <4>1 DEF TypeOK, RequestRecord
        <3>4. CASE HasRoom(c)
            <4>1. queued' \in [Conn -> 0 .. SendCap]
                <5>1. \A d \in Conn : (IF d \in {c} THEN queued[d] + 1 ELSE queued[d]) \in 0 .. SendCap
                    BY <3>4 DEF HasRoom, TypeOK
                <5> QED BY <2>4, <3>4, <5>1 DEF Put
            <4>2. /\ lists' \in [Conn -> BOOLEAN] /\ lists'[c] = (req[q].verb # "leave")
                  /\ \A d \in Conn \ {c} : lists'[d] = lists[d]
                BY <2>4, <3>4 DEF Put, Listed, Frame, TypeOK
            <4>3. missed' = missed /\ early' = IF at[c] \in {"snapshot", "push"} THEN early \union {c} ELSE early
                BY <2>4, <3>4 DEF NoteEarly
            <4>4. /\ missed' \subseteq Conn /\ early \subseteq early' /\ early' \subseteq Conn
                  /\ c \in early' \/ at[c] \notin {"snapshot", "push"}
                BY <4>3 DEF TypeOK
            <4>5. panics' = panics /\ panics' \subseteq {"walk", "hub"}
                BY <2>4 DEF TypeOK
            <4> QED BY <2>1, <3>1, <3>2, <4>1, <4>2, <4>3, <4>4, <4>5 DEF RequestRecord
        <3> QED BY <3>3, <3>4
    <2> QED BY <2>3, <2>4
  <1>1. TypeOK'
    BY <1>0 DEF TypeOK, Places, Stages, AllVerbs
  <1>2. RequestsOK'
    BY <1>0 DEF TypeOK, RequestsOK, ConnsOK, Idle
  <1>3. ConnsOK'
    <2>1. \A d \in subscribed' : \/ d \in hubs' \/ at'[d] \in {"record", "unregister"} \/ d \in locked'
                                \/ \E p \in Request : req'[p].conn = d
        BY <1>0 DEF TypeOK, ConnsOK
    <2>2. \A d \in Conn : at'[d] = "new" => ~lists'[d]
        BY <1>0 DEF TypeOK, ConnsOK
    <2>3. \A d \in Conn : at'[d] \in {"snapshot", "push"} => (lists'[d] => d \in early')
        BY <1>0 DEF TypeOK, ConnsOK
    <2>4. \A d \in Conn : d \in locked' => "walk" \in panics'
        BY <1>0 DEF TypeOK, ConnsOK
    <2> QED BY <1>0, <2>1, <2>2, <2>3, <2>4 DEF ConnsOK, Ended
  <1>4. RowsOK'
    BY <1>0 DEF RowsOK
  <1>5. OneKind'
    BY <1>0 DEF OneKind, Coming, RequestsOK, Idle
  <1>6. Wired'
    BY <1>0 DEF Calm, Wired, TypeOK, RequestsOK, ConnsOK, Ended, Idle
  <1>7. Reach'
    BY <1>0 DEF Calm, Reach, ToAttach, RequestsOK, ConnsOK, Idle
  <1>8. Detached'
    BY <1>0 DEF Calm, OneKind, Coming, Detached, ToDetach, RequestsOK, ConnsOK, Ended, Idle
  <1>9. ToldMember'
    <2> SUFFICES ASSUME Calm', failed' = {}, member', NEW d \in Conn, d \notin missed', d \notin early', open'[d],
                        at'[d] \in {"attach", "record", "live"} \/ (at'[d] = "push" /\ ~snap'[d])
                 PROVE  lists'[d] \/ ToTell(d)'
        BY DEF ToldMember
    <2>1. Calm /\ req[q].verb \in Joining /\ (lists[d] \/ ToTell(d))
        BY <1>0 DEF Calm, OneKind, RequestsOK, ToldMember
    <2>2. CASE d = c
        BY <1>0, <2>1, <2>2 DEF Calm
    <2>3. CASE d # c /\ ToTell(d)
        <3>1. PICK p \in Request : /\ req[p].verb # "delete"
                                  /\ \/ req[p].stage \in {"committed", "attach", "subscribe", "record"}
                                     \/ req[p].stage = "tell" /\ d \in req[p].walk
            BY <2>3 DEF ToTell
        <3>2. /\ req'[p].verb # "delete"
              /\ \/ req'[p].stage \in {"committed", "attach", "subscribe", "record"}
                 \/ req'[p].stage = "tell" /\ d \in req'[p].walk
            BY <1>0, <2>3, <3>1 DEF Calm
        <3> QED BY <3>2 DEF ToTell
    <2> QED BY <1>0, <2>1, <2>2, <2>3
  <1>10. ToldStranger'
    <2> SUFFICES ASSUME Calm', failed' = {}, ~member', room' # "deleted", NEW d \in Conn,
                        d \notin missed', d \notin early', d \notin nilled', lists'[d]
                 PROVE  ToTell(d)'
        BY DEF ToldStranger
    <2>1. Calm /\ req[q].verb = "leave"
        BY <1>0 DEF Calm, OneKind, RequestsOK, TypeOK, AllVerbs
    <2>2. d # c
        BY <1>0, <2>1 DEF Calm
    <2>3. ToTell(d)
        BY <1>0, <2>1, <2>2 DEF ToldStranger
    <2>4. PICK p \in Request : /\ req[p].verb # "delete"
                              /\ \/ req[p].stage \in {"committed", "attach", "subscribe", "record"}
                                 \/ req[p].stage = "tell" /\ d \in req[p].walk
        BY <2>3 DEF ToTell
    <2>5. /\ req'[p].verb # "delete"
          /\ \/ req'[p].stage \in {"committed", "attach", "subscribe", "record"}
             \/ req'[p].stage = "tell" /\ d \in req'[p].walk
        BY <1>0, <2>2, <2>4 DEF Calm
    <2> QED BY <2>5 DEF ToTell
  <1>11. ToldGone'
    BY <1>0 DEF Calm, OneKind, Coming, RowsOK, ToldGone, Announcing, ConnsOK, Ended, Idle
  <1> QED BY <1>1, <1>2, <1>3, <1>4, <1>5, <1>6, <1>7, <1>8, <1>9, <1>10, <1>11

\* detachUserFromRoom takes the room out of c.hubs.  A connection in the hub
\* that has no entry is one that somebody else is taking out.
LEMMA TakeEntryStep ==
    ASSUME Inv, NEW q \in Request, NEW c \in Conn, TakeEntry(q, c)
    PROVE  Inv'
  <1> USE SessionConstants DEF Inv, Typed, Joining, Busy, OthersKeep, RequestRecord
  <1>0. /\ req[q].stage = "detach" /\ req[q].conn = NoConn /\ req[q].verb = "leave"
        /\ c \in req[q].walk /\ c \notin locked /\ OthersKeep(q)
        /\ req'[q].verb = req[q].verb /\ req'[q].walk = req[q].walk \ {c} /\ hubs' = hubs \ {c}
        /\ \/ c \in hubs /\ req'[q].stage = "unsubscribe" /\ req'[q].conn = c
           \/ c \notin hubs /\ req'[q].stage = "detach" /\ req'[q].conn = NoConn
        /\ req' \in [Request -> RequestRecord] /\ at[c] # "new"
        /\ UNCHANGED <<room, member, registry, subscribed, feed, nilled, locked, at, snap, queued,
                       lists, early, missed, open, closed, panics, failed, crossed>>
    BY DEF TakeEntry, Doing, Visited, Become, Alive, TypeOK, tables, hubvars, entries, place,
       frames, ends, marks, RequestsOK, Stages, AllVerbs
  <1>1. TypeOK'
    BY <1>0 DEF TypeOK, Places, Stages, AllVerbs
  <1>2. RequestsOK'
    BY <1>0 DEF TypeOK, RequestsOK
  <1>3. ConnsOK'
    BY <1>0 DEF TypeOK, ConnsOK, Ended
  <1>4. RowsOK'
    BY <1>0 DEF RowsOK
  <1>5. OneKind'
    BY <1>0 DEF OneKind, Coming, RequestsOK, Idle
  <1>6. Wired'
    BY <1>0 DEF Calm, Wired, TypeOK, RequestsOK, ConnsOK, Ended, Idle
  <1>7. Reach'
    BY <1>0 DEF TypeOK, RequestsOK, ConnsOK, RowsOK, OneKind, Coming, Calm, Wired, Reach,
       ToAttach, Idle
  <1>8. Detached'
    <2> SUFFICES ASSUME Calm', ~member', room' = "there", NEW d \in Conn, d \notin nilled',
                        d \in hubs' \/ d \in subscribed'
                 PROVE  ToDetach(d)'
        BY DEF Detached
    <2>1. Calm /\ ToDetach(d)
        BY <1>0 DEF Calm, Detached
    <2>2. PICK p \in Request :
              /\ req[p].verb = "leave"
              /\ \/ req[p].stage \in {"committed", "tell"}
                 \/ req[p].stage \in {"detach", "unsubscribe"} /\ (d \in req[p].walk \/ d = req[p].conn)
        BY <2>1 DEF ToDetach
    <2>3. CASE p # q
        BY <1>0, <2>2, <2>3 DEF ToDetach
    <2>4. CASE p = q /\ (d # c \/ c \in hubs)
        BY <1>0, <2>2, <2>4 DEF ToDetach
    <2>5. CASE d = c /\ c \notin hubs
        <3>1. d \in subscribed /\ ~Coming(d) /\ at[d] \notin {"record", "unregister"} /\ d \notin locked
            BY <1>0, <2>1, <2>5 DEF Calm, OneKind, Coming, ConnsOK, Ended
        <3>2. PICK o \in Request : req[o].conn = d
            BY <2>5, <3>1 DEF ConnsOK
        <3>3. o # q /\ req[o].stage = "unsubscribe" /\ req[o].verb = "leave"
            BY <1>0, <2>1, <3>2 DEF RequestsOK, Calm, OneKind
        <3> QED BY <1>0, <3>2, <3>3 DEF ToDetach
    <2> QED BY <2>3, <2>4, <2>5
  <1>9. ToldMember'
    BY <1>0 DEF Calm, OneKind, Coming, ToldMember, ToTell, ConnsOK, Idle
  <1>10. ToldStranger'
    BY <1>0 DEF Calm, OneKind, Coming, ToldStranger, ToTell, ConnsOK, Ended, Idle
  <1>11. ToldGone'
    BY <1>0 DEF Calm, OneKind, Coming, RowsOK, ToldGone, Announcing, ConnsOK, Ended, Idle
  <1> QED BY <1>1, <1>2, <1>3, <1>4, <1>5, <1>6, <1>7, <1>8, <1>9, <1>10, <1>11

\* detachUserFromRoom has the hub forget it.
LEMMA UnsubscribeStep ==
    ASSUME Inv, NEW q \in Request, Unsubscribe(q)
    PROVE  Inv'
  <1> USE SessionConstants DEF Inv, Typed, Unsubscribe, Doing, Visited, Become, Alive, Joining,
     Busy, tables, hubvars, entries, place, frames, ends, marks
  <1>1. TypeOK'
    BY DEF TypeOK, Places, Stages, AllVerbs
  <1>2. RequestsOK'
    BY DEF TypeOK, RequestsOK
  <1>3. ConnsOK'
    BY DEF TypeOK, ConnsOK, Ended
  <1>4. RowsOK'
    BY DEF RowsOK
  <1>5. OneKind'
    BY DEF OneKind, Coming, RequestsOK, Idle
  <1>6. Wired'
    BY DEF TypeOK, RequestsOK, ConnsOK, RowsOK, OneKind, Coming, Calm, Wired, Ended, Idle
  <1>7. Reach'
    BY DEF Calm, Reach, ToAttach, RequestsOK, ConnsOK, Idle
  <1>8. Detached'
    BY DEF TypeOK, RequestsOK, ConnsOK, RowsOK, OneKind, Coming, Calm, Wired, Detached, ToDetach,
       Ended, Idle
  <1>9. ToldMember'
    BY DEF Calm, OneKind, Coming, ToldMember, ToTell, ConnsOK, Idle
  <1>10. ToldStranger'
    BY DEF Calm, OneKind, Coming, ToldStranger, ToTell, ConnsOK, Ended, Idle
  <1>11. ToldGone'
    BY DEF TypeOK, RequestsOK, ConnsOK, RowsOK, OneKind, Coming, Calm, Wired, Reach, ToAttach,
       ToldMember, ToTell, ToldGone, Announcing, Ended, Idle
  <1> QED BY <1>1, <1>2, <1>3, <1>4, <1>5, <1>6, <1>7, <1>8, <1>9, <1>10, <1>11

-----------------------------------------------------------------------------
(* The theorems.                                                           *)

\* Nothing is registered and nobody is busy at the start.
LEMMA InvInit == Init => Inv
  <1> SUFFICES ASSUME Init PROVE Inv
    OBVIOUS
  <1> USE SessionConstants DEF Init
  <1>1. TypeOK
    <2>1. req \in [Request -> RequestRecord]
      BY DEF RequestRecord, Stages, AllVerbs, Idle
    <2>2. at \in [Conn -> Places] /\ queued \in [Conn -> 0 .. SendCap]
      BY DEF Places
    <2> QED BY <2>1, <2>2 DEF TypeOK, RequestRecord
  <1>2. RequestsOK /\ RowsOK
    BY DEF RequestsOK, RowsOK, Idle, Busy
  <1>3. ConnsOK
    BY DEF ConnsOK, Ended
  <1>4. OneKind /\ Wired
    BY DEF OneKind, Coming, Wired, Idle, Busy
  <1>5. Reach /\ Detached /\ ToldMember /\ ToldStranger /\ ToldGone
    BY DEF Reach, Detached, ToldMember, ToldStranger, ToldGone
  <1> QED BY <1>1, <1>2, <1>3, <1>4, <1>5 DEF Inv, Typed

\* Every action keeps the invariant.
LEMMA InvNext == Inv /\ [Next]_vars => Inv'
  <1> SUFFICES ASSUME Inv, [Next]_vars PROVE Inv'
    OBVIOUS
  <1>1. ASSUME NEW c \in Conn, Up(c) \/ Drain(c) \/ PeerGone(c) \/ Down(c) PROVE Inv'
    BY <1>1, RegisterClientStep, ReadRoomsStep, PushSnapshotStep, AttachRoomStep, RecordHubStep,
       DrainStep, PeerGoneStep, TakeHubsStep, LeaveHubStep, ForgetStep, CloseSendStep DEF Up, Down
  <1>2. ASSUME NEW q \in Request, Commits(q) \/ ReadFails(q) PROVE Inv'
    BY <1>2, CreateCommitStep, JoinCommitStep, LeaveCommitStep, DeleteCommitStep, ReadFailsStep
    DEF Commits
  <1>3. ASSUME NEW q \in Request, Walk(q) PROVE Inv'
    <2>1. ASSUME NEW c \in Conn, CheckAttached(q, c) \/ Tell(q, c) \/ TakeEntry(q, c) PROVE Inv'
      BY <2>1, CheckAttachedStep, TellStep, TakeEntryStep
    <2> QED BY <1>3, <2>1, NextWalkStep, AnnounceDeletionStep, SubscribeStep, RecordStep,
               UnsubscribeStep DEF Walk
  <1>4. CASE HubSends \/ HubSendsDeletion
    BY <1>4, HubSendsStep, HubSendsDeletionStep
  <1>5. CASE UNCHANGED vars
    <2> USE <1>5 DEF vars, Inv, Typed, Busy
    <2>1. TypeOK' /\ RequestsOK' /\ ConnsOK' /\ RowsOK'
      BY DEF TypeOK, RequestsOK, ConnsOK, RowsOK
    <2>2. OneKind' /\ Wired'
      BY DEF OneKind, Coming, Wired, Calm
    <2>3. Reach' /\ Detached'
      BY DEF Reach, ToAttach, Detached, ToDetach, Calm
    <2>4. ToldMember' /\ ToldStranger' /\ ToldGone'
      BY DEF ToldMember, ToldStranger, ToldGone, ToTell, Announcing, Calm
    <2> QED BY <2>1, <2>2, <2>3, <2>4
  <1> QED BY <1>1, <1>2, <1>3, <1>4, <1>5 DEF Next

\* The invariant holds in every reachable state.
LEMMA Always == Spec => []Inv
  BY InvInit, InvNext, PTL DEF Spec

\* No send channel holds more than its capacity and no connection or request
\* leaves its domain, for any number of both (main.go 788-904, notify.go).
THEOREM TypeCorrect == Spec => []TypeOK
  <1>1. Inv => TypeOK
    BY DEF Inv, Typed
  <1> QED BY <1>1, Always, PTL

\* Registering before the snapshot is read leaves no gap: a joiner's connections
\* all end up in the hub, any number of them coming up and going down while any
\* number of requests join (main.go 817-838, notify.go 39-56).
THEOREM JoinReachesLiveHolds == Spec => []JoinReachesLive
  <1>1. Inv => JoinReachesLive
    <2> SUFFICES ASSUME Inv, Quiet, member, failed \subseteq {"room"}, NEW c \in Conn, Established(c)
                 PROVE  c \in subscribed /\ c \in hubs
      BY DEF JoinReachesLive
    <2>1. Calm /\ at[c] = "live" /\ open[c] /\ ~ToAttach(c)
      BY DEF Quiet, Calm, Established, ToAttach, Idle
    <2>2. c \in hubs
      BY <2>1 DEF Inv, Reach
    <2> QED BY <2>1, <2>2 DEF Inv, Wired
  <1> QED BY <1>1, Always, PTL

\* A leave detaches every connection of the leaver (notify.go 111-119, 60-77).
THEOREM LeaveDetachesHolds == Spec => []LeaveDetaches
  <1>1. Inv => LeaveDetaches
    <2> SUFFICES ASSUME Inv, Quiet, ~member, room = "there", NEW c \in Conn, Established(c)
                 PROVE  c \notin subscribed /\ c \notin hubs
      BY DEF LeaveDetaches
    <2>1. Calm /\ at[c] = "live" /\ ~ToDetach(c)
      BY DEF Quiet, Calm, Established, ToDetach, Idle
    <2>2. c \notin nilled
      BY <2>1 DEF Inv, Typed, ConnsOK, Ended
    <2> QED BY <2>1, <2>2 DEF Inv, Detached
  <1> QED BY <1>1, Always, PTL

\* What a client lists follows its membership through any sequence of joins,
\* leaves and deletions that do not cross (notify.go 91-119, 134-146).
THEOREM ListAgreesHolds == Spec => []ListAgrees
  <1>1. Inv => ListAgrees
    <2> SUFFICES ASSUME Inv, Quiet, failed = {}, ~feed, NEW c \in Conn, Established(c),
                        c \notin missed, c \notin early
                 PROVE  lists[c] = member
      BY DEF ListAgrees
    <2>1. Calm /\ at[c] = "live" /\ open[c] /\ ~ToTell(c) /\ ~Announcing
      BY DEF Quiet, Calm, Established, ToTell, Announcing, Idle
    <2>2. c \notin nilled /\ lists[c] \in BOOLEAN /\ member \in BOOLEAN
      BY <2>1 DEF Inv, Typed, TypeOK, ConnsOK, Ended
    <2>3. CASE member
      BY <2>1, <2>2, <2>3 DEF Inv, ToldMember
    <2>4. CASE ~member /\ room # "deleted"
      BY <2>1, <2>2, <2>4 DEF Inv, ToldStranger
    <2>5. CASE room = "deleted"
      <3>1. ~lists[c] /\ ~member
        BY <2>1, <2>2, <2>5 DEF Inv, ToldGone, Typed, RowsOK
      <3> QED BY <2>2, <3>1
    <2> QED BY <2>3, <2>4, <2>5
  <1> QED BY <1>1, Always, PTL

\* readPump never closes a channel that is in the hub: only a request in the
\* middle of attaching or detaching puts one there (main.go 862-881).
THEOREM ClosedLeavesHubHolds == Spec => []ClosedLeavesHub
  <1>1. Inv => ClosedLeavesHub
    <2> SUFFICES ASSUME Inv, NEW c \in closed \intersect subscribed
                 PROVE  c \in locked \/ \E q \in Request : req[q].conn = c
      BY DEF ClosedLeavesHub
    <2>1. c \in Conn /\ at[c] = "gone" /\ c \notin hubs
      BY DEF Inv, Typed, TypeOK, ConnsOK, Ended
    <2> QED BY <2>1 DEF Inv, Typed, ConnsOK
  <1> QED BY <1>1, Always, PTL

-----------------------------------------------------------------------------
(* What ends the process.  HubSurvives does not hold of every behaviour:    *)
(* "we snapshot the set so concurrent add/remove during iteration is safe" *)
(* is not so.  Two meetings of a walk with a readPump that ends are what    *)
(* it takes, and without them no walk leaves a mutex locked either.         *)

\* readPump does not take c.hubs while a request is between its two accesses
\* to the connection's entry.
EndingsSpareWalks ==
    [][\A c \in Conn : TakeHubs(c) => \A q \in Request : req[q].conn # c]_vars

\* A walk that attaches does not come to a connection of its copy that has
\* ended meanwhile.
WalksSpareEnded ==
    [][\A q \in Request, c \in Conn : CheckAttached(q, c) => c \notin nilled]_vars

\* No request is at an ended connection, and nothing has come of one that was.
NoneMet ==
    /\ HubSurvives
    /\ locked = {}
    /\ \A q \in Request : req[q].conn \notin nilled

\* No closed channel is in the hub.
LEMMA ClosedIsOut ==
    ASSUME Inv, NoneMet
    PROVE  subscribed \intersect closed = {}
  <1> SUFFICES ASSUME NEW c \in subscribed \intersect closed PROVE FALSE
    OBVIOUS
  <1>1. c \in Conn /\ at[c] = "gone" /\ c \notin hubs /\ c \in nilled
    BY DEF Inv, Typed, TypeOK, ConnsOK, Ended
  <1> QED BY <1>1 DEF Inv, Typed, ConnsOK, NoneMet

\* Without the two meetings a step keeps it so.
LEMMA NoneMetStep ==
    ASSUME Inv, NoneMet, [Next]_vars,
           [\A c \in Conn : TakeHubs(c) => \A q \in Request : req[q].conn # c]_vars,
           [\A q \in Request, c \in Conn : CheckAttached(q, c) => c \notin nilled]_vars
    PROVE  NoneMet'
  <1> USE SessionConstants DEF tables, hubvars, entries, place, frames, ends, marks
  <1>t. /\ req \in [Request -> RequestRecord]
        /\ nilled \subseteq Conn /\ NoConn \notin nilled
    BY DEF Inv, Typed, TypeOK, RequestRecord
  <1>n. HubSurvives /\ locked = {} /\ \A q \in Request : req[q].conn \notin nilled
    BY DEF NoneMet
  <1>1. ASSUME NEW c \in Conn, Up(c) \/ Drain(c) \/ PeerGone(c) \/ LeaveHub(c)
                                 \/ Forget(c) \/ CloseSend(c)
        PROVE  NoneMet'
    <2>1. UNCHANGED <<panics, locked, nilled, req>>
      BY <1>1 DEF Up, RegisterClient, ReadRooms, PushSnapshot, AttachRoom, RecordHub,
                  Drain, PeerGone, LeaveHub, Forget, CloseSend
    <2> QED BY <1>n, <2>1 DEF NoneMet, HubSurvives
  <1>2. ASSUME NEW c \in Conn, TakeHubs(c), ~UNCHANGED vars PROVE NoneMet'
    <2>1. nilled' = nilled \union {c} /\ UNCHANGED <<panics, locked, req>>
      BY <1>2 DEF TakeHubs
    <2>2. \A q \in Request : req[q].conn # c
      BY <1>2
    <2> QED BY <1>n, <2>1, <2>2 DEF NoneMet, HubSurvives
  <1>3. CASE HubSends \/ HubSendsDeletion
    <2>1. UNCHANGED <<locked, nilled, req>>
      BY <1>3 DEF HubSends, HubSendsDeletion
    <2>2. panics' = panics
      BY <1>3, ClosedIsOut DEF HubSends, HubSendsDeletion, Fanout
    <2> QED BY <1>n, <2>1, <2>2 DEF NoneMet, HubSurvives
  <1>4. ASSUME NEW q \in Request, req' = [req EXCEPT ![q] = Idle],
               UNCHANGED <<locked, nilled>>, panics' \subseteq panics \union {"walk"}
        PROVE  NoneMet'
    <2>1. \A p \in Request : req'[p].conn \notin nilled
      BY <1>4, <1>t, <1>n DEF Idle
    <2> QED BY <1>4, <1>n, <2>1 DEF NoneMet, HubSurvives
  <1>5. ASSUME NEW q \in Request, NEW stage, NEW walk, NEW c, c \notin nilled,
               Become(q, stage, walk, c), UNCHANGED <<panics, locked, nilled>>
        PROVE  NoneMet'
    <2>1. \A p \in Request : req'[p].conn \notin nilled
      BY <1>5, <1>t, <1>n DEF Become
    <2> QED BY <1>5, <1>n, <2>1 DEF NoneMet, HubSurvives
  <1>6. ASSUME NEW q \in Request, Commits(q) PROVE NoneMet'
    <2>1. PICK verb : Commit(q, verb)
      BY <1>6 DEF Commits, CreateCommit, JoinCommit, LeaveCommit, DeleteCommit
    <2>2. /\ req' = [req EXCEPT ![q] = [Idle EXCEPT !.stage = "committed", !.verb = verb]]
          /\ UNCHANGED <<panics, locked, nilled>>
      BY <2>1 DEF Commit
    <2>3. \A p \in Request : req'[p].conn \notin nilled
      BY <2>2, <1>t, <1>n DEF Idle
    <2> QED BY <1>n, <2>2, <2>3 DEF NoneMet, HubSurvives
  <1>7. ASSUME NEW q \in Request, NextWalk(q) PROVE NoneMet'
    <2>1. \/ \E stage : Become(q, stage, registry, NoConn)
          \/ req' = [req EXCEPT ![q] = Idle]
      BY <1>7 DEF NextWalk, Done
    <2>2. UNCHANGED <<panics, locked, nilled>>
      BY <1>7 DEF NextWalk
    <2> QED BY <1>4, <1>5, <1>t, <2>1, <2>2
  <1>8. ASSUME NEW q \in Request, AnnounceDeletion(q) \/ ReadFails(q) PROVE NoneMet'
    <2>1. req' = [req EXCEPT ![q] = Idle] /\ UNCHANGED <<panics, locked, nilled>>
      BY <1>8 DEF AnnounceDeletion, ReadFails, Done
    <2> QED BY <1>4, <2>1
  <1>9. ASSUME NEW q \in Request, NEW c \in Conn, CheckAttached(q, c), ~UNCHANGED vars
        PROVE  NoneMet'
    <2>1. /\ \/ Become(q, "attach", req[q].walk \ {c}, NoConn)
             \/ Become(q, "subscribe", req[q].walk \ {c}, c)
          /\ UNCHANGED <<panics, locked, nilled>>
      BY <1>9 DEF CheckAttached, Visited
    <2>2. c \notin nilled
      BY <1>9
    <2> QED BY <1>5, <1>t, <2>1, <2>2
  <1>10. ASSUME NEW q \in Request, Subscribe(q) \/ Unsubscribe(q) PROVE NoneMet'
    <2>1. /\ \/ Become(q, "record", req[q].walk, req[q].conn)
             \/ Become(q, "detach", req[q].walk \ {req[q].conn}, NoConn)
          /\ UNCHANGED <<panics, locked, nilled>>
      BY <1>10 DEF Subscribe, Unsubscribe, Visited
    <2> QED BY <1>5, <1>t, <1>n, <2>1
  <1>11. ASSUME NEW q \in Request, Record(q) PROVE NoneMet'
    <2>1. /\ Become(q, "attach", req[q].walk \ {req[q].conn}, NoConn)
          /\ UNCHANGED <<panics, locked, nilled>>
      BY <1>11, <1>n DEF Record, Visited
    <2> QED BY <1>5, <1>t, <2>1
  <1>12. ASSUME NEW q \in Request, NEW c \in Conn, Tell(q, c) PROVE NoneMet'
    <2>1. UNCHANGED <<locked, nilled>>
      BY <1>12 DEF Tell
    <2>2. CASE c \in closed
      <3>1. req' = [req EXCEPT ![q] = Idle] /\ panics' = panics \union {"walk"}
        BY <1>12, <2>2 DEF Tell, Done
      <3> QED BY <1>4, <2>1, <3>1
    <2>3. CASE c \notin closed
      <3>1. Become(q, "tell", req[q].walk \ {c}, NoConn) /\ panics' = panics
        BY <1>12, <2>3 DEF Tell, Visited
      <3> QED BY <1>5, <1>t, <2>1, <3>1
    <2> QED BY <2>2, <2>3
  <1>13. ASSUME NEW q \in Request, NEW c \in Conn, TakeEntry(q, c) PROVE NoneMet'
    <2>1. UNCHANGED <<panics, locked, nilled>>
      BY <1>13 DEF TakeEntry
    <2>2. CASE c \in hubs
      <3>1. Become(q, "unsubscribe", req[q].walk \ {c}, c)
        BY <1>13, <2>2 DEF TakeEntry
      <3>2. c \notin nilled
        BY <2>2 DEF Inv, Typed, ConnsOK
      <3> QED BY <1>5, <2>1, <3>1, <3>2
    <2>3. CASE c \notin hubs
      <3>1. Become(q, "detach", req[q].walk \ {c}, NoConn)
        BY <1>13, <2>3 DEF TakeEntry, Visited
      <3> QED BY <1>5, <1>t, <2>1, <3>1
    <2> QED BY <2>2, <2>3
  <1>14. ASSUME UNCHANGED vars PROVE NoneMet'
    <2>1. UNCHANGED <<panics, locked, nilled, req>>
      BY <1>14 DEF vars
    <2> QED BY <1>n, <2>1 DEF NoneMet, HubSurvives
  <1> QED
    BY <1>1, <1>2, <1>3, <1>6, <1>7, <1>8, <1>9, <1>10, <1>11, <1>12, <1>13, <1>14
    DEF Next, Down, Walk

\* The process dies, and a mutex stays locked, only because a walk is inside a
\* connection's entry when readPump takes c.hubs, or comes to attach a
\* connection of its copy that has ended.
THEOREM HubSurvivesUnlessRaced ==
    Spec /\ EndingsSpareWalks /\ WalksSpareEnded => [](HubSurvives /\ locked = {})
  <1>1. Init => NoneMet
    BY DEF Init, NoneMet, HubSurvives, Idle
  <1>2. NoneMet => HubSurvives /\ locked = {}
    BY DEF NoneMet
  <1> QED BY Always, <1>1, <1>2, NoneMetStep, PTL
          DEF Spec, EndingsSpareWalks, WalksSpareEnded

-----------------------------------------------------------------------------
(* Nobody makes a request wait.  RequestsProceed says it with ENABLED; here *)
(* it is said with what the request's steps ask for.                        *)

\* The conditions under which a step of Walk is open to a request.
HasStep(q) ==
    \/ req[q].stage = "committed" /\ req[q].verb = "delete"
    \/ /\ req[q].walk = {} /\ req[q].verb # "delete"
       /\ \E i \in 1 .. 3 : req[q].stage = Walks(req[q].verb)[i]
    \/ /\ req[q].stage \in {"attach", "tell", "detach"}
       /\ req[q].walk \intersect (Conn \ locked) # {}
    \/ req[q].stage \in {"subscribe", "record", "unsubscribe"} /\ req[q].conn \notin locked

\* A request that has just committed has copied no registry yet.
CommittedFresh == \A q \in Request : req[q].stage = "committed" => req[q].walk = {}

\* Only a commit leads to that stage.
LEMMA CommittedFreshStep ==
    ASSUME Inv, CommittedFresh, [Next]_vars
    PROVE  CommittedFresh'
  <1>t. req \in [Request -> RequestRecord]
    BY DEF Inv, Typed, TypeOK, RequestRecord
  <1>1. ASSUME NEW q \in Request, NEW verb, Commit(q, verb) PROVE CommittedFresh'
    BY <1>1, <1>t DEF Commit, Idle, CommittedFresh
  <1>2. ASSUME NEW q \in Request, NEW stage, NEW walk, NEW c, stage # "committed",
               Become(q, stage, walk, c)
        PROVE  CommittedFresh'
    BY <1>2, <1>t DEF Become, CommittedFresh
  <1>3. ASSUME NEW q \in Request, Done(q) PROVE CommittedFresh'
    BY <1>3, <1>t DEF Done, Idle, CommittedFresh
  <1>4. ASSUME NEW q \in Request, Commits(q) PROVE CommittedFresh'
    BY <1>1, <1>4 DEF Commits, CreateCommit, JoinCommit, LeaveCommit, DeleteCommit
  <1>5. ASSUME NEW q \in Request, NextWalk(q) PROVE CommittedFresh'
    <2>1. ASSUME NEW i \in 1 .. 2 PROVE Walks(req[q].verb)[i + 1] # "committed"
      BY DEF Walks
    <2>2. \/ \E i \in 1 .. 2 : Become(q, Walks(req[q].verb)[i + 1], registry, NoConn)
          \/ Done(q)
      BY <1>5 DEF NextWalk
    <2> QED BY <1>2, <1>3, <2>1, <2>2
  <1>6. ASSUME NEW q \in Request, Walk(q) \/ ReadFails(q), ~NextWalk(q)
        PROVE  CommittedFresh'
    <2>1. \/ Done(q)
          \/ \E walk, c : \E stage \in Stages \ {"committed"} : Become(q, stage, walk, c)
      BY <1>6 DEF Walk, ReadFails, AnnounceDeletion, Subscribe, Record, Unsubscribe,
                  CheckAttached, Tell, TakeEntry, Visited, Stages
    <2> QED BY <1>2, <1>3, <2>1
  <1>7. ASSUME req' = req PROVE CommittedFresh'
    BY <1>7 DEF CommittedFresh
  <1>8. ASSUME NEW c \in Conn, Up(c) \/ Drain(c) \/ PeerGone(c) \/ Down(c)
        PROVE  req' = req
    BY <1>8 DEF Up, RegisterClient, ReadRooms, PushSnapshot, AttachRoom, RecordHub, Drain,
                PeerGone, Down, TakeHubs, LeaveHub, Forget, CloseSend
  <1>9. HubSends \/ HubSendsDeletion \/ UNCHANGED vars => req' = req
    BY DEF HubSends, HubSendsDeletion, vars
  <1> QED BY <1>4, <1>5, <1>6, <1>7, <1>8, <1>9 DEF Next

\* A request that is at work has a step whose conditions ask nothing of a
\* connection but a mutex that no panic left locked: no full channel, no
\* closing, gone or slow connection makes it wait.
THEOREM RequestsHaveSteps ==
    Spec => [](locked = {} => \A q \in Request : req[q] # Idle => HasStep(q))
  <1>1. Init => CommittedFresh
    BY DEF Init, CommittedFresh, Idle
  <1>2. Inv /\ CommittedFresh =>
            (locked = {} => \A q \in Request : req[q] # Idle => HasStep(q))
    <2> SUFFICES ASSUME Inv, CommittedFresh, locked = {}, NEW q \in Request, req[q] # Idle
                 PROVE  HasStep(q)
      OBVIOUS
    <2>1. req[q] \in RequestRecord /\ req[q].stage # "idle"
      BY DEF Inv, Typed, TypeOK, RequestsOK, RequestRecord
    <2>2. /\ req[q].stage \in {"attach", "subscribe", "record"} => req[q].verb \in Joining
          /\ req[q].stage \in {"detach", "unsubscribe"} => req[q].verb = "leave"
          /\ req[q].verb = "delete" => req[q].stage = "committed"
      BY <2>1 DEF Inv, Typed, RequestsOK, Busy
    <2>3. req[q].stage = "committed" => req[q].walk = {}
      BY DEF CommittedFresh
    <2>4. Walks(req[q].verb) = IF req[q].verb \in Joining
                               THEN <<"committed", "attach", "tell">>
                               ELSE <<"committed", "tell", "detach">>
      BY DEF Walks
    <2>5. CASE req[q].stage \in {"committed", "attach", "tell", "detach"} /\ req[q].walk = {}
      <3>1. CASE req[q].verb = "delete"
        BY <2>2, <3>1 DEF HasStep
      <3>2. CASE req[q].verb # "delete"
        <4>1. \E i \in 1 .. 3 : req[q].stage = Walks(req[q].verb)[i]
          BY <2>2, <2>4, <2>5 DEF Joining
        <4> QED BY <2>5, <3>2, <4>1 DEF HasStep
      <3> QED BY <3>1, <3>2
    <2>6. CASE req[q].stage \in {"attach", "tell", "detach"} /\ req[q].walk # {}
      BY <2>1, <2>6 DEF HasStep, RequestRecord
    <2>7. CASE req[q].stage \in {"subscribe", "record", "unsubscribe"}
      BY <2>7 DEF HasStep
    <2> QED BY <2>1, <2>3, <2>5, <2>6, <2>7 DEF RequestRecord, Stages
  <1> QED BY Always, <1>1, <1>2, CommittedFreshStep, PTL DEF Spec
=============================================================================
