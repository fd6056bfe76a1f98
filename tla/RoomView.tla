------------------------------ MODULE RoomView ------------------------------
(***************************************************************************)
(* A message on its way from handleIncomingMsg of server-go to the room    *)
(* the browser shows: stored under the next id, fanned out to the user's   *)
(* connection, fetched by selectRoom as history, and put on the page by    *)
(* app.js next to what arrives live.                                       *)
(*                                                                         *)
(* The user stays a member of every room.  Hub and send channel are the    *)
(* one queue wire: RoomHub is proved to keep its order and to drop nothing *)
(* while a connection stays attached.  A dropped slow client is a lost     *)
(* connection.  state.messages is left out: the page writes and never      *)
(* reads it.  What ClientLink models is two steps here, Lost and Connect.  *)
(* latest, settled and the field fed of an answer are history variables:   *)
(* the code has no such state, the properties need it.                     *)
(***************************************************************************)
EXTENDS Naturals, Sequences, FiniteSets, FiniteSetsExt

CONSTANTS
    Room,
    Sender,        \* other connections' readPumps
    Fetch,         \* calls of selectRoom that wait for their history
    HistoryLimit,  \* the limit selectRoom asks for (50 in the code)
    MaxMessage,    \* bound: messages stored
    None

Id == 1 .. MaxMessage
Message == [room : Room, id : Id]

ASSUME ViewConstants ==
    /\ HistoryLimit \in Nat \ {0}
    /\ MaxMessage \in Nat
    /\ None \notin Room \union Fetch \union Message

VARIABLES
    lastId,     \* the messages table's last id
    stored,     \* each room's message ids
    sending,    \* what a sender has stored and not yet published
    unsent,     \* ids stored by a sender that found no hub to publish to
    up,         \* whether the user's connection is up
    attaching,  \* rooms handleWebSocket has yet to attach the connection to
    attached,   \* rooms whose hub has the connection
    wire,       \* frames on their way to the browser
    active,     \* state.activeRoomId
    shown,      \* the messages in #messages
    lastMsg,    \* id of each room's last_message; 0 without one
    lastSeen,   \* state.lastSeen
    fetch,      \* the history requests
    latest,     \* the history request of the last selectRoom
    settled     \* whether the room on the page has its history and has been
                \* fed live since it was read

servervars == <<lastId, stored, sending, unsent>>
linkvars == <<up, attaching, attached>>
pagevars == <<active, shown, lastMsg, lastSeen>>
fetchvars == <<fetch, latest, settled>>
vars == <<lastId, stored, sending, unsent, up, attaching, attached, wire, active,
          shown, lastMsg, lastSeen, fetch, latest, settled>>

Frame == [type : {"msg"}, room : Room, id : Id]
         \union [type : {"snapshot"}, last : [Room -> 0 .. MaxMessage]]
Idle == [stage |-> "idle"]
Request == {Idle} \union [stage : {"asked"}, room : Room]
           \union [stage : {"answered"}, room : Room, msgs : SUBSET Id, fed : BOOLEAN]

\* A type invariant; no history answer is longer than asked for.
TypeOK ==
    /\ lastId \in 0 .. MaxMessage
    /\ stored \in [Room -> SUBSET (1 .. lastId)]
    /\ sending \in [Sender -> Message \union {None}]
    /\ unsent \subseteq Id
    /\ up \in BOOLEAN
    /\ attaching \subseteq Room /\ attached \subseteq Room
    /\ \A i \in DOMAIN wire : wire[i] \in Frame
    /\ active \in Room \union {None}
    /\ shown \subseteq Message
    /\ lastMsg \in [Room -> 0 .. MaxMessage]
    /\ lastSeen \in [Room -> 0 .. MaxMessage]
    /\ fetch \in [Fetch -> Request]
    /\ \A f \in Fetch : fetch[f].stage = "answered" =>
          Cardinality(fetch[f].msgs) <= HistoryLimit
    /\ latest \in Fetch \union {None}
    /\ settled \in BOOLEAN

\* A page that is connected to empty rooms and shows none of them.
Init ==
    /\ lastId = 0
    /\ stored = [r \in Room |-> {}]
    /\ sending = [s \in Sender |-> None]
    /\ unsent = {}
    /\ up = TRUE /\ attaching = {} /\ attached = Room
    /\ wire = <<>>
    /\ active = None
    /\ shown = {}
    /\ lastMsg = [r \in Room |-> 0]
    /\ lastSeen = [r \in Room |-> 0]
    /\ fetch = [f \in Fetch |-> Idle]
    /\ latest = None
    /\ settled = FALSE

\* The id of the newest message of a set, 0 without one.
Newest(ids) == Max(ids \union {0})

-----------------------------------------------------------------------------
(* handleIncomingMsg of another connection, after its checks.              *)

\* The INSERT and LastInsertId.
InsertMessage(s, r) ==
    /\ sending[s] = None /\ lastId < MaxMessage
    /\ lastId' = lastId + 1
    /\ stored' = [stored EXCEPT ![r] = @ \union {lastId'}]
    /\ sending' = [sending EXCEPT ![s] = [room |-> r, id |-> lastId']]
    /\ UNCHANGED <<unsent, linkvars, wire, pagevars, fetchvars>>

\* h.broadcast <- data, and the hub's fan-out.
PublishMessage(s) ==
    LET m == sending[s] IN
    /\ m # None
    /\ wire' = IF m.room \in attached
               THEN Append(wire, [type |-> "msg", room |-> m.room, id |-> m.id])
               ELSE wire
    /\ sending' = [sending EXCEPT ![s] = None]
    /\ UNCHANGED <<lastId, stored, unsent, linkvars, pagevars, fetchvars>>

\* The sender's c.hubs no longer has the room, or its hub is gone.
LoseMessage(s) ==
    /\ sending[s] # None
    /\ unsent' = unsent \union {sending[s].id}
    /\ sending' = [sending EXCEPT ![s] = None]
    /\ UNCHANGED <<lastId, stored, linkvars, wire, pagevars, fetchvars>>

-----------------------------------------------------------------------------
(* The user's connection.                                                  *)

\* The connection is lost with what was on its way.
Lost ==
    /\ up /\ up' = FALSE
    /\ attaching' = {} /\ attached' = {}
    /\ wire' = <<>>
    /\ fetch' = [f \in Fetch |->
                    IF fetch[f].stage = "answered" THEN [fetch[f] EXCEPT !.fed = FALSE]
                    ELSE fetch[f]]
    /\ settled' = FALSE
    /\ UNCHANGED <<servervars, pagevars, latest>>

\* handleWebSocket pushes the snapshot, in which a room has no last message if
\* reading it failed.  If myRoomsForSnapshot fails as a whole the snapshot has no
\* rooms, on which onSnapshot clears its list and throws, and nothing is attached.
Connect ==
    /\ ~up /\ up' = TRUE
    /\ \/ /\ \E failing \in SUBSET Room :
                wire' = <<[type |-> "snapshot", last |->
                             [r \in Room |-> IF r \in failing THEN 0 ELSE Newest(stored[r])]]>>
          /\ attaching' = Room
       \/ /\ wire' = <<[type |-> "snapshot", last |-> [r \in Room |-> 0]]>>
          /\ attaching' = {}
    /\ UNCHANGED <<servervars, attached, pagevars, fetchvars>>

\* One round of its loop over the rooms.
AttachClient(r) ==
    /\ r \in attaching
    /\ attaching' = attaching \ {r}
    /\ attached' = attached \union {r}
    /\ UNCHANGED <<servervars, up, wire, pagevars, fetchvars>>

-----------------------------------------------------------------------------
(* The page.                                                               *)

\* onSnapshot: state.rooms is replaced.
OnSnapshot ==
    /\ wire # <<>> /\ Head(wire).type = "snapshot"
    /\ lastMsg' = Head(wire).last
    /\ wire' = Tail(wire)
    /\ UNCHANGED <<servervars, linkvars, active, shown, lastSeen, fetchvars>>

\* markSeen, as the value of state.lastSeen after it.
Seen(r, id) == [lastSeen EXCEPT ![r] = Max({@, id})]

\* A mutant of the next definition: markSeen is forgotten.
OnMsgUnmarked ==
    /\ wire # <<>> /\ Head(wire).type = "msg"
    /\ LET r == Head(wire).room  id == Head(wire).id IN
          /\ lastMsg' = [lastMsg EXCEPT ![r] = id]
          /\ shown' = IF active = r THEN shown \union {[room |-> r, id |-> id]} ELSE shown
    /\ wire' = Tail(wire)
    /\ UNCHANGED <<servervars, linkvars, active, lastSeen, fetchvars>>

\* onMsg.
OnMsg ==
    /\ wire # <<>> /\ Head(wire).type = "msg"
    /\ LET r == Head(wire).room  id == Head(wire).id IN
          /\ lastMsg' = [lastMsg EXCEPT ![r] = id]
          /\ IF active = r
             THEN /\ shown' = shown \union {[room |-> r, id |-> id]}
                  /\ lastSeen' = Seen(r, id)
             ELSE UNCHANGED <<shown, lastSeen>>
    /\ wire' = Tail(wire)
    /\ UNCHANGED <<servervars, linkvars, active, fetchvars>>

\* selectRoom up to its fetch: the page is emptied.
SelectRoom(f, r) ==
    /\ fetch[f] = Idle
    /\ active' = r
    /\ shown' = {}
    /\ fetch' = [fetch EXCEPT ![f] = [stage |-> "asked", room |-> r]]
    /\ latest' = f
    /\ settled' = FALSE
    /\ UNCHANGED <<servervars, linkvars, wire, lastMsg, lastSeen>>

\* A mutant of the next definition: one more than the limit.
LatestOneMore(ids) == {id \in ids : Cardinality({j \in ids : j > id}) <= HistoryLimit}

\* listMessages: ORDER BY id DESC LIMIT.
LatestOf(ids) == {id \in ids : Cardinality({j \in ids : j > id}) < HistoryLimit}

\* handleGetMessages answers.
ListMessages(f) ==
    /\ fetch[f].stage = "asked"
    /\ LET r == fetch[f].room IN
       fetch' = [fetch EXCEPT ![f] = [stage |-> "answered", room |-> r,
                    msgs |-> LatestOf(stored[r]), fed |-> r \in attached]]
    /\ UNCHANGED <<servervars, linkvars, wire, pagevars, latest, settled>>

\* The request or its answer is lost (catch), or the answer is an error, which
\* selectRoom reads as an empty history.
FetchFails(f) ==
    /\ fetch[f] # Idle
    /\ fetch' = [fetch EXCEPT ![f] = Idle]
    /\ UNCHANGED <<servervars, linkvars, wire, pagevars, latest, settled>>

\* A mutant of the next definition: the history replaces what the page shows.
ShowHistoryAlone(f) ==
    LET q == fetch[f] IN
    /\ q.stage = "answered"
    /\ shown' = {[room |-> q.room, id |-> id] : id \in q.msgs}
    /\ lastSeen' = Seen(q.room, Newest(q.msgs))
    /\ fetch' = [fetch EXCEPT ![f] = Idle]
    /\ settled' = (settled \/ (f = latest /\ q.fed))
    /\ UNCHANGED <<servervars, linkvars, wire, active, lastMsg, latest>>

\* selectRoom after its fetch: the history goes below what the page shows by
\* now, whichever room that is of.
ShowHistory(f) ==
    LET q == fetch[f] IN
    /\ q.stage = "answered"
    /\ shown' = shown \union {[room |-> q.room, id |-> id] : id \in q.msgs}
    /\ lastSeen' = Seen(q.room, Newest(q.msgs))
    /\ fetch' = [fetch EXCEPT ![f] = Idle]
    /\ settled' = (settled \/ (f = latest /\ q.fed))
    /\ UNCHANGED <<servervars, linkvars, wire, active, lastMsg, latest>>

-----------------------------------------------------------------------------
Next ==
    \/ \E s \in Sender :
          \/ \E r \in Room : InsertMessage(s, r)
          \/ PublishMessage(s) \/ LoseMessage(s)
    \/ Lost \/ Connect \/ \E r \in Room : AttachClient(r)
    \/ OnSnapshot \/ OnMsg
    \/ \E f \in Fetch :
          \/ \E r \in Room : SelectRoom(f, r)
          \/ ListMessages(f) \/ FetchFails(f) \/ ShowHistory(f)

Spec == Init /\ [][Next]_vars

-----------------------------------------------------------------------------
\* Nothing more of the active room is on its way to the page.
Quiet ==
    /\ \A s \in Sender : sending[s] # None => sending[s].room # active
    /\ \A i \in DOMAIN wire : wire[i].type = "msg" => wire[i].room # active

\* History and live feed leave no gap: once the history of the room on the page
\* has come, read while the connection was attached, and nothing is on its way,
\* the page lacks only messages HistoryLimit newer ones pushed out and those
\* their sender never published.
NothingMissed ==
    settled /\ Quiet =>
        \A id \in stored[active] \ unsent :
            \/ [room |-> active, id |-> id] \in shown
            \/ Cardinality({j \in stored[active] : j > id}) >= HistoryLimit

\* The room on the page has no unread badge once its history has come: what
\* renderSidebar compares, last_message and lastSeen, are fed by the snapshot,
\* by live messages and by the history, in any order.
BadgeClears == settled => lastMsg[active] <= lastSeen[active]
=============================================================================
