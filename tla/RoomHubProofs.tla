---------------------------- MODULE RoomHubProofs ----------------------------
(***************************************************************************)
(* Machine-checked proofs about RoomHub: at no time do two hubs serve the  *)
(* room, whoever is attached sits in the hub everybody else will find, and *)
(* an empty hub is always on its way out, for any number of clients, hubs, *)
(* senders and messages and any buffer sizes.  The hubs of a room          *)
(* implement RoomFanout, and, with history variables, what a subscriber    *)
(* has been handed is exactly the stretch of the stream since it came.     *)
(***************************************************************************)
EXTENDS RoomHub, SequenceTheorems, TLAPS

\* The map entry names the one hub that has been installed and not removed.
EntryIsAlive ==
    \A h \in Hub : current = h <=> status[h] \in {"installed", "running"}

\* Only a running hub has clients, and they are attached to it or leaving it.
ClientsBelong ==
    /\ \A h \in Hub : status[h] # "running" => clients[h] = {}
    /\ \A h \in Hub : \A c \in clients[h] :
          hub[c] = h /\ pc[c] \in {"attached", "unregister"}

\* One goroutine at most is about to start a hub, and that hub is installed.
StarterIsUnique ==
    /\ \A c \in Client : pc[c] = "start" =>
          hub[c] \in Hub /\ status[hub[c]] = "installed"
    /\ \A c, d \in Client : pc[c] = "start" /\ pc[d] = "start" => c = d

\* Whoever waits for a hub or is attached holds one; an attached client whose
\* connection is open is in that hub's set.
HolderIsServed ==
    \A c \in Client :
        /\ pc[c] \in {"register", "attached", "unregister"} => hub[c] \in Hub
        /\ pc[c] = "attached" /\ open[c] => c \in clients[hub[c]]

\* The inductive invariant.  OneHub and AttachedServed are not inductive by
\* themselves: they need to know which hub a goroutine between two steps holds.
IInv == TypeOK /\ EntryIsAlive /\ ClientsBelong /\ StarterIsUnique /\ HolderIsServed

USE HubConstants

-----------------------------------------------------------------------------
\* The invariant holds before any connection is made.
LEMMA InitIInv == Init => IInv
  BY SMT DEF Init, IInv, TypeOK, EntryIsAlive, ClientsBelong, StarterIsUnique,
             HolderIsServed, Statuses, Places

\* The key a behaviour is about does not change.
LEMMA SameRoom == [Next]_vars => roomID' = roomID
  BY DEF Next, vars, Attach, Detach, Send, Run, Connect, Disconnect, Drain,
         BeginAttach, Load, LoadOrStore, StartRun, Register, RegisterDone, Leave,
         Unregister, UnregisterDone, HandleIncomingMsg, NotifyRoom, Publish,
         PublishDone, Deliver, IdleFire, CloseDone

\* What the broadcast case does to the clients: those in full are dropped, the
\* others get the event.
Delivered(h, full) ==
    /\ Slow(h) \subseteq full
    /\ clients' = [clients EXCEPT ![h] = @ \ full]
    /\ send' = [c \in Client |->
                   IF c \in clients[h] \ full
                   THEN Append(send[c], Head(queue[h])) ELSE send[c]]
    /\ open' = [c \in Client |-> open[c] /\ c \notin full]

\* The broadcast case finds some set of clients without room.
LEMMA DeliverParts ==
    ASSUME NEW h \in Hub, Deliver(h)
    PROVE  \E full \in SUBSET clients[h] : Delivered(h, full)
  BY DEF Deliver, Delivered

\* Every step keeps every variable in its domain and every channel within its
\* capacity.
LEMMA TypeStep == TypeOK /\ [Next]_vars => TypeOK'
  <1> SUFFICES ASSUME TypeOK, [Next]_vars PROVE TypeOK'
    OBVIOUS
  <1> USE DEF TypeOK, Statuses, Places, hubvars, clientvars, Goto, Hold
  <1>1. ASSUME NEW c \in Client, Connect(c) PROVE TypeOK'
    BY <1>1 DEF Connect
  <1>2. ASSUME NEW c \in Client, Disconnect(c) PROVE TypeOK'
    BY <1>2 DEF Disconnect
  <1>3. ASSUME NEW c \in Client, Drain(c) PROVE TypeOK'
    <2>1. Tail(send[c]) \in Seq(Message) /\ Len(Tail(send[c])) <= SendCap
      BY <1>3, HeadTailProperties DEF Drain
    <2> QED BY <1>3, <2>1 DEF Drain
  <1>4. ASSUME NEW c \in Client, BeginAttach(c) PROVE TypeOK'
    BY <1>4 DEF BeginAttach
  <1>5. ASSUME NEW c \in Client, Load(c) PROVE TypeOK'
    BY <1>5 DEF Load
  <1>6. ASSUME NEW c \in Client, LoadOrStore(c) PROVE TypeOK'
    <2>1. CASE current # NoHub
      <3>1. /\ hub' = [hub EXCEPT ![c] = current] /\ pc' = [pc EXCEPT ![c] = "register"]
            /\ UNCHANGED <<current, status, clients, armed, queue, send, open, holds, roomID>>
        BY <1>6, <2>1 DEF LoadOrStore
      <3> QED BY <3>1
    <2>2. CASE current = NoHub
      <3>1. PICK h \in Hub : InstallFresh(h) /\ Hold(c, h)
        BY <1>6, <2>2 DEF LoadOrStore
      <3>2. pc' = [pc EXCEPT ![c] = "start"] /\ UNCHANGED <<send, open, holds, roomID>>
        BY <1>6, <2>2 DEF LoadOrStore
      <3>3. <<>> \in Seq(Message) /\ Len(<<>>) <= BroadcastCap
        OBVIOUS
      <3> QED BY <3>1, <3>2, <3>3 DEF InstallFresh
    <2> QED BY <2>1, <2>2
  <1>7. ASSUME NEW c \in Client, StartRun(c) PROVE TypeOK'
    BY <1>7 DEF StartRun, IdleTeardown
  <1>8. ASSUME NEW c \in Client, Register(c) PROVE TypeOK'
    BY <1>8 DEF Register, IdleTeardown
  <1>9. ASSUME NEW c \in Client, RegisterDone(c) PROVE TypeOK'
    BY <1>9 DEF RegisterDone
  <1>10. ASSUME NEW c \in Client, Leave(c) PROVE TypeOK'
    BY <1>10 DEF Leave
  <1>11. ASSUME NEW c \in Client, Unregister(c) PROVE TypeOK'
    BY <1>11 DEF Unregister, IdleTeardown
  <1>12. ASSUME NEW c \in Client, UnregisterDone(c) PROVE TypeOK'
    BY <1>12 DEF UnregisterDone
  <1>13. ASSUME NEW s \in Sender, HandleIncomingMsg(s) PROVE TypeOK'
    BY <1>13 DEF HandleIncomingMsg
  <1>14. ASSUME NEW s \in Sender, NotifyRoom(s) PROVE TypeOK'
    BY <1>14 DEF NotifyRoom
  <1>15. ASSUME NEW s \in Sender, Publish(s) PROVE TypeOK'
    BY <1>15, AppendProperties DEF Publish
  <1>16. ASSUME NEW s \in Sender, PublishDone(s) PROVE TypeOK'
    BY <1>16 DEF PublishDone
  <1>17. ASSUME NEW h \in Hub, Deliver(h) PROVE TypeOK'
    <2>1. /\ Head(queue[h]) \in Message
          /\ Tail(queue[h]) \in Seq(Message)
          /\ Len(Tail(queue[h])) <= BroadcastCap
      BY <1>17, HeadTailProperties DEF Deliver
    <2>2. PICK full \in SUBSET clients[h] : Delivered(h, full)
      BY <1>17, DeliverParts
    <2>3. ASSUME NEW c \in Client
          PROVE  send'[c] \in Seq(Message) /\ Len(send'[c]) <= SendCap
      BY <2>1, <2>2, AppendProperties DEF Delivered, Slow
    <2> QED BY <1>17, <2>1, <2>2, <2>3 DEF Deliver, Delivered
  <1>18. ASSUME NEW h \in Hub, IdleFire(h) PROVE TypeOK'
    BY <1>18 DEF IdleFire, IdleTeardown
  <1>19. ASSUME NEW h \in Hub, CloseDone(h) PROVE TypeOK'
    BY <1>19 DEF CloseDone
  <1>20. CASE UNCHANGED vars
    BY <1>20 DEF vars
  <1> QED
    BY <1>1, <1>2, <1>3, <1>4, <1>5, <1>6, <1>7, <1>8, <1>9, <1>10, <1>11, <1>12,
       <1>13, <1>14, <1>15, <1>16, <1>17, <1>18, <1>19, <1>20
    DEF Next, Attach, Detach, Send, Run

-----------------------------------------------------------------------------
\* Every step preserves what relates hubs, clients and goroutines.
LEMMA IStep == IInv /\ [Next]_vars => IInv'
  <1> SUFFICES ASSUME IInv, [Next]_vars PROVE IInv'
    OBVIOUS
  <1> DEFINE Inv == EntryIsAlive /\ ClientsBelong /\ StarterIsUnique /\ HolderIsServed
  <1>t. TypeOK'
    BY TypeStep DEF IInv
  <1> SUFFICES Inv'
    BY <1>t DEF IInv
  <1> USE DEF IInv, TypeOK, Statuses, Places, hubvars, clientvars, Goto, Hold,
              EntryIsAlive, ClientsBelong, StarterIsUnique, HolderIsServed
  <1>1. ASSUME NEW c \in Client, Connect(c) PROVE Inv'
    BY <1>1 DEF Connect
  <1>2. ASSUME NEW c \in Client, Disconnect(c) PROVE Inv'
    BY <1>2 DEF Disconnect
  <1>3. ASSUME NEW c \in Client, Drain(c) PROVE Inv'
    BY <1>3 DEF Drain
  <1>4. ASSUME NEW c \in Client, BeginAttach(c) PROVE Inv'
    BY <1>4 DEF BeginAttach
  <1>5. ASSUME NEW c \in Client, Load(c) PROVE Inv'
    BY <1>5 DEF Load
  <1>6. ASSUME NEW c \in Client, LoadOrStore(c) PROVE Inv'
    <2>1. CASE current # NoHub
      <3>1. /\ hub' = [hub EXCEPT ![c] = current] /\ pc' = [pc EXCEPT ![c] = "register"]
            /\ pc[c] = "store"
            /\ UNCHANGED <<current, status, clients, armed, queue, send, open, holds>>
        BY <1>6, <2>1 DEF LoadOrStore
      <3> QED BY <2>1, <3>1
    <2>2. CASE current = NoHub
      <3>1. PICK h \in Hub : Unreferenced(h) /\ InstallFresh(h) /\ Hold(c, h)
        BY <1>6, <2>2 DEF LoadOrStore
      <3>2. pc[c] = "store" /\ pc' = [pc EXCEPT ![c] = "start"] /\ UNCHANGED open
        BY <1>6, <2>2 DEF LoadOrStore
      <3>3. /\ status[h] = "done" /\ \A d \in Client : hub[d] # h
            /\ current' = h /\ status' = [status EXCEPT ![h] = "installed"]
            /\ clients' = [clients EXCEPT ![h] = {}] /\ hub' = [hub EXCEPT ![c] = h]
        BY <3>1 DEF InstallFresh, Unreferenced
      <3>4. \A d \in Client : pc[d] # "start"
        BY <2>2
      <3>5. EntryIsAlive'
        BY <2>2, <3>3
      <3>6. ClientsBelong'
        BY <3>2, <3>3
      <3>7. StarterIsUnique'
        BY <3>2, <3>3, <3>4
      <3>8. HolderIsServed'
        BY <3>2, <3>3
      <3> QED BY <3>5, <3>6, <3>7, <3>8
    <2> QED BY <2>1, <2>2
  <1>7. ASSUME NEW c \in Client, StartRun(c) PROVE Inv'
    BY <1>7 DEF StartRun
  <1>8. ASSUME NEW c \in Client, Register(c) PROVE Inv'
    BY <1>8 DEF Register
  <1>9. ASSUME NEW c \in Client, RegisterDone(c) PROVE Inv'
    BY <1>9 DEF RegisterDone
  <1>10. ASSUME NEW c \in Client, Leave(c) PROVE Inv'
    BY <1>10 DEF Leave
  <1>11. ASSUME NEW c \in Client, Unregister(c) PROVE Inv'
    BY <1>11 DEF Unregister
  <1>12. ASSUME NEW c \in Client, UnregisterDone(c) PROVE Inv'
    <2>1. /\ hub[c] \in Hub /\ pc[c] = "unregister" /\ status[hub[c]] = "done"
          /\ hub' = [hub EXCEPT ![c] = NoHub] /\ pc' = [pc EXCEPT ![c] = "out"]
          /\ UNCHANGED <<current, status, clients, open>>
      BY <1>12 DEF UnregisterDone
    <2>2. ASSUME NEW h \in Hub, c \in clients[h] PROVE FALSE
      <3>1. hub[c] = h
        BY <2>2
      <3>2. clients[h] = {}
        BY <2>1, <3>1
      <3> QED BY <2>2, <3>2
    <2>3. EntryIsAlive' /\ StarterIsUnique'
      BY <2>1
    <2>4. ClientsBelong'
      BY <2>1, <2>2
    <2>5. HolderIsServed'
      BY <2>1
    <2> QED BY <2>3, <2>4, <2>5
  <1>13. ASSUME NEW s \in Sender, Send(s) PROVE Inv'
    BY <1>13 DEF Send, HandleIncomingMsg, NotifyRoom, Publish, PublishDone
  <1>14. ASSUME NEW h \in Hub, Deliver(h) PROVE Inv'
    <2>1. PICK full \in SUBSET clients[h] :
               /\ status[h] = "running"
               /\ clients' = [clients EXCEPT ![h] = @ \ full]
               /\ open' = [c \in Client |-> open[c] /\ c \notin full]
               /\ UNCHANGED <<current, status, pc, hub>>
      BY <1>14 DEF Deliver
    <2>2. \A g \in Hub : clients'[g] \subseteq clients[g]
      BY <2>1
    <2>3. EntryIsAlive' /\ StarterIsUnique'
      BY <2>1
    <2>4. ClientsBelong'
      BY <2>1, <2>2
    <2>5. HolderIsServed'
      BY <2>1
    <2> QED BY <2>3, <2>4, <2>5
  <1>15. ASSUME NEW h \in Hub, IdleFire(h) PROVE Inv'
    <2>1. CASE IdleTeardown /\ clients[h] = {} /\ current = h
      <3>1. /\ status[h] = "running" /\ current' = NoHub
            /\ status' = [status EXCEPT ![h] = "removed"]
            /\ UNCHANGED <<clients, pc, hub, open>>
        BY <1>15, <2>1 DEF IdleFire
      <3> QED BY <2>1, <3>1
    <2>2. CASE ~(IdleTeardown /\ clients[h] = {} /\ current = h)
      <3>1. UNCHANGED <<current, status, clients, pc, hub, open>>
        BY <1>15, <2>2 DEF IdleFire
      <3> QED BY <3>1
    <2> QED BY <2>1, <2>2
  <1>16. ASSUME NEW h \in Hub, CloseDone(h) PROVE Inv'
    BY <1>16 DEF CloseDone
  <1>17. CASE UNCHANGED vars
    BY <1>17 DEF vars
  <1> QED
    BY <1>1, <1>2, <1>3, <1>4, <1>5, <1>6, <1>7, <1>8, <1>9, <1>10, <1>11, <1>12,
       <1>13, <1>14, <1>15, <1>16, <1>17
    DEF Next, Attach, Detach, Run

\* The inductive invariant holds of every behaviour of the hubs.
THEOREM Invariant == Spec => []IInv
  BY InitIInv, IStep, PTL DEF Spec

\* Every variable stays in its domain, and no channel ever holds more than
\* its capacity.
THEOREM TypeCorrect == Spec => []TypeOK
  BY Invariant, PTL DEF IInv

\* Two hubs never serve the room at the same time, whatever registrations,
\* drops and idle timers race.
THEOREM OneHubHolds == Spec => []OneHub
  <1>1. IInv => OneHub
    BY DEF IInv, TypeOK, Statuses, EntryIsAlive, ClientsBelong, OneHub
  <1> QED BY Invariant, <1>1, PTL

\* A client attachClient has returned to is in the hub of the map as long as
\* its connection is open: the teardown never strands it.
THEOREM AttachedServedHolds == Spec => []AttachedServed
  <1>1. IInv => AttachedServed
    BY DEF IInv, TypeOK, Statuses, EntryIsAlive, ClientsBelong, HolderIsServed,
           AttachedServed
  <1> QED BY Invariant, <1>1, PTL

-----------------------------------------------------------------------------
\* What IdleTimerArmed says of one hub.
OnItsWayOut(h) ==
    status[h] = "running" /\ clients[h] = {} /\ IdleTeardown =>
        armed[h] \/ \E c \in Client : hub[c] = h /\ pc[c] \in {"attached", "unregister"}

\* Every step leaves an empty hub with a running idle timer or with a dropped
\* client that will start it.
LEMMA ArmedStep == IInv /\ IdleTimerArmed /\ [Next]_vars => IdleTimerArmed'
  <1> SUFFICES ASSUME IInv, IdleTimerArmed, [Next]_vars, NEW h \in Hub
               PROVE  OnItsWayOut(h)'
    BY DEF IdleTimerArmed, OnItsWayOut
  <1>i. OnItsWayOut(h)
    BY DEF IdleTimerArmed, OnItsWayOut
  <1>r. roomID' = roomID
    BY SameRoom
  <1> USE <1>i, <1>r DEF IInv, TypeOK, Statuses, Places, hubvars, clientvars, Goto, Hold,
                   ClientsBelong, HolderIsServed, OnItsWayOut, IdleTeardown
  <1>1. ASSUME NEW c \in Client, Connect(c) \/ Disconnect(c) \/ Drain(c)
        PROVE  OnItsWayOut(h)'
    BY <1>1 DEF Connect, Disconnect, Drain
  <1>2. ASSUME NEW c \in Client, BeginAttach(c) \/ Load(c) \/ RegisterDone(c)
        PROVE  OnItsWayOut(h)'
    <2>1. /\ UNCHANGED <<status, clients, armed>>
          /\ pc[c] \notin {"attached", "unregister"}
          /\ \A d \in Client \ {c} : pc'[d] = pc[d] /\ hub'[d] = hub[d]
      BY <1>2 DEF BeginAttach, Load, RegisterDone
    <2> QED BY <2>1
  <1>3. ASSUME NEW c \in Client, LoadOrStore(c) PROVE OnItsWayOut(h)'
    <2>1. CASE current # NoHub
      <3>1. /\ pc[c] = "store" /\ pc' = [pc EXCEPT ![c] = "register"]
            /\ hub' = [hub EXCEPT ![c] = current]
            /\ UNCHANGED <<status, clients, armed>>
        BY <1>3, <2>1 DEF LoadOrStore
      <3> QED BY <3>1
    <2>2. CASE current = NoHub
      <3>1. PICK g \in Hub : InstallFresh(g) /\ Hold(c, g)
        BY <1>3, <2>2 DEF LoadOrStore
      <3>2. pc[c] = "store" /\ pc' = [pc EXCEPT ![c] = "start"]
        BY <1>3, <2>2 DEF LoadOrStore
      <3> QED BY <3>1, <3>2 DEF InstallFresh
    <2> QED BY <2>1, <2>2
  <1>4. ASSUME NEW c \in Client, StartRun(c) PROVE OnItsWayOut(h)'
    <2>1. /\ hub[c] \in Hub /\ pc[c] = "start"
          /\ status' = [status EXCEPT ![hub[c]] = "running"]
          /\ armed' = [armed EXCEPT ![hub[c]] = IdleTeardown]
          /\ pc' = [pc EXCEPT ![c] = "register"] /\ UNCHANGED <<clients, hub>>
      BY <1>4 DEF StartRun, StarterIsUnique
    <2>2. CASE h = hub[c]
      <3>1. armed'[h] = IdleTeardown
        BY <2>1, <2>2, Zenon
      <3> QED BY <3>1
    <2>3. CASE h # hub[c]
      BY <2>1, <2>3
    <2> QED BY <2>2, <2>3
  <1>5. ASSUME NEW c \in Client, Register(c) PROVE OnItsWayOut(h)'
    <2>1. /\ hub[c] \in Hub /\ pc[c] = "register"
          /\ clients' = [clients EXCEPT ![hub[c]] = @ \union {c}]
          /\ armed' = [armed EXCEPT ![hub[c]] = @ /\ ~IdleTeardown]
          /\ pc' = [pc EXCEPT ![c] = "attached"] /\ UNCHANGED <<status, hub>>
      BY <1>5 DEF Register
    <2>2. CASE h = hub[c]
      BY <2>1, <2>2
    <2>3. CASE h # hub[c]
      BY <2>1, <2>3
    <2> QED BY <2>2, <2>3
  <1>6. ASSUME NEW c \in Client, Leave(c) PROVE OnItsWayOut(h)'
    BY <1>6 DEF Leave
  <1>7. ASSUME NEW c \in Client, Unregister(c) PROVE OnItsWayOut(h)'
    <2>1. /\ hub[c] \in Hub
          /\ clients' = [clients EXCEPT ![hub[c]] = @ \ {c}]
          /\ armed' = [armed EXCEPT ![hub[c]] =
                           @ \/ (clients'[hub[c]] = {} /\ IdleTeardown)]
          /\ hub' = [hub EXCEPT ![c] = NoHub] /\ pc' = [pc EXCEPT ![c] = "out"]
          /\ UNCHANGED status
      BY <1>7 DEF Unregister
    <2>2. CASE h = hub[c]
      <3>1. armed'[h] = (armed[h] \/ (clients'[h] = {} /\ IdleTeardown))
        BY <2>1, <2>2, Zenon
      <3> QED BY <3>1
    <2>3. CASE h # hub[c]
      BY <2>1, <2>3
    <2> QED BY <2>2, <2>3
  <1>8. ASSUME NEW c \in Client, UnregisterDone(c) PROVE OnItsWayOut(h)'
    BY <1>8 DEF UnregisterDone
  <1>9. ASSUME NEW s \in Sender, Send(s) PROVE OnItsWayOut(h)'
    BY <1>9 DEF Send, HandleIncomingMsg, NotifyRoom, Publish, PublishDone
  <1>10. ASSUME NEW g \in Hub, Deliver(g) PROVE OnItsWayOut(h)'
    <2>1. PICK full \in SUBSET clients[g] :
               /\ clients' = [clients EXCEPT ![g] = @ \ full]
               /\ UNCHANGED <<status, armed, pc, hub>>
      BY <1>10 DEF Deliver
    <2>2. CASE clients[h] = {}
      BY <2>1, <2>2
    <2>3. CASE clients[h] # {}
      BY <2>1, <2>3
    <2> QED BY <2>2, <2>3
  <1>11. ASSUME NEW g \in Hub, IdleFire(g) PROVE OnItsWayOut(h)'
    BY <1>11 DEF IdleFire
  <1>12. ASSUME NEW g \in Hub, CloseDone(g) PROVE OnItsWayOut(h)'
    BY <1>12 DEF CloseDone
  <1>13. CASE UNCHANGED vars
    BY <1>13 DEF vars
  <1> QED
    BY <1>1, <1>2, <1>3, <1>4, <1>5, <1>6, <1>7, <1>8, <1>9, <1>10, <1>11, <1>12, <1>13
    DEF Next, Attach, Detach, Run

\* An empty hub of a group room is always on its way out: its idle timer runs,
\* or a client the broadcast loop dropped is still to unregister.
THEOREM IdleTimerArmedHolds == Spec => []IdleTimerArmed
  <1>1. Init => IdleTimerArmed
    BY DEF Init, IdleTimerArmed
  <1> QED BY Invariant, <1>1, ArmedStep, PTL DEF Spec

-----------------------------------------------------------------------------
\* Only an idle timer that may tear the hub down takes the entry out of the map.
LEMMA EntryStep ==
    [Next]_vars /\ current # NoHub /\ ~IdleTeardown => current' = current
  <1> SUFFICES ASSUME [Next]_vars, current # NoHub, ~IdleTeardown
               PROVE  current' = current
    OBVIOUS
  <1> USE DEF hubvars, clientvars
  <1>1. ASSUME NEW c \in Client, LoadOrStore(c) PROVE current' = current
    BY <1>1 DEF LoadOrStore
  <1>2. ASSUME NEW h \in Hub, IdleFire(h) PROVE current' = current
    BY <1>2 DEF IdleFire
  <1>3. ASSUME NEW c \in Client,
               Connect(c) \/ Disconnect(c) \/ Drain(c) \/ BeginAttach(c) \/ Load(c)
                 \/ StartRun(c) \/ Register(c) \/ RegisterDone(c) \/ Detach(c)
        PROVE  current' = current
    BY <1>3 DEF Connect, Disconnect, Drain, BeginAttach, Load, StartRun, Register,
                RegisterDone, Detach, Leave, Unregister, UnregisterDone
  <1>4. ASSUME NEW s \in Sender, Send(s) PROVE current' = current
    BY <1>4 DEF Send, HandleIncomingMsg, NotifyRoom, Publish, PublishDone
  <1>5. ASSUME NEW h \in Hub, Deliver(h) \/ CloseDone(h) PROVE current' = current
    BY <1>5 DEF Deliver, CloseDone
  <1> QED BY <1>1, <1>2, <1>3, <1>4, <1>5 DEF Next, Attach, Run, vars

\* The lobby keeps its first hub for good, however many connections come and go.
THEOREM LobbyPermanentHolds == Spec => LobbyPermanent
  <1>1. [Next]_vars => [roomID = LobbyRoomID /\ current # NoHub => current' = current]_vars
    BY EntryStep DEF IdleTeardown
  <1> QED BY <1>1, PTL DEF Spec, LobbyPermanent

-----------------------------------------------------------------------------
\* Every step of the code is a step of RoomFanout or invisible there.
LEMMA FanoutStep == IInv /\ [Next]_vars => [Fanout!Next]_Fanout!fvars
  <1> SUFFICES ASSUME IInv, [Next]_vars PROVE Fanout!Next \/ UNCHANGED <<Subs, Feed, send>>
    BY DEF Fanout!fvars
  <1> DEFINE Goal == Fanout!Next \/ UNCHANGED <<Subs, Feed, send>>
  <1> HIDE DEF Goal
  <1> USE DEF IInv, TypeOK, Statuses, Places, hubvars, clientvars, Goto, Hold
  <1>1. ASSUME NEW c \in Client, Connect(c) PROVE Goal
    <2>1. c \notin Subs
      BY <1>1 DEF Connect, Subs, ClientsBelong
    <2>2. Fanout!Connect(c)
      BY <1>1, <2>1 DEF Connect, Fanout!Connect, Subs, Feed
    <2> QED BY <2>2 DEF Goal, Fanout!Next
  <1>2. ASSUME NEW c \in Client, Disconnect(c) PROVE Goal
    BY <1>2 DEF Goal, Disconnect, Subs, Feed
  <1>3. ASSUME NEW c \in Client, Drain(c) PROVE Goal
    <2>1. Fanout!Receive(c)
      BY <1>3 DEF Drain, Fanout!Receive, Subs, Feed
    <2> QED BY <2>1 DEF Goal, Fanout!Next
  <1>4. ASSUME NEW c \in Client,
               BeginAttach(c) \/ Load(c) \/ RegisterDone(c) \/ Leave(c) \/ UnregisterDone(c)
        PROVE  Goal
    BY <1>4 DEF Goal, BeginAttach, Load, RegisterDone, Leave, UnregisterDone, Subs, Feed
  <1>5. ASSUME NEW c \in Client, LoadOrStore(c) PROVE Goal
    <2>1. CASE current # NoHub
      BY <1>5, <2>1 DEF Goal, LoadOrStore, Subs, Feed
    <2>2. CASE current = NoHub
      <3>1. PICK h \in Hub : InstallFresh(h)
        BY <1>5, <2>2 DEF LoadOrStore
      <3>2. Subs' = {} /\ Feed' = <<>>
        BY <3>1 DEF InstallFresh, Subs, Feed
      <3>3. Subs = {} /\ Feed = <<>> /\ send' = send
        BY <1>5, <2>2 DEF LoadOrStore, Subs, Feed
      <3> QED BY <3>2, <3>3 DEF Goal
    <2> QED BY <2>1, <2>2
  <1>6. ASSUME NEW c \in Client, StartRun(c) PROVE Goal
    BY <1>6 DEF Goal, StartRun, Subs, Feed
  <1>7. ASSUME NEW c \in Client, Register(c) PROVE Goal
    <2>1. hub[c] = current /\ current \in Hub
      BY <1>7 DEF Register, EntryIsAlive, HolderIsServed
    <2>2. Fanout!Subscribe(c)
      BY <1>7, <2>1 DEF Register, Fanout!Subscribe, Subs, Feed
    <2> QED BY <2>2 DEF Goal, Fanout!Next
  <1>8. ASSUME NEW c \in Client, Unregister(c) PROVE Goal
    <2>1. hub[c] = current /\ current \in Hub
      BY <1>8 DEF Unregister, EntryIsAlive, HolderIsServed
    <2>2. Fanout!Unsubscribe(c)
      BY <1>8, <2>1 DEF Unregister, Fanout!Unsubscribe, Subs, Feed
    <2> QED BY <2>2 DEF Goal, Fanout!Next
  <1>9. ASSUME NEW s \in Sender, HandleIncomingMsg(s) \/ NotifyRoom(s) \/ PublishDone(s)
        PROVE  Goal
    BY <1>9 DEF Goal, HandleIncomingMsg, NotifyRoom, PublishDone, Subs, Feed
  <1>10. ASSUME NEW s \in Sender, Publish(s) PROVE Goal
    <2>1. PICK m \in Message : queue' = [queue EXCEPT ![holds[s]] = Append(@, m)]
      BY <1>10 DEF Publish
    <2>2. CASE holds[s] = current
      <3>1. Fanout!Publish(m)
        BY <1>10, <2>1, <2>2 DEF Publish, Fanout!Publish, Subs, Feed
      <3> QED BY <3>1 DEF Goal, Fanout!Next
    <2>3. CASE holds[s] # current
      BY <1>10, <2>1, <2>3 DEF Goal, Publish, Subs, Feed
    <2> QED BY <2>2, <2>3
  <1>11. ASSUME NEW h \in Hub, Deliver(h) PROVE Goal
    <2>1. h = current /\ current # NoHub
      BY <1>11 DEF Deliver, EntryIsAlive
    <2>2. Subs = clients[h] /\ Feed = queue[h]
      BY <2>1 DEF Subs, Feed
    <2>3. PICK full \in SUBSET clients[h] : Delivered(h, full)
      BY <1>11, DeliverParts
    <2>4. Subs' = clients[h] \ full /\ Feed' = Tail(queue[h])
      BY <1>11, <2>1, <2>3 DEF Deliver, Delivered, Subs, Feed
    <2>5. clients[h] \ full \in SUBSET {c \in Subs : Fanout!HasRoom(c)}
      BY <2>2, <2>3 DEF Delivered, Slow, Fanout!HasRoom
    <2>6. send' = [c \in Client |->
                     IF c \in Subs' THEN Append(send[c], Head(Feed)) ELSE send[c]]
      BY <2>2, <2>3, <2>4 DEF Delivered
    <2>7. Fanout!Fanout
      BY <1>11, <2>2, <2>4, <2>5, <2>6 DEF Deliver, Fanout!Fanout
    <2> QED BY <2>7 DEF Goal, Fanout!Next
  <1>12. ASSUME NEW h \in Hub, IdleFire(h) PROVE Goal
    <2>1. CASE IdleTeardown /\ clients[h] = {} /\ current = h
      <3>1. Fanout!Discard
        BY <1>12, <2>1 DEF IdleFire, Fanout!Discard, Subs, Feed
      <3> QED BY <3>1 DEF Goal, Fanout!Next
    <2>2. CASE ~(IdleTeardown /\ clients[h] = {} /\ current = h)
      BY <1>12, <2>2 DEF Goal, IdleFire, Subs, Feed
    <2> QED BY <2>1, <2>2
  <1>13. ASSUME NEW h \in Hub, CloseDone(h) PROVE Goal
    BY <1>13 DEF Goal, CloseDone, Subs, Feed
  <1>14. ASSUME UNCHANGED vars PROVE Goal
    <2>1. UNCHANGED <<current, clients, queue, send>>
      BY <1>14 DEF vars
    <2> QED BY <2>1 DEF Goal, Subs, Feed
  <1> HIDE DEF IInv, TypeOK, Statuses, Places, hubvars, clientvars, Goto, Hold
  <1>15. Goal
    BY <1>1, <1>2, <1>3, <1>4, <1>5, <1>6, <1>7, <1>8, <1>9, <1>10, <1>11, <1>12,
       <1>13, <1>14
    DEF Next, Attach, Detach, Send, Run
  <1> QED BY <1>15 DEF Goal

\* The hubs that serve a room one after the other implement RoomFanout: one
\* ordered feed, and no subscriber misses, repeats or reorders an event.
THEOREM FanoutRefinement == Spec => RefinesFanout
  <1>1. Init => Fanout!Init
    BY DEF Init, Fanout!Init, Subs, Feed
  <1> QED BY Invariant, <1>1, FanoutStep, PTL DEF Spec, RefinesFanout, Fanout!Spec

-----------------------------------------------------------------------------
(* Nobody waits for ever.  Liveness is left to the model checker; that     *)
(* there is no cycle of goroutines waiting for each other is safety.       *)

\* The hub has something to do by itself: its run loop is about to be started,
\* has an event to fan out, or is about to close done.
HubGoesOn(h) ==
    \/ status[h] = "installed" /\ \E c \in Client : pc[c] = "start" /\ hub[c] = h
    \/ status[h] = "running" /\ queue[h] # <<>>
    \/ status[h] = "removed"

\* A goroutine blocked in a select on a hub: one of its cases is ready, or the
\* hub itself goes on.  In particular the broadcast channel is never full for
\* good, and a hub that has left the map closes done for whoever still waits.
NobodyStuck ==
    /\ \A c \in Client : pc[c] \in {"register", "unregister"} =>
          status[hub[c]] \in {"running", "done"} \/ HubGoesOn(hub[c])
    /\ \A s \in Sender : holds[s] # NoHub =>
          \/ Len(queue[holds[s]]) < BroadcastCap \/ status[holds[s]] = "done"
          \/ HubGoesOn(holds[s])

\* A hub in the map whose run loop has not been started: the goroutine that
\* put it there is about to.
InstalledIsStarting ==
    \A h \in Hub : status[h] = "installed" => \E c \in Client : pc[c] = "start" /\ hub[c] = h

\* Whoever puts a hub into the map stays its starter until it is running.
LEMMA StartingStep == IInv /\ InstalledIsStarting /\ [Next]_vars => InstalledIsStarting'
  <1> SUFFICES ASSUME IInv, InstalledIsStarting, [Next]_vars,
                      NEW h \in Hub, status'[h] = "installed"
               PROVE  \E c \in Client : pc'[c] = "start" /\ hub'[c] = h
    BY DEF InstalledIsStarting
  <1> DEFINE Started == \E c \in Client : pc'[c] = "start" /\ hub'[c] = h
  <1> USE DEF IInv, TypeOK, Statuses, Places, hubvars, clientvars, Goto, Hold,
              InstalledIsStarting
  \* A step that leaves the hub and its starter alone.
  <1>0. ASSUME status[h] = "installed",
               \A c \in Client : pc[c] = "start" /\ hub[c] = h =>
                                    pc'[c] = "start" /\ hub'[c] = h
        PROVE  Started
    BY <1>0
  <1>1. ASSUME NEW c \in Client,
               Connect(c) \/ Disconnect(c) \/ Drain(c) \/ BeginAttach(c) \/ Load(c)
                 \/ Register(c) \/ RegisterDone(c)
        PROVE  Started
    <2>1. (status' = status /\ pc[c] # "start") \/ UNCHANGED <<status, pc, hub>>
      BY <1>1 DEF Connect, Disconnect, Drain, BeginAttach, Load, Register, RegisterDone
    <2>2. \A d \in Client \ {c} : pc'[d] = pc[d] /\ hub'[d] = hub[d]
      BY <1>1 DEF Connect, Disconnect, Drain, BeginAttach, Load, Register, RegisterDone
    <2> QED BY <1>0, <2>1, <2>2
  <1>2. ASSUME NEW c \in Client, LoadOrStore(c) PROVE Started
    <2>1. CASE current # NoHub
      <3>1. /\ hub' = [hub EXCEPT ![c] = current] /\ pc' = [pc EXCEPT ![c] = "register"]
            /\ pc[c] = "store" /\ status' = status
        BY <1>2, <2>1 DEF LoadOrStore
      <3> QED BY <1>0, <3>1
    <2>2. CASE current = NoHub
      <3>1. PICK g \in Hub : InstallFresh(g) /\ Hold(c, g)
        BY <1>2, <2>2 DEF LoadOrStore
      <3>2. /\ hub' = [hub EXCEPT ![c] = g] /\ pc' = [pc EXCEPT ![c] = "start"]
            /\ pc[c] = "store" /\ status' = [status EXCEPT ![g] = "installed"]
        BY <1>2, <2>2, <3>1 DEF LoadOrStore, InstallFresh
      <3>3. CASE h = g
        BY <3>2, <3>3
      <3>4. CASE h # g
        BY <1>0, <3>2, <3>4
      <3> QED BY <3>3, <3>4
    <2> QED BY <2>1, <2>2
  <1>3. ASSUME NEW c \in Client, StartRun(c) PROVE Started
    <2>1. /\ hub[c] \in Hub
          /\ status' = [status EXCEPT ![hub[c]] = "running"]
          /\ pc' = [pc EXCEPT ![c] = "register"] /\ hub' = hub
      BY <1>3 DEF StartRun, StarterIsUnique
    <2> QED BY <1>0, <2>1
  <1>4. ASSUME NEW c \in Client, Detach(c) PROVE Started
    <2>1. /\ status' = status /\ pc[c] # "start"
          /\ \A d \in Client \ {c} : pc'[d] = pc[d] /\ hub'[d] = hub[d]
      BY <1>4 DEF Detach, Leave, Unregister, UnregisterDone
    <2> QED BY <1>0, <2>1
  <1>5. ASSUME NEW s \in Sender, Send(s) PROVE Started
    BY <1>0, <1>5 DEF Send, HandleIncomingMsg, NotifyRoom, Publish, PublishDone
  <1>6. ASSUME NEW g \in Hub, Run(g) PROVE Started
    <2>1. /\ UNCHANGED <<pc, hub>>
          /\ status' = status \/ \E t \in {"removed", "done"} : status' = [status EXCEPT ![g] = t]
      BY <1>6 DEF Run, Deliver, IdleFire, CloseDone
    <2> QED BY <1>0, <2>1
  <1>7. CASE UNCHANGED vars
    BY <1>0, <1>7 DEF vars
  <1> QED
    BY <1>1, <1>2, <1>3, <1>4, <1>5, <1>6, <1>7 DEF Next, Attach

\* No goroutine of attachClient, of a detach or of a publication ever waits for
\* a hub that will not move: no cycle of goroutines waiting for one another,
\* and no hub that dies without telling those who already hold it.
THEOREM NobodyStuckHolds == Spec => []NobodyStuck
  <1>1. Init => InstalledIsStarting
    BY DEF Init, InstalledIsStarting
  <1>2. IInv /\ InstalledIsStarting => NobodyStuck
    <2> SUFFICES ASSUME IInv, InstalledIsStarting PROVE NobodyStuck
      OBVIOUS
    <2> USE DEF IInv, TypeOK, Statuses
    <2>1. ASSUME NEW h \in Hub
          PROVE  status[h] \in {"running", "done"} \/ HubGoesOn(h)
      BY <2>1 DEF InstalledIsStarting, HubGoesOn
    <2>2. ASSUME NEW h \in Hub
          PROVE  Len(queue[h]) < BroadcastCap \/ status[h] = "done" \/ HubGoesOn(h)
      <3>1. CASE status[h] = "running" /\ ~(Len(queue[h]) < BroadcastCap)
        <4>1. queue[h] # <<>>
          BY <3>1
        <4> QED BY <3>1, <4>1 DEF HubGoesOn
      <3> QED BY <2>1, <3>1
    <2>3. ASSUME NEW c \in Client, pc[c] \in {"register", "unregister"}
          PROVE  hub[c] \in Hub
      BY <2>3 DEF HolderIsServed
    <2>4. ASSUME NEW s \in Sender, holds[s] # NoHub PROVE holds[s] \in Hub
      BY <2>4
    <2> HIDE DEF IInv, TypeOK, Statuses
    <2> QED BY <2>1, <2>2, <2>3, <2>4 DEF NobodyStuck
  <1> QED BY Invariant, <1>1, StartingStep, <1>2, PTL DEF Spec

-----------------------------------------------------------------------------
(* What the connections of a room are handed, over the whole of a          *)
(* behaviour.  History variables record it; they watch the steps of        *)
(* RoomHub and constrain none of them.                                     *)

VARIABLES
    log,       \* the events run loops have fanned out, oldest first
    taken,     \* what the writePump of each connection has taken off send
    since      \* log and Handed as they were when a client last subscribed

history == <<log, taken, since>>

\* All that the connection has been handed since it was opened, in the order
\* its writePump takes it.
Handed(c) == taken[c] \o send[c]

InitHistory ==
    /\ log = <<>>
    /\ taken = [c \in Client |-> <<>>]
    /\ since = [c \in Client |-> [log |-> <<>>, handed |-> <<>>]]

Record ==
    /\ log' = IF \E h \in Hub : Deliver(h) THEN Append(log, Head(Feed)) ELSE log
    /\ taken' = [c \in Client |->
                    IF Connect(c) THEN <<>>
                    ELSE IF Drain(c) THEN Append(taken[c], Head(send[c])) ELSE taken[c]]
    /\ since' = [c \in Client |->
                    IF Register(c) THEN [log |-> log, handed |-> Handed(c)] ELSE since[c]]

RecordedSpec == Init /\ InitHistory /\ [][Next /\ Record]_<<vars, history>>

\* Since it subscribed, a client of the room's hub has been handed exactly the
\* events that were fanned out since then, each once and in that order, across
\* slow clients, reconnections and successions of hubs.
NoGap ==
    \A c \in Subs : \E s \in Seq(Message) :
        /\ log = since[c].log \o s
        /\ Handed(c) = since[c].handed \o s

\* The histories are sequences of events.
HistoryTypeOK ==
    /\ log \in Seq(Message)
    /\ taken \in [Client -> Seq(Message)]
    /\ since \in [Client -> [log : Seq(Message), handed : Seq(Message)]]

\* What one more event at the end of a concatenation is.
LEMMA AppendConcat ==
    \A s, t \in Seq(Message) : \A m \in Message :
        Append(s \o t, m) = s \o Append(t, m) /\ Append(t, m) \in Seq(Message)
  OBVIOUS

\* Moving the head of the second part to the end of the first changes nothing.
LEMMA MoveHead ==
    ASSUME NEW S, NEW s \in Seq(S), NEW t \in Seq(S), t # <<>>
    PROVE  Append(s, Head(t)) \o Tail(t) = s \o t
  <1>1. Head(t) \in S /\ Tail(t) \in Seq(S) /\ Head(t) = t[1]
    BY HeadTailProperties
  <1>2. Append(s, Head(t)) \o Tail(t) \in Seq(S) /\ s \o t \in Seq(S)
    BY <1>1, AppendProperties, ConcatProperties
  <1>3. Len(Append(s, Head(t)) \o Tail(t)) = Len(s \o t)
    BY <1>1, AppendProperties, ConcatProperties, HeadTailProperties
  <1>4. \A i \in 1 .. Len(s \o t) : (Append(s, Head(t)) \o Tail(t))[i] = (s \o t)[i]
    BY <1>1, AppendProperties, ConcatProperties, HeadTailProperties
  <1> QED BY <1>2, <1>3, <1>4, SeqEqual

\* Only a registration makes a client a subscriber.
LEMMA SubsStep ==
    ASSUME IInv, Next, NEW c \in Client, ~Register(c), c \in Subs'
    PROVE  c \in Subs
  <1> USE DEF IInv, TypeOK, Statuses, Places, hubvars, clientvars, Goto, Hold, Subs
  <1>1. ASSUME NEW d \in Client,
               \/ Connect(d) \/ Disconnect(d) \/ Drain(d) \/ BeginAttach(d) \/ Load(d)
               \/ StartRun(d) \/ RegisterDone(d) \/ Leave(d) \/ UnregisterDone(d)
        PROVE  c \in Subs
    BY <1>1 DEF Connect, Disconnect, Drain, BeginAttach, Load, StartRun, RegisterDone,
                Leave, UnregisterDone
  <1>2. ASSUME NEW d \in Client, LoadOrStore(d) PROVE c \in Subs
    BY <1>2 DEF LoadOrStore, InstallFresh
  <1>3. ASSUME NEW d \in Client, Register(d) PROVE c \in Subs
    <2>1. d # c /\ hub[d] \in Hub
      BY <1>3 DEF Register, HolderIsServed
    <2> QED BY <1>3, <2>1 DEF Register
  <1>4. ASSUME NEW d \in Client, Unregister(d) PROVE c \in Subs
    BY <1>4 DEF Unregister, HolderIsServed
  <1>5. ASSUME NEW s \in Sender, Send(s) PROVE c \in Subs
    BY <1>5 DEF Send, HandleIncomingMsg, NotifyRoom, Publish, PublishDone
  <1>6. ASSUME NEW h \in Hub, Run(h) PROVE c \in Subs
    BY <1>6 DEF Run, Deliver, IdleFire, CloseDone
  <1> QED BY <1>1, <1>2, <1>3, <1>4, <1>5, <1>6 DEF Next, Attach, Detach

\* Only a new connection, writePump and a run loop touch a send channel.
LEMMA SendStep ==
    ASSUME IInv, Next, NEW c \in Client, ~Connect(c), ~Drain(c),
           ~\E h \in Hub : Deliver(h)
    PROVE  send'[c] = send[c]
  <1> USE DEF IInv, TypeOK, hubvars, clientvars
  <1>1. ASSUME NEW d \in Client, Connect(d) \/ Drain(d) PROVE send'[c] = send[c]
    <2>1. d # c
      BY <1>1
    <2> QED BY <1>1, <2>1 DEF Connect, Drain
  <1>2. ASSUME NEW d \in Client, Disconnect(d) \/ Attach(d) \/ Detach(d)
        PROVE  send'[c] = send[c]
    BY <1>2 DEF Disconnect, Attach, BeginAttach, Load, LoadOrStore, StartRun, Register,
                RegisterDone, Detach, Leave, Unregister, UnregisterDone
  <1>3. ASSUME NEW s \in Sender, Send(s) PROVE send'[c] = send[c]
    BY <1>3 DEF Send, HandleIncomingMsg, NotifyRoom, Publish, PublishDone
  <1>4. ASSUME NEW h \in Hub, Run(h) PROVE send'[c] = send[c]
    BY <1>4 DEF Run, IdleFire, CloseDone
  <1> QED BY <1>1, <1>2, <1>3, <1>4 DEF Next

\* The run loop works on the hub of the map, and a step of it is no step of a
\* connection.
LEMMA DeliverAlone ==
    ASSUME IInv, NEW h \in Hub, Deliver(h)
    PROVE  /\ current = h /\ Feed = queue[h] /\ Feed # <<>>
           /\ Head(Feed) \in Message
           /\ \A c \in Client : ~Connect(c) /\ ~Drain(c) /\ ~Register(c)
  <1>1. queue[h] \in Seq(Message) /\ queue[h] # <<>> /\ queue' # queue
    <2>1. queue[h] \in Seq(Message) /\ queue[h] # <<>> /\ queue'[h] = Tail(queue[h])
      BY DEF IInv, TypeOK, Deliver
    <2>2. ASSUME NEW q \in Seq(Message), q # <<>> PROVE Tail(q) # q
      BY <2>2, HeadTailProperties, LenProperties
    <2> QED BY <2>1, <2>2, Zenon
  <1>2. current = h /\ current # NoHub
    BY DEF Deliver, IInv, EntryIsAlive
  <1>3. \A c \in Client : ~Connect(c) /\ ~Drain(c) /\ ~Register(c)
    BY <1>1 DEF Connect, Drain, Register, hubvars
  <1> QED BY <1>1, <1>2, <1>3, HeadTailProperties DEF Feed

\* What NoGap says of one client.
NoGapFor(c) ==
    \E s \in Seq(Message) : log = since[c].log \o s /\ Handed(c) = since[c].handed \o s

\* Every step keeps the histories sequences.
LEMMA HistoryTypeStep ==
    IInv /\ HistoryTypeOK /\ [Next /\ Record]_<<vars, history>> => HistoryTypeOK'
  <1> SUFFICES ASSUME IInv, HistoryTypeOK, Next /\ Record PROVE HistoryTypeOK'
    BY DEF HistoryTypeOK, history
  <1>1. log' \in Seq(Message)
    <2>1. CASE \E h \in Hub : Deliver(h)
      BY <2>1, DeliverAlone, AppendProperties DEF Record, HistoryTypeOK
    <2>2. CASE ~\E h \in Hub : Deliver(h)
      BY <2>2 DEF Record, HistoryTypeOK
    <2> QED BY <2>1, <2>2
  <1>2. taken' \in [Client -> Seq(Message)]
    <2>1. ASSUME NEW c \in Client, Drain(c) PROVE Append(taken[c], Head(send[c])) \in Seq(Message)
      BY <2>1, HeadTailProperties, AppendProperties DEF Drain, IInv, TypeOK, HistoryTypeOK
    <2>2. <<>> \in Seq(Message)
      OBVIOUS
    <2> QED BY <2>1, <2>2 DEF Record, HistoryTypeOK
  <1>3. since' \in [Client -> [log : Seq(Message), handed : Seq(Message)]]
    <2>1. \A c \in Client : Handed(c) \in Seq(Message)
      BY ConcatProperties DEF Handed, HistoryTypeOK, IInv, TypeOK
    <2> QED BY <2>1 DEF Record, HistoryTypeOK
  <1> QED BY <1>1, <1>2, <1>3 DEF HistoryTypeOK

\* Every step keeps each subscriber's stretch of the stream in step with log.
LEMMA NoGapStep ==
    IInv /\ HistoryTypeOK /\ NoGap /\ [Next /\ Record]_<<vars, history>> => NoGap'
  <1>1. ASSUME NoGap, UNCHANGED <<vars, history>> PROVE NoGap'
    BY <1>1 DEF NoGap, Handed, Subs, vars, history
  <1>2. ASSUME IInv, HistoryTypeOK, NoGap, Next, Record, NEW c \in Client, c \in Subs'
        PROVE  NoGapFor(c)'
    <2>t. /\ log \in Seq(Message) /\ taken[c] \in Seq(Message) /\ send[c] \in Seq(Message)
          /\ since[c].log \in Seq(Message) /\ since[c].handed \in Seq(Message)
          /\ Handed(c) \in Seq(Message)
      BY <1>2, ConcatProperties DEF HistoryTypeOK, IInv, TypeOK, Handed
    <2>1. CASE \E h \in Hub : Deliver(h)
      <3>1. PICK h \in Hub : Deliver(h)
        BY <2>1
      <3>2. /\ current = h /\ Feed = queue[h] /\ Head(Feed) \in Message
            /\ ~Connect(c) /\ ~Drain(c) /\ ~Register(c)
        BY <1>2, <3>1, DeliverAlone
      <3>a. PICK full \in SUBSET clients[h] : Delivered(h, full)
        BY <3>1, DeliverParts
      <3>3. c \in clients[h] \ full
        BY <1>2, <3>1, <3>a, <3>2 DEF Deliver, Delivered, Subs, IInv, TypeOK
      <3>4. send'[c] = Append(send[c], Head(Feed))
        BY <3>2, <3>3, <3>a DEF Delivered
      <3>5. /\ log' = Append(log, Head(Feed)) /\ taken'[c] = taken[c]
            /\ since'[c] = since[c]
        BY <1>2, <2>1, <3>2 DEF Record
      <3>6. c \in Subs
        BY <3>2, <3>3 DEF Subs
      <3>7. PICK s \in Seq(Message) :
               log = since[c].log \o s /\ Handed(c) = since[c].handed \o s
        BY <1>2, <3>6 DEF NoGap
      <3> DEFINE r == Append(s, Head(Feed))
      <3> HIDE DEF r
      <3>8. /\ r \in Seq(Message)
            /\ Append(since[c].log \o s, Head(Feed)) = since[c].log \o r
            /\ Append(since[c].handed \o s, Head(Feed)) = since[c].handed \o r
        <4>1. ASSUME NEW a \in Seq(Message)
              PROVE  Append(a \o s, Head(Feed)) = a \o r /\ r \in Seq(Message)
          BY <3>2, AppendConcat, Zenon DEF r
        <4> QED BY <2>t, <4>1, Zenon
      <3>9. /\ log' = since[c].log \o r
            /\ Append(Handed(c), Head(Feed)) = since[c].handed \o r
        BY <3>5, <3>7, <3>8
      <3>10. Append(taken[c] \o send[c], Head(Feed)) = taken[c] \o Append(send[c], Head(Feed))
        <4>1. ASSUME NEW a \in Seq(Message), NEW b \in Seq(Message)
              PROVE  Append(a \o b, Head(Feed)) = a \o Append(b, Head(Feed))
          BY <3>2, AppendConcat, Zenon
        <4> QED BY <2>t, <4>1, Zenon
      <3>11. Handed(c)' = Append(Handed(c), Head(Feed))
        BY <3>4, <3>5, <3>10 DEF Handed
      <3> QED BY <3>5, <3>8, <3>9, <3>11 DEF NoGapFor
    <2>2. CASE Register(c)
      <3>1. /\ ~Connect(c) /\ ~Drain(c) /\ send' = send /\ ~\E h \in Hub : Deliver(h)
        <4>1. pc'[c] = "attached" /\ pc[c] = "register" /\ send' = send
          BY <1>2, <2>2 DEF Register, Goto, IInv, TypeOK
        <4>2. ~Connect(c) /\ ~Drain(c)
          BY <4>1 DEF Connect, Drain
        <4>3. ~\E h \in Hub : Deliver(h)
          BY <1>2, <2>2, DeliverAlone
        <4> QED BY <4>1, <4>2, <4>3
      <3>2. /\ log' = log /\ taken'[c] = taken[c]
            /\ since'[c] = [log |-> log, handed |-> Handed(c)]
        BY <1>2, <2>2, <3>1 DEF Record
      <3>3. Handed(c)' = Handed(c)
        BY <3>1, <3>2 DEF Handed
      <3>4. log' = since'[c].log \o <<>> /\ Handed(c)' = since'[c].handed \o <<>>
        BY <2>t, <3>2, <3>3, ConcatEmptySeq
      <3>5. <<>> \in Seq(Message)
        OBVIOUS
      <3> QED BY <3>4, <3>5 DEF NoGapFor
    <2>3. CASE ~Register(c) /\ ~\E h \in Hub : Deliver(h)
      <3>1. c \in Subs
        BY <1>2, <2>3, SubsStep
      <3>2. log' = log /\ since'[c] = since[c]
        BY <1>2, <2>3 DEF Record
      <3>3. ~Connect(c)
        <4>1. current \in Hub /\ c \in clients[current]
          BY <1>2, <3>1 DEF Subs, IInv, TypeOK
        <4>2. pc[c] # "out"
          BY <1>2, <4>1 DEF IInv, ClientsBelong
        <4> QED BY <4>2 DEF Connect
      <3>4. Handed(c)' = Handed(c)
        <4>1. CASE Drain(c)
          <5>1. taken'[c] = Append(taken[c], Head(send[c]))
            BY <1>2, <3>3, <4>1 DEF Record
          <5>2. send[c] # <<>> /\ send'[c] = Tail(send[c])
            BY <1>2, <4>1 DEF Drain, IInv, TypeOK
          <5> QED BY <2>t, <5>1, <5>2, MoveHead DEF Handed
        <4>2. CASE ~Drain(c)
          <5>1. taken'[c] = taken[c]
            BY <1>2, <3>3, <4>2 DEF Record
          <5>2. send'[c] = send[c]
            BY <1>2, <2>3, <3>3, <4>2, SendStep
          <5> QED BY <5>1, <5>2 DEF Handed
        <4> QED BY <4>1, <4>2
      <3>5. NoGapFor(c)
        BY <1>2, <3>1 DEF NoGap, NoGapFor
      <3> QED BY <3>2, <3>4, <3>5 DEF NoGapFor
    <2> QED BY <2>1, <2>2, <2>3
  <1>3. ASSUME IInv, HistoryTypeOK, NoGap, Next, Record PROVE NoGap'
    <2>1. Subs' \subseteq Client
      <3>1. IInv'
        BY <1>3, IStep
      <3> QED BY <3>1 DEF IInv, TypeOK, Subs
    <2>2. \A c \in Client : c \in Subs' => NoGapFor(c)'
      BY <1>2, <1>3
    <2> QED BY <2>1, <2>2 DEF NoGap, NoGapFor
  <1> QED BY <1>1, <1>3

\* No subscriber misses, repeats or reorders an event, whatever hubs are
\* created and torn down, clients dropped and connections reopened meanwhile.
THEOREM DeliveryHasNoGap == RecordedSpec => []NoGap
  <1>1. Init /\ InitHistory => IInv /\ HistoryTypeOK /\ NoGap
    <2>1. Init => IInv
      BY InitIInv
    <2>2. InitHistory => HistoryTypeOK
      BY DEF InitHistory, HistoryTypeOK
    <2>3. Init => Subs = {}
      BY DEF Init, Subs
    <2> QED BY <2>1, <2>2, <2>3 DEF NoGap
  <1>2. IInv /\ [Next /\ Record]_<<vars, history>> => IInv'
    <2>1. [Next /\ Record]_<<vars, history>> => [Next]_vars
      OBVIOUS
    <2> QED BY <2>1, IStep
  <1> QED BY <1>1, <1>2, HistoryTypeStep, NoGapStep, PTL DEF RecordedSpec
=============================================================================
