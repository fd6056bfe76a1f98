-------------------------- MODULE KotlinHubProofs --------------------------
(***************************************************************************)
(* Machine-checked proofs about KotlinHub, for any number of sessions and  *)
(* hubs: what the Kotlin server's hub map keeps although computeIfAbsent,  *)
(* register and the idle check are steps of their own.                     *)
(***************************************************************************)
EXTENDS KotlinHub, TLAPS

USE KotlinConstants DEF KotlinConstants

\* A session holds a hub from getOrCreate to afterConnectionClosed.
HoldsHub == \A s \in Session : pc[s] \in {"found", "in"} <=> hub[s] # NoHub

\* A hub's clients have registered with it and have not been unregistered.
ClientsAreIn == \A h \in Hub : \A s \in clients[h] : pc[s] = "in" /\ hub[s] = h

\* Without the race, who has found a hub has found the one in the map.
FoundIsEntry == ~raced => \A s \in Session : pc[s] = "found" => entry = hub[s]

\* The inductive invariant.
IInv == TypeOK /\ HoldsHub /\ ClientsAreIn /\ FoundIsEntry /\ SplitOnlyByRace /\ CheckToCome

\* The room has no hub and no session to begin with.
LEMMA InitIInv == Init => IInv
  BY DEF Init, IInv, TypeOK, Places, HoldsHub, ClientsAreIn, FoundIsEntry, SplitOnlyByRace,
         CheckToCome

\* A step that leaves the map, the hubs and the idle check alone, and moves
\* sessions only between places where they hold no hub, keeps the invariant.
LEMMA AsideStep ==
    ASSUME IInv, TypeOK',
           UNCHANGED <<entry, clients, timer, checking, hub, dropped, raced>>,
           \A s \in Session : \/ pc'[s] = pc[s]
                              \/ pc[s] \notin {"found", "in"} /\ pc'[s] \notin {"found", "in"}
    PROVE  IInv'
  <1>1. HoldsHub' /\ ClientsAreIn'
    BY DEF IInv, TypeOK, HoldsHub, ClientsAreIn
  <1>2. FoundIsEntry' /\ SplitOnlyByRace'
    BY DEF IInv, FoundIsEntry, SplitOnlyByRace
  <1>3. CheckToCome'
    BY DEF IInv, CheckToCome
  <1> QED BY <1>1, <1>2, <1>3 DEF IInv

\* getOrCreate returns the hub of the map, which is the caller's from then on.
LEMMA GetOrCreateStep ==
    ASSUME IInv, NEW s \in Session, GetOrCreate(s)
    PROVE  IInv'
  <1> USE DEF IInv
  <1>1. PICK h \in Hub : /\ IF entry = NoHub THEN Fresh(h) ELSE h = entry
                         /\ entry' = h
                         /\ hub' = [hub EXCEPT ![s] = h]
                         /\ clients' = IF entry = NoHub THEN [clients EXCEPT ![h] = {}]
                                                        ELSE clients
                         /\ dropped' = IF entry = NoHub THEN [dropped EXCEPT ![h] = FALSE]
                                                        ELSE dropped
    BY DEF GetOrCreate
  <1>2. pc[s] = "admitted" /\ pc' = [pc EXCEPT ![s] = "found"] /\ hub[s] = NoHub
        /\ UNCHANGED <<exists, timer, checking, open, raced>>
    BY DEF GetOrCreate, HoldsHub
  <1>3. pc'[s] = "found" /\ hub'[s] = h
    BY <1>1, <1>2 DEF TypeOK
  <1>4. \A t \in Session \ {s} : pc'[t] = pc[t] /\ hub'[t] = hub[t]
    BY <1>1, <1>2 DEF TypeOK
  <1>5. \A g \in Hub : clients'[g] \subseteq clients[g] /\ s \notin clients[g]
    BY <1>1, <1>2 DEF TypeOK, ClientsAreIn
  <1>6. TypeOK'
    <2>1. \A g \in Hub : \A t \in clients'[g] : hub'[t] = g
      BY <1>4, <1>5 DEF TypeOK
    <2> QED BY <1>1, <1>2, <2>1 DEF TypeOK, Places
  <1>7. HoldsHub'
    BY <1>3, <1>4 DEF HoldsHub
  <1>8. ClientsAreIn'
    BY <1>4, <1>5 DEF TypeOK, ClientsAreIn
  <1>9. FoundIsEntry'
    BY <1>1, <1>2, <1>3, <1>4 DEF TypeOK, FoundIsEntry, HoldsHub
  <1>10. SplitOnlyByRace'
    BY <1>1, <1>2, <1>5 DEF SplitOnlyByRace
  <1>11. CheckToCome'
    BY <1>1, <1>3 DEF CheckToCome
  <1> QED BY <1>6, <1>7, <1>8, <1>9, <1>10, <1>11

\* A session's registration takes its hub out of idleness.
LEMMA RegisterStep ==
    ASSUME IInv, NEW s \in Session, Register(s)
    PROVE  IInv'
  <1> USE DEF IInv
  <1>1. hub[s] \in Hub /\ pc[s] = "found" /\ pc' = [pc EXCEPT ![s] = "in"]
        /\ UNCHANGED <<exists, entry, checking, hub, open, raced>>
    BY DEF Register, HoldsHub, TypeOK
  <1>2. clients'[hub[s]] = clients[hub[s]] \cup {s}
        /\ \A g \in Hub \ {hub[s]} : clients'[g] = clients[g] /\ timer'[g] = timer[g]
                                     /\ dropped'[g] = dropped[g]
    BY <1>1 DEF Register, TypeOK
  <1>3. pc'[s] = "in" /\ \A t \in Session \ {s} : pc'[t] = pc[t]
    BY <1>1 DEF TypeOK
  <1>4. TypeOK'
    BY <1>1, <1>2 DEF TypeOK, Register, Places
  <1>5. HoldsHub' /\ ClientsAreIn'
    BY <1>1, <1>2, <1>3 DEF TypeOK, HoldsHub, ClientsAreIn
  <1>6. FoundIsEntry'
    BY <1>1, <1>3 DEF FoundIsEntry
  <1>7. SplitOnlyByRace'
    BY <1>1, <1>2 DEF SplitOnlyByRace, FoundIsEntry
  <1>8. CheckToCome'
    <2>1. CASE entry = hub[s]
      BY <1>1, <1>2, <2>1 DEF CheckToCome
    <2>2. CASE entry # hub[s]
      BY <1>1, <1>2, <1>3, <2>2 DEF CheckToCome, TypeOK
    <2> QED BY <2>1, <2>2
  <1> QED BY <1>4, <1>5, <1>6, <1>7, <1>8

\* A failed send takes its session out of the hub, and says so when it was
\* the last one.
LEMMA SendFailsStep ==
    ASSUME IInv, NEW s \in Session, SendFails(s)
    PROVE  IInv'
  <1> USE DEF IInv
  <1>1. hub[s] \in Hub /\ s \in clients[hub[s]]
        /\ UNCHANGED <<exists, entry, timer, checking, pc, hub, raced>>
    BY DEF SendFails, TypeOK
  <1>2. clients'[hub[s]] = clients[hub[s]] \ {s}
        /\ dropped'[hub[s]] = (clients[hub[s]] = {s})
        /\ \A g \in Hub \ {hub[s]} : clients'[g] = clients[g] /\ dropped'[g] = dropped[g]
    BY <1>1 DEF SendFails, TypeOK
  <1>3. TypeOK'
    <2>1. dropped' \in [Hub -> BOOLEAN] /\ open' \in [Session -> BOOLEAN]
      BY <1>1 DEF TypeOK, SendFails
    <2>2. clients' \in [Hub -> SUBSET Session]
      BY <1>1 DEF TypeOK, SendFails
    <2>3. \A h \in Hub : \A t \in clients'[h] : hub'[t] = h
      BY <1>1, <1>2 DEF TypeOK
    <2> QED BY <1>1, <2>1, <2>2, <2>3 DEF TypeOK
  <1>4. HoldsHub' /\ FoundIsEntry'
    BY <1>1 DEF HoldsHub, FoundIsEntry
  <1>5. ClientsAreIn' /\ SplitOnlyByRace'
    BY <1>1, <1>2 DEF ClientsAreIn, SplitOnlyByRace
  <1>6. CheckToCome'
    <2>1. CASE entry = hub[s]
      BY <1>1, <1>2, <2>1 DEF CheckToCome
    <2>2. CASE entry # hub[s]
      BY <1>1, <1>2, <2>2 DEF CheckToCome, TypeOK
    <2> QED BY <2>1, <2>2
  <1> QED BY <1>3, <1>4, <1>5, <1>6

\* The last session to be unregistered leaves the timer running.
LEMMA UnregisterStep ==
    ASSUME IInv, NEW s \in Session, Unregister(s)
    PROVE  IInv'
  <1> USE DEF IInv
  <1>1. hub[s] \in Hub /\ pc[s] = "in"
        /\ UNCHANGED <<exists, entry, checking, open, dropped, raced>>
    BY DEF Unregister, HoldsHub, TypeOK
  <1>2. clients'[hub[s]] = clients[hub[s]] \ {s}
        /\ timer'[hub[s]] = (timer[hub[s]] \/ clients[hub[s]] = {s})
        /\ \A g \in Hub \ {hub[s]} : clients'[g] = clients[g] /\ timer'[g] = timer[g]
    BY <1>1 DEF Unregister, TypeOK
  <1>3. pc'[s] = "out" /\ hub'[s] = NoHub
        /\ \A t \in Session \ {s} : pc'[t] = pc[t] /\ hub'[t] = hub[t]
    BY DEF Unregister, Ended, TypeOK
  <1>4. \A h \in Hub : \A t \in clients'[h] : t # s /\ t \in clients[h]
    BY <1>1, <1>2 DEF TypeOK
  <1>5. TypeOK'
    <2>1. timer' \in [Hub -> BOOLEAN]
      BY <1>1 DEF TypeOK, Unregister
    <2>2. clients' \in [Hub -> SUBSET Session]
      BY <1>1 DEF TypeOK, Unregister
    <2>3. pc' \in [Session -> Places] /\ hub' \in [Session -> Hub \cup {NoHub}]
      BY DEF TypeOK, Unregister, Ended, Places
    <2>4. \A h \in Hub : \A t \in clients'[h] : hub'[t] = h
      BY <1>3, <1>4, <2>2 DEF TypeOK
    <2> QED BY <1>1, <2>1, <2>2, <2>3, <2>4 DEF TypeOK
  <1>6. HoldsHub' /\ FoundIsEntry'
    BY <1>1, <1>3 DEF HoldsHub, FoundIsEntry
  <1>7. ClientsAreIn'
    BY <1>3, <1>4 DEF ClientsAreIn, TypeOK
  <1>8. SplitOnlyByRace'
    BY <1>1, <1>4 DEF SplitOnlyByRace
  <1>9. CheckToCome'
    <2>1. CASE entry = hub[s]
      <3> SUFFICES ASSUME clients'[entry] = {}
                   PROVE  \/ timer'[entry] \/ checking' = entry \/ dropped'[entry]
                          \/ \E t \in Session : hub'[t] = entry /\ pc'[t] = "found"
        BY <1>1 DEF CheckToCome
      <3>1. clients[entry] = {s} \/ clients[entry] = {}
        BY <1>2, <2>1
      <3>2. CASE clients[entry] = {s}
        BY <1>2, <2>1, <3>2
      <3>3. CASE clients[entry] = {}
        <4>1. timer[entry] => timer'[entry]
          BY <1>2, <2>1
        <4>2. \A t \in Session : pc[t] = "found" => t # s
          BY <1>1
        <4> QED BY <1>1, <1>3, <2>1, <3>3, <4>1, <4>2 DEF CheckToCome
      <3> QED BY <3>1, <3>2, <3>3
    <2>2. CASE entry # hub[s]
      BY <1>1, <1>2, <1>3, <2>2 DEF CheckToCome, TypeOK
    <2> QED BY <2>1, <2>2
  <1> QED BY <1>5, <1>6, <1>7, <1>8, <1>9

\* A timer that goes off becomes the check that has begun.
LEMMA IdleDueStep ==
    ASSUME IInv, NEW h \in Hub, IdleDue(h)
    PROVE  IInv'
  <1> USE DEF IInv
  <1>1. checking' = h /\ checking = NoHub
        /\ UNCHANGED <<exists, entry, clients, pc, hub, open, dropped, raced>>
    BY DEF IdleDue
  <1>2. \A g \in Hub \ {h} : timer'[g] = timer[g]
    BY DEF IdleDue, TypeOK
  <1>3. TypeOK'
    BY <1>1 DEF TypeOK, IdleDue
  <1>4. HoldsHub' /\ ClientsAreIn' /\ FoundIsEntry' /\ SplitOnlyByRace'
    BY <1>1 DEF HoldsHub, ClientsAreIn, FoundIsEntry, SplitOnlyByRace
  <1>5. CheckToCome'
    BY <1>1, <1>2 DEF CheckToCome, TypeOK
  <1> QED BY <1>3, <1>4, <1>5

\* The check removes the entry by its key: either the entry was the checked
\* hub's and that hub is empty with nobody about to register, or it is a race.
LEMMA IdleCheckStep ==
    ASSUME IInv, NEW h \in Hub, IdleCheck(h)
    PROVE  IInv'
  <1> USE DEF IInv
  <1>1. checking = h /\ checking' = NoHub
        /\ UNCHANGED <<exists, clients, timer, pc, hub, open, dropped>>
    BY DEF IdleCheck
  <1>2. TypeOK' /\ HoldsHub' /\ ClientsAreIn'
    BY <1>1 DEF TypeOK, HoldsHub, ClientsAreIn, IdleCheck
  <1>3. CASE clients[h] # {}
    <2>1. UNCHANGED <<entry, raced>>
      BY <1>3 DEF IdleCheck, TypeOK
    <2> QED BY <1>1, <1>2, <1>3, <2>1 DEF FoundIsEntry, SplitOnlyByRace, CheckToCome
  <1>4. CASE clients[h] = {}
    <2>1. entry' = NoHub
      BY <1>4 DEF IdleCheck
    <2>2. ~raced' => ~raced /\ entry \in {h, NoHub} /\ \A s \in Session : pc[s] # "found"
      BY <1>4 DEF IdleCheck
    <2>3. FoundIsEntry' /\ SplitOnlyByRace'
      BY <1>1, <1>4, <2>2 DEF FoundIsEntry, SplitOnlyByRace
    <2>4. CheckToCome'
      BY <2>1 DEF CheckToCome
    <2> QED BY <1>2, <2>3, <2>4
  <1> QED BY <1>3, <1>4

\* Every step keeps the invariant.
LEMMA NextIInv == IInv /\ [Next]_vars => IInv'
  <1> SUFFICES ASSUME IInv, [Next]_vars PROVE IInv'
    OBVIOUS
  <1>1. ASSUME NEW s \in Session, Callbacks(s) PROVE IInv'
    <2>1. CASE RoomExists(s) \/ Refused(s) \/ PeerGone(s)
      <3>1. TypeOK'
        BY <2>1 DEF IInv, TypeOK, RoomExists, Refused, PeerGone, Places
      <3>2. \A t \in Session : \/ pc'[t] = pc[t]
                               \/ pc[t] \notin {"found", "in"} /\ pc'[t] \notin {"found", "in"}
        BY <2>1 DEF IInv, TypeOK, RoomExists, Refused, PeerGone
      <3> QED BY <2>1, <3>1, <3>2, AsideStep DEF RoomExists, Refused, PeerGone
    <2> QED BY <1>1, <2>1, GetOrCreateStep, RegisterStep, SendFailsStep, UnregisterStep
            DEF Callbacks
  <1>2. ASSUME DeleteRoom PROVE IInv'
    BY <1>2, AsideStep DEF DeleteRoom, IInv, TypeOK
  <1>3. ASSUME UNCHANGED vars PROVE IInv'
    BY <1>3, AsideStep DEF vars, IInv, TypeOK
  <1> QED BY <1>1, <1>2, <1>3, IdleDueStep, IdleCheckStep DEF Next

\* The invariant holds throughout.
LEMMA Invariant == Spec => []IInv
  <1> QED BY InitIInv, NextIInv, PTL DEF Spec

\* Domains, and that a session is a client of no hub but the one its
\* attributes name.
THEOREM TypeCorrect == Spec => []TypeOK
  BY Invariant, PTL DEF IInv

\* Nothing but an idle check that meets a session between getOrCreate and
\* register, or an entry that is no longer its hub's, splits a room.
THEOREM SplitOnlyByRaceHolds == Spec => []SplitOnlyByRace
  BY Invariant, PTL DEF IInv

\* An empty hub of the map is waited for, whatever sessions come, fail and go.
THEOREM CheckToComeHolds == Spec => []CheckToCome
  BY Invariant, PTL DEF IInv

-----------------------------------------------------------------------------
(* The race is the only cause: what the README promises, and more, holds as *)
(* long as no idle check meets a session that has found the checked hub,    *)
(* nor an entry that is no longer that hub's.                               *)

\* An idle check that removes an entry removes its own hub's, and nobody has
\* found that hub without having registered with it.
ChecksSpareSessions ==
  [][\A h \in Hub : IdleCheck(h) /\ clients[h] = {} =>
        /\ entry \in {h, NoHub}
        /\ \A s \in Session : ~(pc[s] = "found" /\ hub[s] = h)]_vars

\* A registered session whose connection is open gets what the room's later
\* sessions send: it is a client of the hub they will find.
SessionsServed ==
  \A s \in Session : pc[s] = "in" /\ open[s] => hub[s] = entry /\ s \in clients[hub[s]]

\* A registered session stays a client until its connection is not open.
RegisteredStay ==
  \A s \in Session : pc[s] = "in" /\ open[s] => s \in clients[hub[s]]

\* Only the end of its own connection takes a session out of its hub.
LEMMA RegisteredStayStep == IInv /\ RegisteredStay /\ [Next]_vars => RegisteredStay'
  <1> SUFFICES ASSUME IInv, RegisteredStay, [Next]_vars PROVE RegisteredStay'
    OBVIOUS
  <1> USE DEF IInv, TypeOK, RegisteredStay
  <1>1. ASSUME NEW s \in Session, RoomExists(s) \/ PeerGone(s) \/ Refused(s)
        PROVE  RegisteredStay'
    BY <1>1 DEF RoomExists, PeerGone, Refused
  <1>2. ASSUME NEW s \in Session, GetOrCreate(s) PROVE RegisteredStay'
    <2>1. PICK h \in Hub : /\ IF entry = NoHub THEN Fresh(h) ELSE h = entry
                           /\ hub' = [hub EXCEPT ![s] = h]
                           /\ clients' = IF entry = NoHub THEN [clients EXCEPT ![h] = {}]
                                                          ELSE clients
      BY <1>2 DEF GetOrCreate
    <2>2. pc[s] = "admitted" /\ pc' = [pc EXCEPT ![s] = "found"] /\ open' = open
      BY <1>2 DEF GetOrCreate
    <2> SUFFICES ASSUME NEW t \in Session, pc'[t] = "in", open'[t]
                 PROVE  t \in clients'[hub'[t]]
      OBVIOUS
    <2>3. t # s /\ hub'[t] = hub[t] /\ pc[t] = "in" /\ open[t]
      BY <2>1, <2>2
    <2>4. hub[t] \in Hub /\ t \in clients[hub[t]]
      BY <2>3 DEF HoldsHub
    <2>5. clients'[hub[t]] = clients[hub[t]]
      <3>1. CASE entry = NoHub
        <4>1. hub[t] # h
          BY <2>1, <3>1 DEF Fresh
        <4> QED BY <2>1, <2>4, <3>1, <4>1
      <3>2. CASE entry # NoHub
        BY <2>1, <3>2
      <3> QED BY <3>1, <3>2
    <2> QED BY <2>3, <2>4, <2>5
  <1>3. ASSUME NEW s \in Session, Register(s) PROVE RegisteredStay'
    <2>1. hub[s] \in Hub
      BY <1>3 DEF Register, HoldsHub
    <2> QED BY <1>3, <2>1 DEF Register, HoldsHub
  <1>4. ASSUME NEW s \in Session, SendFails(s) \/ Unregister(s) PROVE RegisteredStay'
    <2>1. /\ hub[s] \in Hub
          /\ clients' = [clients EXCEPT ![hub[s]] = @ \ {s}]
          /\ \A t \in Session \ {s} : pc'[t] = pc[t] /\ hub'[t] = hub[t] /\ open'[t] = open[t]
          /\ ~open'[s] \/ pc'[s] # "in"
      BY <1>4 DEF SendFails, Unregister, Ended, HoldsHub
    <2> SUFFICES ASSUME NEW t \in Session, pc'[t] = "in", open'[t]
                 PROVE  t \in clients'[hub'[t]]
      OBVIOUS
    <2>2. t # s /\ hub[t] \in Hub /\ t \in clients[hub[t]]
      BY <2>1 DEF HoldsHub
    <2> QED BY <2>1, <2>2
  <1>5. ASSUME NEW h \in Hub, IdleDue(h) \/ IdleCheck(h) PROVE RegisteredStay'
    BY <1>5 DEF IdleDue, IdleCheck
  <1>6. CASE DeleteRoom
    BY <1>6 DEF DeleteRoom
  <1>7. CASE UNCHANGED vars
    BY <1>7 DEF vars
  <1> QED BY <1>1, <1>2, <1>3, <1>4, <1>5, <1>6, <1>7 DEF Next, Callbacks

\* A check that spares sessions and other hubs' entries is no race.
LEMMA SparingStep ==
  ASSUME IInv, ~raced, [Next]_vars,
         [\A h \in Hub : IdleCheck(h) /\ clients[h] = {} =>
             /\ entry \in {h, NoHub}
             /\ \A s \in Session : ~(pc[s] = "found" /\ hub[s] = h)]_vars
  PROVE  ~raced'
  <1>1. ASSUME NEW h \in Hub, IdleCheck(h), ~UNCHANGED vars PROVE ~raced'
    <2>1. CASE clients[h] = {}
      <3>1. /\ entry \in {h, NoHub}
            /\ \A s \in Session : ~(pc[s] = "found" /\ hub[s] = h)
        BY <1>1, <2>1
      <3>2. \A s \in Session : pc[s] = "found" => hub[s] = entry /\ hub[s] # NoHub
        BY DEF IInv, FoundIsEntry, HoldsHub
      <3>3. \A s \in Session : pc[s] # "found"
        BY <3>1, <3>2
      <3> QED BY <1>1, <2>1, <3>1, <3>3 DEF IdleCheck
    <2>2. CASE clients[h] # {}
      BY <1>1, <2>2 DEF IdleCheck
    <2> QED BY <2>1, <2>2
  <1>2. CASE UNCHANGED vars
    BY <1>2 DEF vars
  <1>3. ASSUME NEW s \in Session, Callbacks(s) PROVE ~raced'
    BY <1>3 DEF Callbacks, RoomExists, GetOrCreate, Register, PeerGone, SendFails,
                Unregister, Refused
  <1>4. ASSUME NEW h \in Hub, IdleDue(h) PROVE ~raced'
    BY <1>4 DEF IdleDue
  <1>5. CASE DeleteRoom
    BY <1>5 DEF DeleteRoom
  <1> QED BY <1>1, <1>2, <1>3, <1>4, <1>5 DEF Next

\* As long as idle checks spare sessions, no two hubs of the room have
\* sessions, and every session is reached by those that come later.
THEOREM OneHubUnlessRaced == Spec /\ ChecksSpareSessions => [](OneHub /\ SessionsServed)
  <1>1. Init => ~raced /\ RegisteredStay
    BY DEF Init, RegisteredStay
  <1>2. IInv /\ ~raced /\ RegisteredStay => OneHub /\ SessionsServed
    <2> SUFFICES ASSUME IInv, ~raced, RegisteredStay PROVE OneHub /\ SessionsServed
      OBVIOUS
    <2>1. \A h \in Hub : clients[h] # {} => entry = h
      BY DEF IInv, SplitOnlyByRace
    <2>2. \A s \in Session : pc[s] = "in" => hub[s] \in Hub
      BY DEF IInv, TypeOK, HoldsHub
    <2> QED BY <2>1, <2>2 DEF OneHub, SessionsServed, RegisteredStay
  <1>3. IInv /\ ~raced /\ [Next]_vars /\
          [\A h \in Hub : IdleCheck(h) /\ clients[h] = {} =>
              /\ entry \in {h, NoHub}
              /\ \A s \in Session : ~(pc[s] = "found" /\ hub[s] = h)]_vars
            => ~raced'
    BY SparingStep
  <1> QED BY Invariant, <1>1, <1>2, <1>3, RegisteredStayStep, PTL
          DEF Spec, ChecksSpareSessions
=============================================================================
