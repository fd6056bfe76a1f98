---------------------------- MODULE RoomViewProofs ---------------------------
(***************************************************************************)
(* Theorems of RoomView.                                                   *)
(*                                                                         *)
(* Typed: the types, and that a connection that is down is fed by nothing. *)
(* GapInv: a message of the active room that is neither shown nor part of  *)
(* the history that is about to be shown is on its way, was never          *)
(* published, or has been pushed out of the history by newer ones; that is *)
(* what registering with the hub before reading the history is good for.   *)
(* BadgeInv: nothing that may become a room's last_message is newer than   *)
(* what the page has seen or is about to see.                              *)
(*                                                                         *)
(* What the page shows is stored (PageIsStored); it is of one room unless  *)
(* a history arrives late (OwnRoomUnlessOverlapped).                       *)
(***************************************************************************)
EXTENDS RoomView, FiniteSetTheorems, WellFoundedInduction, TLAPS

-----------------------------------------------------------------------------
(* Finite sets of message ids.                                             *)

\* Every non-empty set of natural numbers has a least element.
LEMMA LeastNat ==
    ASSUME NEW T \in SUBSET Nat, T # {}
    PROVE  \E x \in T : \A y \in T : x <= y
  <1>1. PICK x \in T : \A y \in T : <<y, x>> \notin OpToRel(<, Nat)
    BY NatLessThanWellFounded, WFMin, Zenon
  <1>2. \A y \in T : ~(y < x)
    BY <1>1 DEF OpToRel
  <1> QED BY <1>2

\* A bounded set of natural numbers has a greatest element, which Max names.
LEMMA MaxIs ==
    ASSUME NEW m \in Nat, NEW S \in SUBSET (0 .. m), S # {}
    PROVE  Max(S) \in S /\ \A y \in S : y <= Max(S)
  <1> DEFINE T == {n \in 0 .. m : \A x \in S : x <= n}
  <1>1. m \in T /\ T \in SUBSET Nat
    OBVIOUS
  <1>2. PICK n \in T : \A y \in T : n <= y
    BY <1>1, LeastNat
  <1>3. n \in S
    <2> SUFFICES ASSUME n \notin S PROVE FALSE
      OBVIOUS
    <2>1. \A x \in S : x < n
      OBVIOUS
    <2>2. n # 0
      <3>1. PICK x \in S : TRUE
        OBVIOUS
      <3>2. x < n /\ x \in 0 .. m
        BY <2>1
      <3> QED BY <3>2
    <2>3. n - 1 \in T
      BY <2>1, <2>2
    <2> QED BY <1>2, <2>3
  <1>4. \E x \in S : \A y \in S : x >= y
    BY <1>3
  <1> QED BY <1>4 DEF Max

\* What pushes a message out of the history stays when more are stored.
LEMMA PushedOutStays ==
    \A T, S, id : IsFiniteSet(T) /\ S \subseteq T /\ Cardinality({j \in S : j > id}) >= HistoryLimit
                 => Cardinality({j \in T : j > id}) >= HistoryLimit
  <1> SUFFICES ASSUME NEW T, IsFiniteSet(T), NEW S \in SUBSET T, NEW id,
                      Cardinality({j \in S : j > id}) >= HistoryLimit
               PROVE  Cardinality({j \in T : j > id}) >= HistoryLimit
    OBVIOUS
  <1> DEFINE A == {j \in S : j > id}
             B == {j \in T : j > id}
  <1>1. IsFiniteSet(B)
    BY FS_Subset
  <1>2. Cardinality(A) <= Cardinality(B) /\ Cardinality(A) \in Nat /\ Cardinality(B) \in Nat
    BY <1>1, FS_Subset, FS_CardinalityType
  <1> QED BY <1>2, ViewConstants

\* listMessages answers with no more than it was asked for.
LEMMA LatestOfBound ==
    \A n \in Nat : \A ids \in SUBSET (1 .. n) : Cardinality(LatestOf(ids)) <= HistoryLimit
  <1> SUFFICES ASSUME NEW n \in Nat, NEW ids \in SUBSET (1 .. n)
               PROVE  Cardinality(LatestOf(ids)) <= HistoryLimit
    OBVIOUS
  <1> DEFINE L == LatestOf(ids)
  <1>1. IsFiniteSet(ids)
    <2>1. IsFiniteSet(1 .. n)
      BY FS_Interval
    <2> QED BY <2>1, FS_Subset
  <1>2. L \subseteq ids /\ \A m \in L : Cardinality({j \in ids : j > m}) < HistoryLimit
    BY DEF LatestOf
  <1> HIDE DEF L
  <1>3. IsFiniteSet(L) /\ L \in SUBSET Nat
    <2>1. IsFiniteSet(L)
      BY <1>1, <1>2, FS_Subset
    <2>2. ids \in SUBSET Nat
      OBVIOUS
    <2> QED BY <1>2, <2>1, <2>2
  <1>4. CASE L = {}
    BY <1>4, FS_EmptySet, ViewConstants DEF L
  <1>5. CASE L # {}
    <2>1. PICK m \in L : \A y \in L : m <= y
      BY <1>3, <1>5, LeastNat
    <2> DEFINE Above == {j \in ids : j > m}
    <2>2. Cardinality(Above) < HistoryLimit
      BY <1>2, <2>1
    <2>3. Above \subseteq ids /\ L \ {m} \subseteq Above
      BY <1>2, <1>3, <2>1
    <2> HIDE DEF Above
    <2>4. IsFiniteSet(Above) /\ Cardinality(Above) \in Nat
      BY <1>1, <2>3, FS_Subset, FS_CardinalityType
    <2>5. Cardinality(L \ {m}) <= Cardinality(Above)
      BY <2>3, <2>4, FS_Subset
    <2>6. Cardinality(L \ {m}) = Cardinality(L) - 1 /\ Cardinality(L) \in Nat
      BY <1>3, <2>1, FS_RemoveElement, FS_CardinalityType
    <2>7. Cardinality(L) <= HistoryLimit
      BY <2>2, <2>4, <2>5, <2>6, ViewConstants
    <2> QED BY <2>7 DEF L
  <1> QED BY <1>4, <1>5

\* The newest message of a room is part of its history.
LEMMA NewestIsLatest ==
    \A n \in Nat : \A ids \in SUBSET (1 .. n) : \A x \in ids : \E id \in LatestOf(ids) : x <= id
  <1> SUFFICES ASSUME NEW n \in Nat, NEW ids \in SUBSET (1 .. n), NEW x \in ids
               PROVE  \E id \in LatestOf(ids) : x <= id
    OBVIOUS
  <1>1. ids \in SUBSET (0 .. n) /\ ids # {}
    OBVIOUS
  <1>2. PICK top \in ids : \A y \in ids : y <= top
    BY <1>1, MaxIs
  <1>3. {j \in ids : j > top} = {}
    <2>1. \A j \in ids : ~(j > top)
      BY <1>2
    <2> QED BY <2>1
  <1>4. top \in LatestOf(ids)
    BY <1>2, <1>3, FS_EmptySet, ViewConstants DEF LatestOf
  <1> QED BY <1>2, <1>4

\* markSeen keeps the larger of two ids.
LEMMA LargerOf == \A a \in Nat, b \in Nat : Max({a, b}) = IF a >= b THEN a ELSE b
  <1> SUFFICES ASSUME NEW a \in Nat, NEW b \in Nat
               PROVE  Max({a, b}) = IF a >= b THEN a ELSE b
    OBVIOUS
  <1>1. {a, b} \in SUBSET (0 .. (a + b)) /\ {a, b} # {} /\ a + b \in Nat
    OBVIOUS
  <1>2. PICK m \in {a, b} : m = Max({a, b}) /\ \A y \in {a, b} : y <= m
    BY <1>1, MaxIs
  <1> QED BY <1>2

\* Newest is what its name says.
LEMMA NewestIs ==
    \A ids \in SUBSET (1 .. MaxMessage) :
        Newest(ids) \in ids \union {0} /\ \A y \in ids : y <= Newest(ids)
  <1> SUFFICES ASSUME NEW ids \in SUBSET (1 .. MaxMessage)
               PROVE  Newest(ids) \in ids \union {0} /\ \A y \in ids : y <= Newest(ids)
    OBVIOUS
  <1>1. MaxMessage \in Nat /\ ids \union {0} \in SUBSET (0 .. MaxMessage) /\ ids \union {0} # {}
    BY ViewConstants
  <1>2. PICK m \in ids \union {0} : m = Max(ids \union {0}) /\ \A y \in ids \union {0} : y <= m
    BY <1>1, MaxIs
  <1> QED BY <1>2 DEF Newest

-----------------------------------------------------------------------------
(* The invariant.                                                          *)

\* What goes to the page is stored.
WireOK ==
    /\ wire \in Seq(Frame)
    /\ \A i \in DOMAIN wire :
          IF wire[i].type = "msg" THEN wire[i].id \in stored[wire[i].room]
          ELSE \A r \in Room : wire[i].last[r] \in stored[r] \union {0}
    /\ \A s \in Sender : sending[s] # None => sending[s].id \in stored[sending[s].room]
    /\ \A r \in Room : lastMsg[r] \in stored[r] \union {0}

\* A connection that is down gets nothing.
DownOK == ~up => attaching = {} /\ attached = {} /\ wire = <<>>

\* The last selectRoom is the one whose room is on the page.
LatestOK ==
    /\ latest # None => active # None /\ (fetch[latest] # Idle => fetch[latest].room = active)
    /\ settled => latest # None /\ fetch[latest] = Idle

Typed == TypeOK /\ WireOK /\ DownOK /\ LatestOK

\* The history of the room on the page has been read with the connection
\* attached, and has yet to be shown.
About == latest # None /\ fetch[latest].stage = "answered" /\ fetch[latest].fed

OnWire(r, id) == \E i \in DOMAIN wire : wire[i] = [type |-> "msg", room |-> r, id |-> id]
Sending(r, id) == \E s \in Sender : sending[s] = [room |-> r, id |-> id]
PushedOut(r, id) == Cardinality({j \in stored[r] : j > id}) >= HistoryLimit

\* Where a message of the room on the page may be.
Covered(id) ==
    \/ [room |-> active, id |-> id] \in shown
    \/ About /\ id \in fetch[latest].msgs
    \/ OnWire(active, id) \/ Sending(active, id) \/ id \in unsent
    \/ PushedOut(active, id)

GapInv == settled \/ About => active \in attached /\ \A id \in stored[active] : Covered(id)

\* The page has seen a message as new as x, or is about to.
Caught(x) == x <= lastSeen[active] \/ (About /\ \E id \in fetch[latest].msgs : x <= id)

BadgeInv ==
    settled \/ About =>
        /\ Caught(lastMsg[active])
        /\ \A i \in DOMAIN wire : wire[i].type = "snapshot" => Caught(wire[i].last[active])

Inv == Typed /\ GapInv /\ BadgeInv

\* A stored message is the newest; its sender has it in hand.
LEMMA InsertMessageStep ==
    ASSUME Inv, NEW s \in Sender, NEW r \in Room, InsertMessage(s, r)
    PROVE  Inv'
  <1> USE ViewConstants DEF Inv, Typed, InsertMessage, servervars, linkvars, pagevars,
     fetchvars
  <1>0. /\ lastId' = lastId + 1 /\ r \in Room /\ sending[s] = None /\ sending' \in [Sender -> Message \union {None}]
        /\ stored' \in [Room -> SUBSET (1 .. lastId')] /\ stored'[r] = stored[r] \union {lastId'}
        /\ \A o \in Room : stored[o] \subseteq stored'[o] /\ (o # r => stored'[o] = stored[o])
        /\ sending'[s] = [room |-> r, id |-> lastId'] /\ \A t \in Sender \ {s} : sending'[t] = sending[t]
    BY DEF TypeOK, Id, Message
  <1>1. TypeOK'
    BY DEF TypeOK, Id, Message, Frame, Idle, Request
  <1>2. WireOK'
    BY DEF TypeOK, WireOK, DownOK, Id, Message, Frame
  <1>3. DownOK'
    BY DEF DownOK
  <1>4. LatestOK'
    BY DEF TypeOK, LatestOK, Idle, Request
  <1>5. GapInv'
    <2> SUFFICES ASSUME settled' \/ About', NEW id
                 PROVE  active' \in attached' /\ (id \in stored'[active'] => Covered(id)')
      BY DEF GapInv
    <2>1. (settled \/ About) /\ active \in attached /\ active \in Room /\ (About' <=> About)
      BY DEF About, GapInv, TypeOK
    <2>2. CASE id = lastId' /\ r = active
      BY <1>0, <2>1, <2>2 DEF Covered, Sending
    <2>3. CASE id \in stored[active]
      <3>1. Covered(id)
        BY <2>1, <2>3 DEF GapInv
      <3>2. PushedOut(active, id) => PushedOut(active, id)'
        <4>1. PICK n \in Nat : n = lastId'
          BY <1>0 DEF TypeOK
        <4>2. IsFiniteSet(1 .. n)
          BY FS_Interval
        <4>3. stored'[active] \subseteq 1 .. n /\ stored[active] \subseteq stored'[active]
          BY <1>0, <2>1, <4>1
        <4>4. IsFiniteSet(stored'[active])
          BY <4>2, <4>3, FS_Subset
        <4> QED BY <4>3, <4>4, PushedOutStays, Zenon DEF PushedOut
      <3>3. Sending(active, id) => Sending(active, id)'
        <4>1. [room |-> active, id |-> id] \in Message
          BY <2>1, <2>3 DEF TypeOK, Message, Id
        <4> QED BY <1>0, <4>1 DEF Sending
      <3> QED BY <2>1, <3>1, <3>2, <3>3 DEF Covered, OnWire, About
    <2> QED BY <1>0, <2>1, <2>2, <2>3
  <1>6. BadgeInv'
    BY DEF TypeOK, WireOK, DownOK, LatestOK, GapInv, BadgeInv, Caught, About, Idle, Request
  <1> QED BY <1>1, <1>2, <1>3, <1>4, <1>5, <1>6

\* What a sender published is on the wire of an attached connection.
LEMMA PublishMessageStep ==
    ASSUME Inv, NEW s \in Sender, PublishMessage(s)
    PROVE  Inv'
  <1> USE ViewConstants DEF Inv, Typed, PublishMessage, servervars, linkvars, pagevars,
     fetchvars
  <1>0. /\ sending[s] \in Message /\ sending' \in [Sender -> Message \union {None}]
        /\ \A t \in Sender \ {s} : sending'[t] = sending[t]
        /\ sending'[s] = None /\ sending[s].id \in stored[sending[s].room]
    BY DEF TypeOK, WireOK, Message
  <1>a. /\ wire' \in Seq(Frame)
        /\ \A i \in DOMAIN wire : i \in DOMAIN wire' /\ wire'[i] = wire[i]
        /\ \A i \in DOMAIN wire' :
              i \in DOMAIN wire \/ wire'[i] = [type |-> "msg", room |-> sending[s].room, id |-> sending[s].id]
        /\ sending[s].room \in attached =>
              \E i \in DOMAIN wire' : wire'[i] = [type |-> "msg", room |-> sending[s].room, id |-> sending[s].id]
    <2>1. CASE sending[s].room \in attached
      <3> DEFINE m == [type |-> "msg", room |-> sending[s].room, id |-> sending[s].id]
      <3>1. m \in Frame /\ wire \in Seq(Frame) /\ wire' = Append(wire, m)
        BY <1>0, <2>1 DEF Frame, Message, WireOK
      <3> HIDE DEF m
      <3>2. wire' \in Seq(Frame) /\ Len(wire') = Len(wire) + 1 /\ wire'[Len(wire) + 1] = m
            /\ \A i \in 1 .. Len(wire) : wire'[i] = wire[i]
        BY <3>1
      <3>3. Len(wire) + 1 \in DOMAIN wire' /\ DOMAIN wire = 1 .. Len(wire) /\ DOMAIN wire' = 1 .. Len(wire) + 1
            /\ Len(wire) \in Nat
        BY <3>1, <3>2
      <3>4. \A i \in DOMAIN wire' : i \in DOMAIN wire \/ wire'[i] = m
        BY <3>2, <3>3
      <3> QED BY <3>2, <3>3, <3>4 DEF m
    <2>2. CASE sending[s].room \notin attached
      BY <2>2 DEF WireOK
    <2> QED BY <2>1, <2>2
  <1>1. TypeOK'
    <2>1. \A i \in DOMAIN wire' : wire'[i] \in Frame
      BY <1>a
    <2> QED BY <1>0, <2>1 DEF TypeOK
  <1>2. WireOK'
    BY <1>0, <1>a DEF WireOK, TypeOK, Message
  <1>3. DownOK'
    BY DEF DownOK
  <1>4. LatestOK'
    BY DEF TypeOK, LatestOK, Idle, Request
  <1>5. GapInv'
    <2> SUFFICES ASSUME settled' \/ About', NEW id
                 PROVE  active' \in attached' /\ (id \in stored'[active'] => Covered(id)')
      BY DEF GapInv
    <2>1. /\ (settled \/ About) /\ active \in attached /\ active \in Room /\ (About' <=> About)
          /\ id \in stored[active] => Covered(id)
      BY DEF About, GapInv, TypeOK
    <2>2. OnWire(active, id) => OnWire(active, id)'
      BY <1>a DEF OnWire
    <2>3. Sending(active, id) => Sending(active, id)' \/ OnWire(active, id)'
      <3> SUFFICES ASSUME NEW t \in Sender, sending[t] = [room |-> active, id |-> id]
                   PROVE  Sending(active, id)' \/ OnWire(active, id)'
        BY DEF Sending
      <3>1. CASE t = s
        BY <1>a, <2>1, <3>1 DEF OnWire
      <3>2. CASE t # s
        BY <1>0, <3>2 DEF Sending
      <3> QED BY <3>1, <3>2
    <2> QED BY <2>1, <2>2, <2>3 DEF Covered, PushedOut, About
  <1>6. BadgeInv'
    <2>1. \A i \in DOMAIN wire' : wire'[i].type = "snapshot" => i \in DOMAIN wire /\ wire'[i] = wire[i]
      BY <1>a
    <2> QED BY <2>1 DEF BadgeInv, Caught, About
  <1> QED BY <1>1, <1>2, <1>3, <1>4, <1>5, <1>6

\* A message that found no hub is no longer owed to anybody.
LEMMA LoseMessageStep ==
    ASSUME Inv, NEW s \in Sender, LoseMessage(s)
    PROVE  Inv'
  <1> USE ViewConstants DEF Inv, Typed, LoseMessage, servervars, linkvars, pagevars,
     fetchvars
  <1>1. TypeOK'
    BY DEF TypeOK, Id, Message, Frame, Idle, Request
  <1>2. WireOK'
    BY DEF TypeOK, WireOK, DownOK, Id, Message, Frame
  <1>3. DownOK'
    BY DEF DownOK
  <1>4. LatestOK'
    BY DEF TypeOK, LatestOK, Idle, Request
  <1>5. GapInv'
    <2> SUFFICES ASSUME settled' \/ About', NEW id
                 PROVE  active' \in attached' /\ (id \in stored'[active'] => Covered(id)')
      BY DEF GapInv
    <2>1. /\ (settled \/ About) /\ active \in attached /\ active \in Room /\ (About' <=> About)
          /\ id \in stored[active] => Covered(id)
      BY DEF About, GapInv, TypeOK
    <2>2. Sending(active, id) => Sending(active, id)' \/ id \in unsent'
      BY DEF Sending, TypeOK
    <2> QED BY <2>1, <2>2 DEF Covered, PushedOut, OnWire, About
  <1>6. BadgeInv'
    BY DEF TypeOK, WireOK, DownOK, LatestOK, GapInv, BadgeInv, Caught, About, Idle, Request
  <1> QED BY <1>1, <1>2, <1>3, <1>4, <1>5, <1>6

\* A lost connection ends every promise about the page.
LEMMA LostStep ==
    ASSUME Inv, Lost
    PROVE  Inv'
  <1> USE ViewConstants DEF Inv, Typed, Lost, servervars, linkvars, pagevars, fetchvars
  <1>1. TypeOK'
    <2>1. fetch' \in [Fetch -> Request] /\ \A f \in Fetch : fetch'[f].stage = "answered" =>
                fetch[f].stage = "answered" /\ fetch'[f].msgs = fetch[f].msgs
      <3>1. ASSUME NEW f \in Fetch, fetch[f].stage = "answered"
            PROVE  /\ [fetch[f] EXCEPT !.fed = FALSE] \in Request
                   /\ [fetch[f] EXCEPT !.fed = FALSE].msgs = fetch[f].msgs
        <4>1. fetch[f] \in [stage : {"answered"}, room : Room, msgs : SUBSET Id, fed : BOOLEAN]
          BY <3>1 DEF TypeOK, Request, Idle
        <4> QED BY <4>1 DEF Request
      <3>2. fetch' = [f \in Fetch |-> IF fetch[f].stage = "answered" THEN [fetch[f] EXCEPT !.fed = FALSE]
                                     ELSE fetch[f]]
        OBVIOUS
      <3>3. ASSUME NEW f \in Fetch, fetch[f].stage = "answered"
            PROVE  fetch'[f] = [fetch[f] EXCEPT !.fed = FALSE]
        BY <3>2, <3>3
      <3>4. ASSUME NEW f \in Fetch, fetch[f].stage # "answered"
            PROVE  fetch'[f] = fetch[f] /\ fetch[f] \in Request
        BY <3>2, <3>4 DEF TypeOK
      <3>5. ASSUME NEW f \in Fetch PROVE fetch'[f] \in Request
        BY <3>1, <3>3, <3>4
      <3>6. fetch' \in [Fetch -> Request]
        BY <3>2, <3>5
      <3> QED BY <3>1, <3>3, <3>4, <3>6
    <2>2. \A f \in Fetch : fetch'[f].stage = "answered" => Cardinality(fetch'[f].msgs) <= HistoryLimit
      BY <2>1 DEF TypeOK
    <2>3. \A i \in DOMAIN wire' : wire'[i] \in Frame
      OBVIOUS
    <2> QED BY <2>1, <2>2, <2>3 DEF TypeOK
  <1>2. WireOK'
    BY DEF TypeOK, WireOK, DownOK, Id, Message, Frame
  <1>3. DownOK'
    BY DEF DownOK
  <1>4. LatestOK'
    BY DEF TypeOK, LatestOK, Idle, Request
  <1>5. GapInv'
    BY DEF TypeOK, WireOK, DownOK, LatestOK, GapInv, Covered, About, OnWire, Sending,
       PushedOut, Idle, Request
  <1>6. BadgeInv'
    BY DEF TypeOK, WireOK, DownOK, LatestOK, GapInv, BadgeInv, Caught, About, Idle, Request
  <1> QED BY <1>1, <1>2, <1>3, <1>4, <1>5, <1>6

\* A new connection has attached no room, so no promise holds yet.
LEMMA ConnectStep ==
    ASSUME Inv, Connect
    PROVE  Inv'
  <1> USE ViewConstants DEF Inv, Typed, Connect, Newest, servervars, linkvars, pagevars,
     fetchvars
  <1>0. /\ wire' \in Seq(Frame) /\ DOMAIN wire' = {1} /\ wire'[1].type = "snapshot"
        /\ \A r \in Room : wire'[1].last[r] \in stored[r] \union {0}
    <2> DEFINE Last == [Room -> 0 .. MaxMessage]
    <2>1. \A r \in Room : stored[r] \in SUBSET (1 .. lastId) /\ lastId \in Nat /\ lastId <= MaxMessage
      BY DEF TypeOK
    <2>2. \A r \in Room : Newest(stored[r]) \in stored[r] \union {0} /\ Newest(stored[r]) \in 0 .. MaxMessage
      <3> SUFFICES ASSUME NEW r \in Room
                   PROVE  Newest(stored[r]) \in stored[r] \union {0} /\ Newest(stored[r]) \in 0 .. MaxMessage
        OBVIOUS
      <3> HIDE DEF Newest
      <3>1. Newest(stored[r]) \in stored[r] \union {0}
        BY <2>1, NewestIs
      <3> QED BY <2>1, <3>1
    <2>3. \E last \in Last : /\ wire' = <<[type |-> "snapshot", last |-> last]>>
                            /\ \A r \in Room : last[r] \in stored[r] \union {0}
      <3> HIDE DEF Newest
      <3>1. CASE \E failing \in SUBSET Room :
                wire' = <<[type |-> "snapshot", last |->
                             [r \in Room |-> IF r \in failing THEN 0 ELSE Newest(stored[r])]]>>
        <4>1. PICK failing \in SUBSET Room :
                wire' = <<[type |-> "snapshot", last |->
                             [r \in Room |-> IF r \in failing THEN 0 ELSE Newest(stored[r])]]>>
          BY <3>1
        <4>2. [r \in Room |-> IF r \in failing THEN 0 ELSE Newest(stored[r])] \in Last
          BY <2>2
        <4> QED BY <2>2, <4>1, <4>2
      <3>2. CASE wire' = <<[type |-> "snapshot", last |-> [r \in Room |-> 0]]>>
        <4>1. [r \in Room |-> 0] \in Last
          OBVIOUS
        <4> QED BY <3>2, <4>1
      <3> QED BY <3>1, <3>2
    <2>4. PICK last \in Last : /\ wire' = <<[type |-> "snapshot", last |-> last]>>
                              /\ \A r \in Room : last[r] \in stored[r] \union {0}
      BY <2>3
    <2>5. [type |-> "snapshot", last |-> last] \in Frame
      BY DEF Frame
    <2> QED BY <2>4, <2>5
  <1>1. TypeOK'
    <2>1. \A i \in DOMAIN wire' : wire'[i] \in Frame
      BY <1>0
    <2>2. attaching' \subseteq Room /\ up' \in BOOLEAN
      OBVIOUS
    <2> QED BY <2>1, <2>2 DEF TypeOK
  <1>2. WireOK'
    BY <1>0 DEF WireOK
  <1>3. DownOK'
    BY DEF DownOK
  <1>4. LatestOK'
    BY DEF TypeOK, LatestOK, Idle, Request
  <1>5. GapInv'
    BY DEF TypeOK, WireOK, DownOK, LatestOK, GapInv, Covered, About, OnWire, Sending,
       PushedOut, Idle, Request
  <1>6. BadgeInv'
    BY DEF TypeOK, WireOK, DownOK, LatestOK, GapInv, BadgeInv, Caught, About, Idle, Request
  <1> QED BY <1>1, <1>2, <1>3, <1>4, <1>5, <1>6

\* Attaching a room adds no frame and settles no page.
LEMMA AttachClientStep ==
    ASSUME Inv, NEW r \in Room, AttachClient(r)
    PROVE  Inv'
  <1> USE ViewConstants DEF Inv, Typed, AttachClient, servervars, linkvars, pagevars,
     fetchvars
  <1>1. TypeOK'
    BY DEF TypeOK, Id, Message, Frame, Idle, Request
  <1>2. WireOK'
    BY DEF TypeOK, WireOK, DownOK, Id, Message, Frame
  <1>3. DownOK'
    BY DEF DownOK
  <1>4. LatestOK'
    BY DEF TypeOK, LatestOK, Idle, Request
  <1>5. GapInv'
    BY DEF TypeOK, WireOK, DownOK, LatestOK, GapInv, Covered, About, OnWire, Sending,
       PushedOut, Idle, Request
  <1>6. BadgeInv'
    BY DEF TypeOK, WireOK, DownOK, LatestOK, GapInv, BadgeInv, Caught, About, Idle, Request
  <1> QED BY <1>1, <1>2, <1>3, <1>4, <1>5, <1>6

\* The last messages of the snapshot are caught already.
LEMMA OnSnapshotStep ==
    ASSUME Inv, OnSnapshot
    PROVE  Inv'
  <1> USE ViewConstants DEF Inv, Typed, OnSnapshot, servervars, linkvars, pagevars,
     fetchvars
  <1>a. /\ wire' \in Seq(Frame) /\ wire[1] \in Frame /\ 1 \in DOMAIN wire
        /\ \A i \in DOMAIN wire' : i + 1 \in DOMAIN wire /\ wire'[i] = wire[i + 1]
        /\ \A i \in DOMAIN wire : i # 1 => i - 1 \in DOMAIN wire' /\ wire'[i - 1] = wire[i]
    <2>1. wire \in Seq(Frame) /\ wire # <<>> /\ wire' = Tail(wire)
      BY DEF WireOK
    <2> QED BY <2>1
  <1>0. /\ wire[1].type = "snapshot" /\ lastMsg' = wire[1].last /\ wire[1].last \in [Room -> 0 .. MaxMessage]
        /\ \A r \in Room : lastMsg'[r] \in stored[r] \union {0}
    <2>1. wire[1].type = "snapshot" /\ lastMsg' = wire[1].last
      OBVIOUS
    <2> QED BY <1>a, <2>1 DEF WireOK, Frame
  <1>1. TypeOK'
    <2>1. \A i \in DOMAIN wire' : wire'[i] \in Frame
      BY <1>a
    <2> QED BY <1>0, <2>1 DEF TypeOK
  <1>2. WireOK'
    BY <1>0, <1>a DEF WireOK
  <1>3. DownOK'
    BY DEF DownOK
  <1>4. LatestOK'
    BY DEF TypeOK, LatestOK, Idle, Request
  <1>5. GapInv'
    <2> SUFFICES ASSUME settled' \/ About', NEW id
                 PROVE  active' \in attached' /\ (id \in stored'[active'] => Covered(id)')
      BY DEF GapInv
    <2>1. /\ (settled \/ About) /\ active \in attached /\ (About' <=> About)
          /\ id \in stored[active] => Covered(id)
      BY DEF About, GapInv
    <2>2. OnWire(active, id) => OnWire(active, id)'
      <3> SUFFICES ASSUME NEW i \in DOMAIN wire, wire[i] = [type |-> "msg", room |-> active, id |-> id]
                   PROVE  OnWire(active, id)'
        BY DEF OnWire
      <3>1. i # 1
        BY <1>0
      <3> QED BY <1>a, <3>1 DEF OnWire
    <2> QED BY <2>1, <2>2 DEF Covered, PushedOut, Sending, About
  <1>6. BadgeInv'
    BY <1>0, <1>a DEF BadgeInv, Caught, About
  <1> QED BY <1>1, <1>2, <1>3, <1>4, <1>5, <1>6

\* A live message is put on the page and marked seen, or is of another room.
LEMMA OnMsgStep ==
    ASSUME Inv, OnMsg
    PROVE  Inv'
  <1> USE ViewConstants DEF Inv, Typed, OnMsg, Seen, servervars, linkvars, pagevars,
     fetchvars
  <1>a. /\ wire' \in Seq(Frame) /\ wire[1] \in Frame /\ 1 \in DOMAIN wire
        /\ \A i \in DOMAIN wire' : i + 1 \in DOMAIN wire /\ wire'[i] = wire[i + 1]
        /\ \A i \in DOMAIN wire : i # 1 => i - 1 \in DOMAIN wire' /\ wire'[i - 1] = wire[i]
    <2>1. wire \in Seq(Frame) /\ wire # <<>> /\ wire' = Tail(wire)
      BY DEF WireOK
    <2> QED BY <2>1
  <1> DEFINE o == wire[1].room
             new == wire[1].id
  <1>0. /\ wire[1] = [type |-> "msg", room |-> o, id |-> new] /\ o \in Room /\ new \in stored[o]
        /\ new \in 1 .. MaxMessage
        /\ lastMsg' = [lastMsg EXCEPT ![o] = new] /\ lastMsg' \in [Room -> 0 .. MaxMessage]
        /\ shown' \subseteq Message /\ shown \subseteq shown'
        /\ active = o => [room |-> o, id |-> new] \in shown'
        /\ lastSeen' \in [Room -> 0 .. MaxMessage] /\ \A r \in Room : lastSeen[r] <= lastSeen'[r]
        /\ active = o => new <= lastSeen'[o]
    <2>1. wire[1].type = "msg" /\ wire[1] = Head(wire)
      OBVIOUS
    <2>2. /\ wire[1] = [type |-> "msg", room |-> o, id |-> new] /\ o \in Room /\ new \in stored[o]
          /\ new \in 1 .. MaxMessage
      BY <1>a, <2>1 DEF Frame, Id, WireOK
    <2>3. lastMsg' = [lastMsg EXCEPT ![o] = new] /\ lastMsg' \in [Room -> 0 .. MaxMessage]
      BY <2>1, <2>2 DEF TypeOK
    <2>4. CASE active = o
      <3>1. /\ shown' = shown \union {[room |-> o, id |-> new]}
            /\ lastSeen' = [lastSeen EXCEPT ![o] = Max({lastSeen[o], new})]
        BY <2>1, <2>4
      <3>2. lastSeen[o] \in 0 .. MaxMessage /\ new \in Nat /\ lastSeen[o] \in Nat
        BY <2>2 DEF TypeOK
      <3>3. /\ Max({lastSeen[o], new}) \in 0 .. MaxMessage
            /\ lastSeen[o] <= Max({lastSeen[o], new}) /\ new <= Max({lastSeen[o], new})
        BY <2>2, <3>2, LargerOf
      <3>4. /\ lastSeen' \in [Room -> 0 .. MaxMessage] /\ new <= lastSeen'[o]
            /\ \A r \in Room : lastSeen[r] <= lastSeen'[r]
        <4>1. PICK v \in 0 .. MaxMessage : v = Max({lastSeen[o], new})
          BY <3>3
        <4>2. lastSeen' = [lastSeen EXCEPT ![o] = v] /\ lastSeen[o] <= v /\ new <= v
          BY <3>1, <3>3, <4>1
        <4>3. \A r \in Room : lastSeen[r] \in Nat /\ lastSeen[r] <= lastSeen[r]
          BY DEF TypeOK
        <4> QED BY <2>2, <4>2, <4>3 DEF TypeOK
      <3>5. shown' \subseteq Message
        BY <2>2, <3>1 DEF TypeOK, Message, Id
      <3> QED BY <2>2, <2>3, <3>1, <3>4, <3>5
    <2>5. CASE active # o
      <3>1. shown' = shown /\ lastSeen' = lastSeen
        BY <2>1, <2>5
      <3>2. \A r \in Room : lastSeen[r] <= lastSeen'[r]
        BY <3>1 DEF TypeOK
      <3>3. shown' \subseteq Message /\ lastSeen' \in [Room -> 0 .. MaxMessage]
        BY <3>1 DEF TypeOK
      <3> QED BY <2>2, <2>3, <2>5, <3>1, <3>2, <3>3
    <2> QED BY <2>4, <2>5
  <1> HIDE DEF o, new
  <1>1. TypeOK'
    <2>1. \A i \in DOMAIN wire' : wire'[i] \in Frame
      BY <1>a
    <2> QED BY <1>0, <2>1 DEF TypeOK
  <1>2. WireOK'
    BY <1>0, <1>a DEF WireOK, TypeOK
  <1>3. DownOK'
    BY DEF DownOK
  <1>4. LatestOK'
    BY DEF TypeOK, LatestOK, Idle, Request
  <1>5. GapInv'
    <2> SUFFICES ASSUME settled' \/ About', NEW id
                 PROVE  active' \in attached' /\ (id \in stored'[active'] => Covered(id)')
      BY DEF GapInv
    <2>1. /\ (settled \/ About) /\ active \in attached /\ active \in Room /\ (About' <=> About)
          /\ id \in stored[active] => Covered(id)
      BY DEF About, GapInv, TypeOK
    <2>2. OnWire(active, id) => OnWire(active, id)' \/ [room |-> active, id |-> id] \in shown'
      <3> SUFFICES ASSUME NEW i \in DOMAIN wire, wire[i] = [type |-> "msg", room |-> active, id |-> id]
                   PROVE  OnWire(active, id)' \/ [room |-> active, id |-> id] \in shown'
        BY DEF OnWire
      <3>1. CASE i # 1
        BY <1>a, <3>1 DEF OnWire
      <3>2. CASE i = 1
        BY <1>0, <3>2
      <3> QED BY <3>1, <3>2
    <2> QED BY <1>0, <2>1, <2>2 DEF Covered, PushedOut, Sending, About
  <1>6. BadgeInv'
    <2> SUFFICES ASSUME settled \/ About
                 PROVE  /\ Caught(lastMsg[active])'
                        /\ \A i \in DOMAIN wire' : wire'[i].type = "snapshot" => Caught(wire[i].last[active])'
      BY DEF BadgeInv, About
    <2>1. active \in Room
      BY DEF TypeOK, LatestOK, About
    <2>2. ASSUME NEW x \in 0 .. MaxMessage, Caught(x) PROVE Caught(x)'
      BY <1>0, <2>1, <2>2 DEF Caught, About, TypeOK
    <2>3. Caught(lastMsg[active])'
      <3>1. CASE active = o
        BY <1>0, <2>1, <3>1 DEF Caught, TypeOK
      <3>2. CASE active # o
        BY <1>0, <2>1, <2>2, <3>2 DEF BadgeInv, TypeOK
      <3> QED BY <3>1, <3>2
    <2>4. ASSUME NEW i \in DOMAIN wire', wire'[i].type = "snapshot" PROVE Caught(wire[i].last[active])'
      <3>1. i + 1 \in DOMAIN wire /\ wire[i + 1] \in Frame /\ wire[i + 1].type = "snapshot"
            /\ wire'[i] = wire[i + 1]
        BY <1>a, <2>4 DEF TypeOK
      <3>2. PICK x \in 0 .. MaxMessage : x = wire[i + 1].last[active]
        BY <2>1, <3>1 DEF Frame
      <3>3. Caught(x)
        BY <3>1, <3>2 DEF BadgeInv
      <3>4. Caught(x)'
        BY <2>2, <3>3
      <3> QED BY <3>1, <3>2, <3>4 DEF Caught
    <2> QED BY <2>3, <2>4
  <1> QED BY <1>1, <1>2, <1>3, <1>4, <1>5, <1>6

\* A new selection starts with an empty page and nothing promised.
LEMMA SelectRoomStep ==
    ASSUME Inv, NEW f \in Fetch, NEW r \in Room, SelectRoom(f, r)
    PROVE  Inv'
  <1> USE ViewConstants DEF Inv, Typed, SelectRoom, servervars, linkvars, pagevars,
     fetchvars
  <1>1. TypeOK'
    BY DEF TypeOK, Id, Message, Frame, Idle, Request
  <1>2. WireOK'
    BY DEF TypeOK, WireOK, DownOK, Id, Message, Frame
  <1>3. DownOK'
    BY DEF DownOK
  <1>4. LatestOK'
    BY DEF TypeOK, LatestOK, Idle, Request
  <1>5. GapInv'
    BY DEF TypeOK, WireOK, DownOK, LatestOK, GapInv, Covered, About, OnWire, Sending,
       PushedOut, Idle, Request
  <1>6. BadgeInv'
    BY DEF TypeOK, WireOK, DownOK, LatestOK, GapInv, BadgeInv, Caught, About, Idle, Request
  <1> QED BY <1>1, <1>2, <1>3, <1>4, <1>5, <1>6

\* The answer holds every message of the room but those pushed out; the newest
\* is in it, so the badge is caught as soon as the history is read.
LEMMA ListMessagesStep ==
    ASSUME Inv, NEW f \in Fetch, ListMessages(f)
    PROVE  Inv'
  <1> USE ViewConstants DEF Inv, Typed, ListMessages, servervars, linkvars, pagevars,
     fetchvars
  <1> DEFINE ids == stored[fetch[f].room]
             msgs == LatestOf(ids)
             answer == [stage |-> "answered", room |-> fetch[f].room, msgs |-> msgs, fed |-> fetch[f].room \in attached]
  <1>0. /\ fetch[f].stage = "asked" /\ fetch[f].room \in Room /\ ids \in SUBSET (1 .. lastId)
        /\ lastId \in Nat /\ lastId <= MaxMessage
        /\ msgs \subseteq ids /\ Cardinality(msgs) <= HistoryLimit
        /\ \A id \in ids \ msgs : Cardinality({j \in ids : j > id}) >= HistoryLimit
        /\ \A x \in ids : \E id \in msgs : x <= id
    <2>1. fetch[f].stage = "asked" /\ fetch[f].room \in Room /\ lastId \in Nat /\ lastId <= MaxMessage
      BY DEF TypeOK, Request, Idle
    <2>2. ids \in SUBSET (1 .. lastId)
      BY <2>1 DEF TypeOK
    <2> HIDE DEF ids
    <2>3. Cardinality(msgs) <= HistoryLimit /\ \A x \in ids : \E id \in msgs : x <= id
      BY <2>1, <2>2, LatestOfBound, NewestIsLatest
    <2>4. ASSUME NEW id \in ids PROVE Cardinality({j \in ids : j > id}) \in Nat
      <3>1. IsFiniteSet(1 .. lastId)
        BY <2>1, FS_Interval
      <3>2. IsFiniteSet(ids)
        BY <2>2, <3>1, FS_Subset
      <3>3. IsFiniteSet({j \in ids : j > id})
        BY <3>2, FS_Subset
      <3> QED BY <3>3, FS_CardinalityType
    <2>5. msgs \subseteq ids /\ \A id \in ids \ msgs : Cardinality({j \in ids : j > id}) >= HistoryLimit
      BY <2>4 DEF LatestOf
    <2> QED BY <2>1, <2>2, <2>3, <2>5
  <1>a. /\ answer \in Request /\ fetch' = [fetch EXCEPT ![f] = answer]
        /\ fetch'[f] = answer /\ \A g \in Fetch \ {f} : fetch'[g] = fetch[g]
        /\ fetch'[f].stage = "answered" /\ fetch'[f].room = fetch[f].room /\ fetch'[f].msgs = msgs
        /\ fetch'[f].fed <=> fetch[f].room \in attached
    <2>1. msgs \in SUBSET Id
      BY <1>0 DEF Id
    <2>2. answer \in Request
      <3> HIDE DEF msgs
      <3> QED BY <1>0, <2>1 DEF Request
    <2>3. fetch' = [fetch EXCEPT ![f] = answer]
      OBVIOUS
    <2>4. /\ answer.stage = "answered" /\ answer.room = fetch[f].room /\ answer.msgs = msgs
          /\ answer.fed <=> fetch[f].room \in attached
      OBVIOUS
    <2> HIDE DEF answer
    <2> QED BY <2>2, <2>3, <2>4 DEF TypeOK
  <1> HIDE DEF msgs, answer
  <1>1. TypeOK'
    <2>1. fetch' \in [Fetch -> Request]
      BY <1>a DEF TypeOK
    <2>2. \A g \in Fetch : fetch'[g].stage = "answered" => Cardinality(fetch'[g].msgs) <= HistoryLimit
      BY <1>0, <1>a DEF TypeOK
    <2> QED BY <2>1, <2>2 DEF TypeOK
  <1>2. WireOK'
    BY DEF TypeOK, WireOK, DownOK, Id, Message, Frame
  <1>3. DownOK'
    BY DEF DownOK
  <1>4. LatestOK'
    BY <1>0, <1>a DEF LatestOK, Idle
  <1>5. GapInv'
    <2> SUFFICES ASSUME settled' \/ About', NEW id
                 PROVE  active' \in attached' /\ (id \in stored'[active'] => Covered(id)')
      BY DEF GapInv
    <2>1. active \in Room
      BY DEF TypeOK, LatestOK, About
    <2>2. CASE latest = f
      <3>1. fetch[f].room = active /\ ~settled
        BY <1>0, <2>2 DEF LatestOK, Idle
      <3>2. active \in attached /\ About'
        BY <1>0, <1>a, <2>2, <3>1 DEF About, LatestOK
      <3>3. id \in stored[active] => id \in msgs \/ PushedOut(active, id)
        BY <1>0, <3>1 DEF PushedOut
      <3> QED BY <1>a, <2>2, <3>2, <3>3 DEF Covered, PushedOut
    <2>3. CASE latest # f
      <3>1. (About' <=> About) /\ (About => fetch'[latest] = fetch[latest])
        BY <1>a, <2>3 DEF About, TypeOK
      <3>2. active \in attached /\ (id \in stored[active] => Covered(id))
        BY <3>1 DEF GapInv
      <3> QED BY <3>1, <3>2 DEF Covered, PushedOut, Sending, OnWire
    <2> QED BY <2>2, <2>3
  <1>6. BadgeInv'
    <2> SUFFICES ASSUME settled \/ About'
                 PROVE  /\ Caught(lastMsg[active])'
                        /\ \A i \in DOMAIN wire : wire[i].type = "snapshot" => Caught(wire[i].last[active])'
      BY DEF BadgeInv
    <2>1. active \in Room
      BY DEF TypeOK, LatestOK, About
    <2>2. CASE latest = f
      <3>1. fetch[f].room = active /\ About'
        BY <1>0, <1>a, <2>2 DEF LatestOK, Idle, About
      <3>2. ASSUME NEW x \in stored[active] \union {0} PROVE Caught(x)'
        <4>1. CASE x = 0
          BY <2>1, <4>1 DEF Caught, TypeOK
        <4>2. CASE x \in stored[active]
          BY <1>0, <1>a, <2>2, <3>1, <4>2 DEF Caught
        <4> QED BY <4>1, <4>2
      <3> QED BY <2>1, <3>2 DEF WireOK
    <2>3. CASE latest # f
      <3>1. (About' <=> About) /\ (About => fetch'[latest] = fetch[latest])
        BY <1>a, <2>3 DEF About, TypeOK
      <3> QED BY <3>1 DEF BadgeInv, Caught
    <2> QED BY <2>2, <2>3
  <1> QED BY <1>1, <1>2, <1>3, <1>4, <1>5, <1>6

\* A lost answer leaves the page unsettled.
LEMMA FetchFailsStep ==
    ASSUME Inv, NEW f \in Fetch, FetchFails(f)
    PROVE  Inv'
  <1> USE ViewConstants DEF Inv, Typed, FetchFails, servervars, linkvars, pagevars,
     fetchvars
  <1>1. TypeOK'
    BY DEF TypeOK, Id, Message, Frame, Idle, Request
  <1>2. WireOK'
    BY DEF TypeOK, WireOK, DownOK, Id, Message, Frame
  <1>3. DownOK'
    BY DEF DownOK
  <1>4. LatestOK'
    BY DEF TypeOK, LatestOK, Idle, Request
  <1>5. GapInv'
    BY DEF TypeOK, WireOK, DownOK, LatestOK, GapInv, Covered, About, OnWire, Sending,
       PushedOut, Idle, Request
  <1>6. BadgeInv'
    BY DEF TypeOK, WireOK, DownOK, LatestOK, GapInv, BadgeInv, Caught, About, Idle, Request
  <1> QED BY <1>1, <1>2, <1>3, <1>4, <1>5, <1>6

\* The answer goes from the request to the page, seen up to its newest.
LEMMA ShowHistoryStep ==
    ASSUME Inv, NEW f \in Fetch, ShowHistory(f)
    PROVE  Inv'
  <1> USE ViewConstants DEF Inv, Typed, ShowHistory, Seen, servervars, linkvars, pagevars,
     fetchvars
  <1> DEFINE o == fetch[f].room
             msgs == fetch[f].msgs
  <1>0. /\ fetch[f].stage = "answered" /\ o \in Room /\ msgs \in SUBSET (1 .. MaxMessage)
        /\ shown' = shown \union {[room |-> o, id |-> id] : id \in msgs} /\ shown' \subseteq Message
        /\ fetch' = [fetch EXCEPT ![f] = Idle] /\ settled' = (settled \/ (f = latest /\ fetch[f].fed))
    <2>1. fetch[f] \in [stage : {"answered"}, room : Room, msgs : SUBSET Id, fed : BOOLEAN]
      BY DEF TypeOK, Request, Idle
    <2>2. /\ fetch[f].stage = "answered" /\ o \in Room /\ msgs \in SUBSET (1 .. MaxMessage)
          /\ shown' = shown \union {[room |-> o, id |-> id] : id \in msgs}
          /\ fetch' = [fetch EXCEPT ![f] = Idle] /\ settled' = (settled \/ (f = latest /\ fetch[f].fed))
      BY <2>1 DEF Id
    <2>3. shown' \subseteq Message
      BY <2>2 DEF TypeOK, Message, Id
    <2> QED BY <2>2, <2>3
  <1>a. /\ lastSeen' \in [Room -> 0 .. MaxMessage] /\ \A r \in Room : lastSeen[r] <= lastSeen'[r]
        /\ \A id \in msgs : id <= lastSeen'[o]
    <2> DEFINE new == Newest(msgs)
    <2>1. new \in 0 .. MaxMessage /\ \A id \in msgs : id <= new
      <3>1. msgs \in SUBSET (1 .. MaxMessage) /\ MaxMessage \in Nat
        BY <1>0
      <3> HIDE DEF msgs
      <3>2. new \in msgs \union {0} /\ \A y \in msgs : y <= new
        BY <3>1, NewestIs
      <3>3. msgs \union {0} \subseteq 0 .. MaxMessage
        BY <3>1
      <3> HIDE DEF new
      <3> QED BY <3>2, <3>3
    <2>2. lastSeen[o] \in 0 .. MaxMessage
      BY <1>0 DEF TypeOK
    <2>3. lastSeen' = [lastSeen EXCEPT ![o] = Max({lastSeen[o], new})]
      OBVIOUS
    <2> HIDE DEF new
    <2>4. /\ Max({lastSeen[o], new}) \in 0 .. MaxMessage
          /\ lastSeen[o] <= Max({lastSeen[o], new}) /\ new <= Max({lastSeen[o], new})
      BY <2>1, <2>2, LargerOf
    <2>5. PICK v \in 0 .. MaxMessage : v = Max({lastSeen[o], new})
      BY <2>4
    <2>6. lastSeen' = [lastSeen EXCEPT ![o] = v] /\ lastSeen[o] <= v /\ new <= v
      BY <2>3, <2>4, <2>5
    <2>7. \A id \in msgs : id <= v
      <3> HIDE DEF msgs
      <3> QED BY <1>0, <2>1, <2>6
    <2>8. \A r \in Room : lastSeen[r] \in Nat /\ lastSeen[r] <= lastSeen[r]
      BY DEF TypeOK
    <2>9. o \in Room /\ lastSeen \in [Room -> 0 .. MaxMessage]
      BY <1>0 DEF TypeOK
    <2> HIDE DEF o, msgs
    <2> QED BY <2>6, <2>7, <2>8, <2>9
  <1>b. fetch' \in [Fetch -> Request] /\ fetch'[f] = Idle /\ \A g \in Fetch \ {f} : fetch'[g] = fetch[g]
    BY <1>0 DEF TypeOK, Request
  <1> HIDE DEF o, msgs
  <1>1. TypeOK'
    <2>1. \A g \in Fetch : fetch'[g].stage = "answered" => Cardinality(fetch'[g].msgs) <= HistoryLimit
      BY <1>b DEF TypeOK, Idle
    <2>2. settled' \in BOOLEAN
      BY <1>0 DEF TypeOK
    <2> QED BY <1>0, <1>a, <1>b, <2>1, <2>2 DEF TypeOK
  <1>2. WireOK'
    BY DEF TypeOK, WireOK, DownOK, Id, Message, Frame
  <1>3. DownOK'
    BY DEF DownOK
  <1>4. LatestOK'
    BY <1>0, <1>b DEF LatestOK, Idle, TypeOK
  <1>5. GapInv'
    <2> SUFFICES ASSUME settled' \/ About', NEW id
                 PROVE  active' \in attached' /\ (id \in stored'[active'] => Covered(id)')
      BY DEF GapInv
    <2>1. (settled \/ About) /\ active \in Room
      BY <1>0, <1>b DEF TypeOK, LatestOK, About, Idle
    <2>2. active \in attached /\ (id \in stored[active] => Covered(id))
      BY <2>1 DEF GapInv
    <2>3. About /\ id \in fetch[latest].msgs =>
              [room |-> active, id |-> id] \in shown' \/ (About' /\ fetch'[latest] = fetch[latest])
      <3>1. CASE latest = f
        BY <1>0, <3>1 DEF LatestOK, Idle, About, o, msgs
      <3>2. CASE latest # f
        BY <1>b, <3>2 DEF About, TypeOK
      <3> QED BY <3>1, <3>2
    <2> QED BY <1>0, <2>2, <2>3 DEF Covered, PushedOut, Sending, OnWire
  <1>6. BadgeInv'
    <2> SUFFICES ASSUME settled' \/ About'
                 PROVE  /\ Caught(lastMsg[active])'
                        /\ \A i \in DOMAIN wire : wire[i].type = "snapshot" => Caught(wire[i].last[active])'
      BY DEF BadgeInv
    <2>1. (settled \/ About) /\ active \in Room
      BY <1>0, <1>b DEF TypeOK, LatestOK, About, Idle
    <2>2. ASSUME NEW x \in 0 .. MaxMessage, Caught(x) PROVE Caught(x)'
      <3>1. CASE x <= lastSeen[active]
        <4>1. /\ lastSeen[active] \in 0 .. MaxMessage /\ lastSeen'[active] \in 0 .. MaxMessage
              /\ lastSeen[active] <= lastSeen'[active]
          BY <1>a, <2>1 DEF TypeOK
        <4> QED BY <3>1, <4>1 DEF Caught
      <3>2. CASE About /\ latest = f /\ \E id \in fetch[latest].msgs : x <= id
        <4>1. PICK id \in msgs : x <= id
          BY <3>2 DEF msgs
        <4>2. o = active
          BY <1>0, <3>2 DEF LatestOK, Idle, About, o
        <4>4. id \in 1 .. MaxMessage /\ id <= lastSeen'[active]
          BY <1>0, <1>a, <4>2
        <4>3. lastSeen'[active] \in 0 .. MaxMessage
          BY <1>a, <2>1
        <4> QED BY <4>1, <4>3, <4>4 DEF Caught
      <3>3. CASE About /\ latest # f /\ \E id \in fetch[latest].msgs : x <= id
        BY <1>b, <3>3 DEF Caught, About, TypeOK
      <3> QED BY <2>2, <3>1, <3>2, <3>3 DEF Caught
    <2>3. lastMsg[active] \in 0 .. MaxMessage
      BY <2>1 DEF TypeOK
    <2>4. \A i \in DOMAIN wire : wire[i].type = "snapshot" => wire[i].last[active] \in 0 .. MaxMessage
      BY <2>1 DEF TypeOK, Frame
    <2> QED BY <2>1, <2>2, <2>3, <2>4 DEF BadgeInv
  <1> QED BY <1>1, <1>2, <1>3, <1>4, <1>5, <1>6

-----------------------------------------------------------------------------
(* The theorems.                                                           *)

\* No room is on the page and nothing is stored at the start.
LEMMA InvInit == Init => Inv
  <1> SUFFICES ASSUME Init PROVE Inv
    OBVIOUS
  <1> USE ViewConstants DEF Init
  <1>1. TypeOK
    <2>1. stored \in [Room -> SUBSET (1 .. lastId)] /\ lastId \in 0 .. MaxMessage
      OBVIOUS
    <2>2. lastMsg \in [Room -> 0 .. MaxMessage] /\ lastSeen \in [Room -> 0 .. MaxMessage]
      OBVIOUS
    <2>3. /\ fetch \in [Fetch -> Request]
          /\ \A f \in Fetch : fetch[f].stage # "answered"
      BY DEF Request, Idle
    <2>4. DOMAIN wire = {}
      OBVIOUS
    <2> QED BY <2>1, <2>2, <2>3, <2>4 DEF TypeOK
  <1>2. WireOK /\ DownOK /\ LatestOK
    BY DEF WireOK, DownOK, LatestOK
  <1>3. ~settled /\ ~About
    BY DEF About
  <1> QED BY <1>1, <1>2, <1>3 DEF Inv, Typed, GapInv, BadgeInv

\* Every action keeps the invariant.
LEMMA InvNext == Inv /\ [Next]_vars => Inv'
  <1> SUFFICES ASSUME Inv, [Next]_vars PROVE Inv'
    OBVIOUS
  <1>1. ASSUME NEW s \in Sender,
               (\E r \in Room : InsertMessage(s, r)) \/ PublishMessage(s) \/ LoseMessage(s)
        PROVE  Inv'
    BY <1>1, InsertMessageStep, PublishMessageStep, LoseMessageStep
  <1>2. ASSUME Lost \/ Connect \/ \E r \in Room : AttachClient(r) PROVE Inv'
    BY <1>2, LostStep, ConnectStep, AttachClientStep
  <1>3. ASSUME OnSnapshot \/ OnMsg PROVE Inv'
    BY <1>3, OnSnapshotStep, OnMsgStep
  <1>4. ASSUME NEW f \in Fetch,
               (\E r \in Room : SelectRoom(f, r)) \/ ListMessages(f) \/ FetchFails(f) \/ ShowHistory(f)
        PROVE  Inv'
    BY <1>4, SelectRoomStep, ListMessagesStep, FetchFailsStep, ShowHistoryStep
  <1>5. CASE UNCHANGED vars
    <2> USE <1>5 DEF vars, Inv, Typed
    <2>1. TypeOK'
      BY DEF TypeOK
    <2>2. WireOK' /\ DownOK' /\ LatestOK'
      BY DEF WireOK, DownOK, LatestOK
    <2>3. GapInv'
      BY DEF GapInv, Covered, About, OnWire, Sending, PushedOut
    <2>4. BadgeInv'
      BY DEF BadgeInv, Caught, About
    <2> QED BY <2>1, <2>2, <2>3, <2>4
  <1> QED BY <1>1, <1>2, <1>3, <1>4, <1>5 DEF Next

\* The invariant holds in every reachable state.
LEMMA Always == Spec => []Inv
  BY InvInit, InvNext, PTL DEF Spec

\* The types, and that no answer is longer than asked for, whatever is stored
\* (repo.go 318-352, app.js 190-221).
THEOREM TypeCorrect == Spec => []TypeOK
  <1>1. Inv => TypeOK
    BY DEF Inv, Typed
  <1> QED BY <1>1, Always, PTL

\* History and live feed leave no gap, for any number of senders, rooms and
\* messages and any limit: attach before the history is read, and the history
\* below what came live (main.go 823-836, app.js 377-404).
THEOREM NothingMissedHolds == Spec => []NothingMissed
  <1>1. Inv => NothingMissed
    <2> SUFFICES ASSUME Inv, settled, Quiet, NEW id \in stored[active], id \notin unsent,
                        ~([room |-> active, id |-> id] \in shown)
                 PROVE  PushedOut(active, id)
      BY DEF NothingMissed, PushedOut
    <2>1. active \in Room /\ ~About /\ Covered(id)
      BY DEF Inv, Typed, TypeOK, LatestOK, About, Idle, GapInv
    <2>2. ~OnWire(active, id)
      BY DEF Quiet, OnWire
    <2>3. ~Sending(active, id)
      <3>1. [room |-> active, id |-> id] # None
        BY <2>1, ViewConstants DEF Inv, Typed, TypeOK, Message, Id
      <3> QED BY <3>1 DEF Quiet, Sending
    <2> QED BY <2>1, <2>2, <2>3 DEF Covered
  <1> QED BY <1>1, Always, PTL

\* The room on the page has no unread badge once its history has come, in
\* whatever order snapshot, live messages and history arrive (app.js 57-66, 190-221).
THEOREM BadgeClearsHolds == Spec => []BadgeClears
  <1>1. Inv => BadgeClears
    <2> SUFFICES ASSUME Inv, settled PROVE lastMsg[active] <= lastSeen[active]
      BY DEF BadgeClears
    <2>1. ~About
      BY DEF Inv, Typed, LatestOK, About, Idle
    <2> QED BY <2>1 DEF Inv, BadgeInv, Caught
  <1> QED BY <1>1, Always, PTL

-----------------------------------------------------------------------------
(* What the page shows.                                                    *)

\* Every message on the page was stored in the room it is shown for, and so was
\* every one of a history that has yet to be shown.
ShownIsStored == \A m \in shown : m.id \in stored[m.room]
AnswersStored ==
    \A f \in Fetch : fetch[f].stage = "answered" => fetch[f].msgs \subseteq stored[fetch[f].room]

\* The page shows messages of the room it is about and of no other.
OwnRoom == \A m \in shown : m.room = active

\* No history comes after the page has been turned to another room.
HistoryInTime == [][\A f \in Fetch : ShowHistory(f) => fetch[f].room = active]_vars

\* What a step puts on the page: nothing, the message of a frame, or a history.
LEMMA ShownStep ==
    ASSUME Inv, Next
    PROVE  \/ shown' = {}
           \/ shown' \subseteq shown /\ active' = active
           \/ \E i \in DOMAIN wire :
                 /\ wire[i].type = "msg" /\ wire[i].room = active /\ active' = active
                 /\ shown' = shown \union {[room |-> active, id |-> wire[i].id]}
           \/ \E f \in Fetch :
                 /\ ShowHistory(f) /\ fetch[f].stage = "answered" /\ active' = active
                 /\ shown' = shown \union {[room |-> fetch[f].room, id |-> id] : id \in fetch[f].msgs}
  <1>1. CASE OnMsg
    <2>1. 1 \in DOMAIN wire /\ wire[1] = Head(wire)
      BY <1>1 DEF OnMsg, Inv, Typed, WireOK
    <2>2. wire[1].type = "msg" /\ active' = active
      BY <1>1, <2>1 DEF OnMsg
    <2>3. CASE active = wire[1].room
      <3>1. shown' = shown \union {[room |-> active, id |-> wire[1].id]}
        BY <1>1, <2>1, <2>3 DEF OnMsg
      <3> QED BY <2>1, <2>2, <2>3, <3>1
    <2>4. CASE active # wire[1].room
      <3>1. shown' = shown
        BY <1>1, <2>1, <2>4 DEF OnMsg
      <3> QED BY <2>2, <3>1
    <2> QED BY <2>3, <2>4
  <1>2. ASSUME NEW f \in Fetch, ShowHistory(f)
        PROVE  /\ fetch[f].stage = "answered" /\ active' = active
               /\ shown' = shown \union {[room |-> fetch[f].room, id |-> id] : id \in fetch[f].msgs}
    BY <1>2 DEF ShowHistory
  <1>3. ASSUME NEW f \in Fetch, NEW r \in Room, SelectRoom(f, r) PROVE shown' = {}
    BY <1>3 DEF SelectRoom
  <1>4. ASSUME NEW f \in Fetch, ListMessages(f) \/ FetchFails(f)
        PROVE  shown' = shown /\ active' = active
    BY <1>4 DEF ListMessages, FetchFails, pagevars
  <1>5. ASSUME NEW s \in Sender,
               (\E r \in Room : InsertMessage(s, r)) \/ PublishMessage(s) \/ LoseMessage(s)
        PROVE  shown' = shown /\ active' = active
    BY <1>5 DEF InsertMessage, PublishMessage, LoseMessage, pagevars
  <1>6. CASE Lost \/ Connect \/ (\E r \in Room : AttachClient(r)) \/ OnSnapshot
    BY <1>6 DEF Lost, Connect, AttachClient, OnSnapshot, pagevars
  <1> QED BY <1>1, <1>2, <1>3, <1>4, <1>5, <1>6, Zenon DEF Next

\* Messages are never taken out of a room.
LEMMA StoredStep ==
    ASSUME Inv, Next, NEW r \in Room
    PROVE  stored[r] \subseteq stored'[r]
  <1>1. ASSUME NEW s \in Sender, NEW o \in Room, InsertMessage(s, o)
        PROVE  stored[r] \subseteq stored'[r]
    <2>1. /\ stored' = [stored EXCEPT ![o] = @ \union {lastId'}]
          /\ stored \in [Room -> SUBSET (1 .. lastId)]
      BY <1>1 DEF InsertMessage, Inv, Typed, TypeOK
    <2> QED BY <2>1
  <1>2. ASSUME NEW s \in Sender, PublishMessage(s) \/ LoseMessage(s) PROVE stored' = stored
    BY <1>2 DEF PublishMessage, LoseMessage
  <1>3. CASE Lost \/ Connect \/ (\E o \in Room : AttachClient(o)) \/ OnSnapshot \/ OnMsg
    BY <1>3 DEF Lost, Connect, AttachClient, OnSnapshot, OnMsg, servervars
  <1>4. ASSUME NEW f \in Fetch,
               (\E o \in Room : SelectRoom(f, o)) \/ ListMessages(f) \/ FetchFails(f)
                 \/ ShowHistory(f)
        PROVE  stored' = stored
    BY <1>4 DEF SelectRoom, ListMessages, FetchFails, ShowHistory, servervars
  <1> QED BY <1>1, <1>2, <1>3, <1>4 DEF Next

\* An answer is made of what is stored when it is read.
LEMMA AnswerStep ==
    ASSUME Inv, Next, NEW f \in Fetch, fetch'[f].stage = "answered"
    PROVE  \/ /\ fetch[f].stage = "answered"
              /\ fetch'[f].room = fetch[f].room /\ fetch'[f].msgs = fetch[f].msgs
           \/ /\ fetch'[f].room \in Room
              /\ fetch'[f].msgs \subseteq stored[fetch'[f].room] /\ stored' = stored
  <1> USE DEF Inv, Typed, TypeOK
  <1>1. ASSUME NEW g \in Fetch, NEW r \in Room, SelectRoom(g, r)
        PROVE  g # f /\ fetch'[f] = fetch[f]
    BY <1>1 DEF SelectRoom
  <1>2. ASSUME NEW g \in Fetch, FetchFails(g) \/ ShowHistory(g)
        PROVE  g # f /\ fetch'[f] = fetch[f]
    BY <1>2 DEF FetchFails, ShowHistory, Idle
  <1>3. ASSUME NEW g \in Fetch, ListMessages(g), g # f PROVE fetch'[f] = fetch[f]
    BY <1>3 DEF ListMessages
  <1>4. ASSUME ListMessages(f)
        PROVE  /\ fetch'[f].room \in Room /\ stored' = stored
               /\ fetch'[f].msgs \subseteq stored[fetch'[f].room]
    <2>1. fetch[f].room \in Room
      BY <1>4 DEF ListMessages, Request, Idle
    <2>2. /\ fetch'[f].room = fetch[f].room /\ stored' = stored
          /\ fetch'[f].msgs = LatestOf(stored[fetch[f].room])
      BY <1>4 DEF ListMessages, servervars
    <2> QED BY <2>1, <2>2 DEF LatestOf
  <1>5. CASE Lost
    <2>1. fetch'[f] = IF fetch[f].stage = "answered" THEN [fetch[f] EXCEPT !.fed = FALSE]
                      ELSE fetch[f]
      BY <1>5 DEF Lost
    <2>2. fetch[f].stage = "answered"
      BY <2>1
    <2>3. fetch[f] \in [stage : {"answered"}, room : Room, msgs : SUBSET Id, fed : BOOLEAN]
      BY <2>2 DEF Request, Idle
    <2> QED BY <2>1, <2>2, <2>3
  <1>6. CASE Connect \/ (\E r \in Room : AttachClient(r)) \/ OnSnapshot \/ OnMsg
    BY <1>6 DEF Connect, AttachClient, OnSnapshot, OnMsg, fetchvars
  <1>7. ASSUME NEW s \in Sender,
               (\E r \in Room : InsertMessage(s, r)) \/ PublishMessage(s) \/ LoseMessage(s)
        PROVE  fetch' = fetch
    BY <1>7 DEF InsertMessage, PublishMessage, LoseMessage, fetchvars
  <1> HIDE DEF Inv, Typed, TypeOK
  <1> QED BY <1>1, <1>2, <1>3, <1>4, <1>5, <1>6, <1>7 DEF Next

\* Every step keeps the page and the answers to what is stored.
LEMMA StoredShownStep ==
    Inv /\ ShownIsStored /\ AnswersStored /\ [Next]_vars => ShownIsStored' /\ AnswersStored'
  <1>1. ASSUME UNCHANGED vars, ShownIsStored, AnswersStored PROVE ShownIsStored' /\ AnswersStored'
    BY <1>1 DEF vars, ShownIsStored, AnswersStored
  <1>2. ASSUME Inv, ShownIsStored, AnswersStored, Next PROVE ShownIsStored' /\ AnswersStored'
    <2>t. /\ shown \subseteq Message /\ fetch \in [Fetch -> Request]
          /\ wire \in Seq(Frame)
          /\ \A i \in DOMAIN wire : wire[i].type = "msg" => wire[i].id \in stored[wire[i].room]
      BY <1>2 DEF Inv, Typed, TypeOK, WireOK
    <2>g. \A r \in Room : stored[r] \subseteq stored'[r]
      BY <1>2, StoredStep
    <2>1. ASSUME NEW m \in shown' PROVE m.room \in Room /\ m.id \in stored[m.room]
      <3>1. CASE m \in shown
        BY <1>2, <2>t, <3>1 DEF ShownIsStored, Message
      <3>2. ASSUME NEW i \in DOMAIN wire, wire[i].type = "msg", wire[i].room = active,
                   m = [room |-> active, id |-> wire[i].id]
            PROVE  m.room \in Room /\ m.id \in stored[m.room]
        <4>1. wire[i] \in Frame
          BY <2>t
        <4>2. wire[i].room \in Room
          BY <3>2, <4>1 DEF Frame
        <4> QED BY <2>t, <3>2, <4>2
      <3>3. ASSUME NEW f \in Fetch, fetch[f].stage = "answered", NEW id \in fetch[f].msgs,
                   m = [room |-> fetch[f].room, id |-> id]
            PROVE  m.room \in Room /\ m.id \in stored[m.room]
        <4>1. fetch[f].room \in Room
          BY <2>t, <3>3 DEF Request, Idle
        <4> QED BY <1>2, <3>3, <4>1 DEF AnswersStored
      <3>4. CASE m \notin shown
        <4>1. \/ \E i \in DOMAIN wire : wire[i].type = "msg" /\ wire[i].room = active
                                        /\ m = [room |-> active, id |-> wire[i].id]
              \/ \E f \in Fetch : fetch[f].stage = "answered"
                    /\ \E id \in fetch[f].msgs : m = [room |-> fetch[f].room, id |-> id]
          BY <1>2, <3>4, ShownStep, Zenon
        <4> QED BY <3>2, <3>3, <4>1
      <3> QED BY <3>1, <3>4
    <2>2. ShownIsStored'
      BY <2>g, <2>1 DEF ShownIsStored
    <2>3. ASSUME NEW f \in Fetch, fetch'[f].stage = "answered"
          PROVE  fetch'[f].msgs \subseteq stored'[fetch'[f].room]
      <3>1. CASE /\ fetch[f].stage = "answered"
                 /\ fetch'[f].room = fetch[f].room /\ fetch'[f].msgs = fetch[f].msgs
        <4>1. fetch[f].room \in Room
          BY <2>t, <3>1 DEF Request, Idle
        <4> QED BY <1>2, <2>g, <3>1, <4>1 DEF AnswersStored
      <3> QED BY <1>2, <2>3, <3>1, AnswerStep
    <2>4. AnswersStored'
      BY <2>3 DEF AnswersStored
    <2> QED BY <2>2, <2>4
  <1> QED BY <1>1, <1>2

\* Nothing is on the page that is not in the database for that room, whichever
\* histories overlap and whatever is lost (app.js 203-221, 377-404).
THEOREM PageIsStored == Spec => []ShownIsStored
  <1>1. Init => ShownIsStored /\ AnswersStored
    BY DEF Init, ShownIsStored, AnswersStored, Idle
  <1> QED BY <1>1, Always, StoredShownStep, PTL DEF Spec

\* A step of a page whose histories come in time leaves one room on it.
LEMMA OwnRoomStep ==
    ASSUME Inv, OwnRoom, [Next]_vars,
           [\A f \in Fetch : ShowHistory(f) => fetch[f].room = active]_vars
    PROVE  OwnRoom'
  <1>1. ASSUME UNCHANGED vars, OwnRoom PROVE OwnRoom'
    BY <1>1 DEF vars, OwnRoom
  <1>2. ASSUME Inv, OwnRoom, Next,
               \A f \in Fetch : ShowHistory(f) => fetch[f].room = active
        PROVE  OwnRoom'
    <2>1. CASE shown' = {}
      BY <2>1 DEF OwnRoom
    <2>2. CASE shown' \subseteq shown /\ active' = active
      BY <1>2, <2>2 DEF OwnRoom
    <2>3. ASSUME NEW i \in DOMAIN wire, active' = active,
                 shown' = shown \union {[room |-> active, id |-> wire[i].id]}
          PROVE  OwnRoom'
      BY <1>2, <2>3 DEF OwnRoom
    <2>4. ASSUME NEW f \in Fetch, ShowHistory(f), active' = active,
                 shown' = shown \union {[room |-> fetch[f].room, id |-> id] : id \in fetch[f].msgs}
          PROVE  OwnRoom'
      BY <1>2, <2>4 DEF OwnRoom
    <2> QED BY <1>2, <2>1, <2>2, <2>3, <2>4, ShownStep
  <1>3. CASE UNCHANGED vars
    BY <1>1, <1>3
  <1>4. CASE ~UNCHANGED vars
    BY <1>2, <1>4
  <1> QED BY <1>3, <1>4

\* A page shows one room at a time, unless a history arrives after the page has
\* been turned to another room: selectRoom does not look at state.activeRoomId
\* again after its fetch (app.js 377-404).
THEOREM OwnRoomUnlessOverlapped == Spec /\ HistoryInTime => []OwnRoom
  <1>1. Init => OwnRoom
    BY DEF Init, OwnRoom
  <1> QED BY <1>1, Always, OwnRoomStep, PTL DEF Spec, HistoryInTime
=============================================================================
