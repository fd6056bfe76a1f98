------------------------ MODULE ElixirPresenceProofs ------------------------
(***************************************************************************)
(* Machine-checked proofs about ElixirPresence, for any number of          *)
(* connections and processes: the count of a room's GenServer stays right  *)
(* through joins, leaves, deaths and its own stopping and starting.        *)
(***************************************************************************)
EXTENDS ElixirPresence, FiniteSetTheorems, TLAPS

USE PresenceConstants DEF PresenceConstants

\* A connection that has not called yet is in no mailbox and no count.
NotCalledYet == \A c \in Conn : pc[c] \in {"subscribed", "found"} => Unheard(c)

\* Who is about to call knows a process to call.
HoldsProcess == \A c \in Conn : pc[c] = "found" => pid[c] \in Pid

\* Nobody has said that a connection leaves before it does.
Staying == {"subscribed", "found", "calling", "in"}
NotLeaving ==
  \A c \in Conn : pc[c] \in Staying =>
     \A p \in Pid : Msg("leave", c) \notin Mails(p) /\ Msg("DOWN", c) \notin Mails(p)

\* A caller's join is in the mailbox of the process it has called.
JoinIsWithCallee ==
  \A c \in Conn : pc[c] = "calling" =>
     \A p \in Pid : Msg("join", c) \in Mails(p) => pid[c] = p

\* The inductive invariant.
IInv ==
  /\ TypeOK /\ NotCalledYet /\ HoldsProcess /\ NotLeaving /\ JoinIsWithCallee
  /\ JoinedIsCounted /\ GhostsAreDropped /\ CountIsRight /\ EmptyIsTimed

-----------------------------------------------------------------------------
(* What the operators on mailboxes do to the set of their messages.        *)

\* What a connection says, and what is said of it, is a message.
LEMMA MsgIsMessage ==
    ASSUME NEW tag \in {"join", "leave", "DOWN"}, NEW c \in Conn
    PROVE  Msg(tag, c) \in Message
  BY DEF Msg, Message

\* Append adds its message.
LEMMA AppendElems ==
    ASSUME NEW s \in Seq(Message), NEW m \in Message
    PROVE  Append(s, m) \in Seq(Message) /\ Elems(Append(s, m)) = Elems(s) \cup {m}
  <1> DEFINE t == Append(s, m)
  <1>1. t \in Seq(Message) /\ Len(t) = Len(s) + 1 /\ t[Len(s) + 1] = m
    OBVIOUS
  <1>2. Len(s) \in Nat /\ \A i \in 1..Len(s) : t[i] = s[i]
    OBVIOUS
  <1> HIDE DEF t
  <1>3. 1..Len(t) = (1..Len(s)) \cup {Len(s) + 1}
    BY <1>1, <1>2
  <1>4. Elems(t) = Elems(s) \cup {m}
    BY <1>1, <1>2, <1>3 DEF Elems
  <1> QED BY <1>1, <1>4 DEF t

\* Tail takes away one occurrence of the head.
LEMMA TailElems ==
    ASSUME NEW s \in Seq(Message), s # <<>>
    PROVE  /\ Head(s) \in Message /\ Tail(s) \in Seq(Message)
           /\ Elems(s) = Elems(Tail(s)) \cup {Head(s)}
  <1>1. Head(s) = s[1] /\ 1 \in 1..Len(s) /\ s[1] \in Message
    OBVIOUS
  <1>2. Len(Tail(s)) = Len(s) - 1 /\ \A i \in 1..Len(s) - 1 : Tail(s)[i] = s[i + 1]
    OBVIOUS
  <1>3. Elems(Tail(s)) \subseteq Elems(s)
    BY <1>2 DEF Elems
  <1>4. ASSUME NEW i \in 1..Len(s), i # 1 PROVE s[i] \in Elems(Tail(s))
    <2>1. i - 1 \in 1..Len(Tail(s)) /\ Tail(s)[i - 1] = s[i]
      BY <1>2, <1>4
    <2> QED BY <2>1 DEF Elems
  <1> QED BY <1>1, <1>3, <1>4 DEF Elems

\* Flush takes away DOWNs of its connection and nothing else.
LEMMA FlushElems ==
    ASSUME NEW s \in Seq(Message), NEW c
    PROVE  /\ Flush(s, c) \in Seq(Message)
           /\ Elems(Flush(s, c)) \subseteq Elems(s)
           /\ Elems(s) \subseteq Elems(Flush(s, c)) \cup {Msg("DOWN", c)}
  <1> DEFINE downs == {i \in 1..Len(s) : s[i] = Msg("DOWN", c)}
             at == CHOOSE i \in downs : TRUE
             rest == [i \in 1..Len(s) - 1 |-> s[IF i < at THEN i ELSE i + 1]]
  <1>1. CASE downs = {}
    BY <1>1 DEF Flush
  <1>2. CASE downs # {}
    <2>1. at \in 1..Len(s) /\ s[at] = Msg("DOWN", c)
      BY <1>2
    <2>2. Flush(s, c) = rest
      BY <1>2 DEF Flush
    <2> HIDE DEF downs, at
    <2>3. \A i \in 1..Len(s) - 1 : (IF i < at THEN i ELSE i + 1) \in 1..Len(s)
      BY <2>1
    <2>4. rest \in Seq(Message) /\ Len(rest) = Len(s) - 1
      BY <2>1, <2>3
    <2>5. Elems(rest) \subseteq Elems(s)
      BY <2>3, <2>4 DEF Elems
    <2>6. ASSUME NEW i \in 1..Len(s), i # at PROVE s[i] \in Elems(rest)
      <3>1. CASE i < at
        <4>1. i \in 1..Len(s) - 1 /\ rest[i] = s[i]
          BY <2>1, <3>1
        <4> QED BY <2>4, <4>1 DEF Elems
      <3>2. CASE i > at
        <4>1. i - 1 \in 1..Len(s) - 1 /\ rest[i - 1] = s[i]
          BY <2>1, <3>2
        <4> QED BY <2>4, <4>1 DEF Elems
      <3> QED BY <2>1, <2>6, <3>1, <3>2
    <2>7. Elems(s) \subseteq Elems(rest) \cup {Msg("DOWN", c)}
      BY <2>1, <2>6 DEF Elems
    <2> QED BY <2>2, <2>4, <2>5, <2>7
  <1> QED BY <1>1, <1>2

\* An empty mailbox has no messages.
LEMMA EmptyElems == Elems(<<>>) = {}
  BY DEF Elems

\* Counts of members are counts.
LEMMA MembersCount ==
    ASSUME NEW S \in SUBSET Conn
    PROVE  Cardinality(S) \in Count
  <1>1. IsFiniteSet(S) /\ Cardinality(S) <= Cardinality(Conn)
    BY FS_Subset
  <1>2. Cardinality(S) \in Nat /\ Cardinality(Conn) \in Nat
    BY <1>1, FS_CardinalityType
  <1> QED BY <1>1, <1>2 DEF Count

\* What a broadcast leaves with the connections.
LEMMA HeardCount ==
    ASSUME NEW n \in Count
    PROVE  /\ Heard(n) \in [Conn -> Count]
           /\ \A c \in Conn : pc[c] # "gone" => Heard(n)[c] = n
  <1>1. 0 \in Count
    BY FS_CardinalityType DEF Count
  <1> QED BY <1>1 DEF Heard

-----------------------------------------------------------------------------
(* The steps.                                                              *)

\* No process and no connection to begin with.
LEMMA InitIInv == Init => IInv
  <1> SUFFICES ASSUME Init PROVE IInv
    OBVIOUS
  <1>1. \A p \in Pid : mail[p] = <<>> /\ Mails(p) = {}
    BY EmptyElems DEF Init, Mails
  <1>2. TypeOK
    <2>1. 0 \in Count
      BY FS_CardinalityType DEF Count
    <2> QED BY <2>1 DEF Init, TypeOK, Places
  <1>3. NotCalledYet /\ HoldsProcess /\ NotLeaving /\ JoinIsWithCallee
    BY DEF Init, NotCalledYet, HoldsProcess, NotLeaving, Staying, JoinIsWithCallee
  <1>4. JoinedIsCounted /\ GhostsAreDropped /\ CountIsRight /\ EmptyIsTimed
    BY DEF Init, JoinedIsCounted, GhostsAreDropped, CountIsRight, EmptyIsTimed
  <1> QED BY <1>2, <1>3, <1>4 DEF IInv

\* A new connection has no trace in any process.
LEMMA SubscribeStep ==
    ASSUME IInv, NEW c \in Conn, Subscribe(c)
    PROVE  IInv'
  <1> USE DEF IInv
  <1>1. Unheard(c) /\ UNCHANGED <<reg, members, idle, mail, pid, shown>>
    BY DEF Subscribe
  <1>2. pc[c] = "gone" /\ pc'[c] = "subscribed" /\ \A d \in Conn \ {c} : pc'[d] = pc[d]
    BY DEF Subscribe, TypeOK
  <1>3. \A p \in Pid : Mails(p)' = Mails(p)
    BY <1>1 DEF Mails
  <1>4. TypeOK'
    BY <1>1 DEF Subscribe, TypeOK, Places
  <1>5. NotCalledYet' /\ HoldsProcess'
    BY <1>1, <1>2, <1>3 DEF NotCalledYet, HoldsProcess, Unheard
  <1>6. NotLeaving'
    BY <1>1, <1>2, <1>3 DEF NotLeaving, Staying, Unheard, Msg
  <1>7. JoinIsWithCallee' /\ JoinedIsCounted' /\ CountIsRight'
    BY <1>1, <1>2, <1>3 DEF JoinIsWithCallee, JoinedIsCounted, CountIsRight
  <1>8. GhostsAreDropped'
    BY <1>1, <1>2, <1>3 DEF GhostsAreDropped, TypeOK
  <1>9. EmptyIsTimed'
    BY <1>1, <1>3 DEF EmptyIsTimed, TypeOK
  <1> QED BY <1>4, <1>5, <1>6, <1>7, <1>8, <1>9

\* The process found is the live one; a new one starts with its timer running.
LEMMA EnsureStartedStep ==
    ASSUME IInv, NEW c \in Conn, EnsureStarted(c)
    PROVE  IInv'
  <1> USE DEF IInv
  <1>1. PICK p \in Pid : /\ IF reg = NoPid THEN \A d \in Conn : pid[d] # p ELSE p = reg
                         /\ reg' = p
                         /\ pid' = [pid EXCEPT ![c] = p]
                         /\ idle' = [idle EXCEPT ![p] = @ \/ reg = NoPid]
    BY DEF EnsureStarted
  <1>2. UNCHANGED <<members, mail, shown>> /\ pc[c] = "subscribed"
        /\ pc' = [pc EXCEPT ![c] = "found"]
    BY DEF EnsureStarted
  <1>3. /\ pc'[c] = "found" /\ \A d \in Conn \ {c} : pc'[d] = pc[d]
        /\ pid'[c] = p /\ \A d \in Conn \ {c} : pid'[d] = pid[d]
    BY <1>1, <1>2 DEF TypeOK
  <1>4. \A q \in Pid : Mails(q)' = Mails(q)
    BY <1>2 DEF Mails
  <1>5. TypeOK'
    <2>1. idle' \in [Pid -> BOOLEAN] /\ \A q \in Pid \ {p} : idle'[q] = idle[q]
      BY <1>1 DEF TypeOK
    <2>2. \A q \in Pid : q # reg' => members'[q] = {} /\ ~idle'[q] /\ mail'[q] = <<>>
      BY <1>1, <1>2, <2>1 DEF TypeOK
    <2> QED BY <1>1, <1>2, <2>1, <2>2 DEF TypeOK, Places
  <1>6. NotCalledYet' /\ HoldsProcess'
    BY <1>1, <1>2, <1>3, <1>4 DEF NotCalledYet, HoldsProcess, Unheard
  <1>7. NotLeaving' /\ GhostsAreDropped'
    BY <1>2, <1>3, <1>4 DEF NotLeaving, Staying, GhostsAreDropped, TypeOK
  <1>8. JoinIsWithCallee'
    BY <1>2, <1>3, <1>4 DEF JoinIsWithCallee
  <1>9. JoinedIsCounted' /\ CountIsRight'
    BY <1>1, <1>2, <1>3 DEF JoinedIsCounted, CountIsRight
  <1>10. EmptyIsTimed'
    <2>1. CASE reg = NoPid
      BY <1>1, <2>1 DEF EmptyIsTimed, TypeOK
    <2>2. CASE reg # NoPid
      <3>1. p = reg /\ idle'[p] = idle[p]
        BY <1>1, <2>2 DEF TypeOK
      <3> QED BY <1>1, <1>2, <1>4, <2>2, <3>1 DEF EmptyIsTimed
    <2> QED BY <2>1, <2>2
  <1> QED BY <1>5, <1>6, <1>7, <1>8, <1>9, <1>10

\* A call to the live process is in its mailbox and nowhere else.
LEMMA CallStep ==
    ASSUME IInv, NEW c \in Conn, Call(c)
    PROVE  IInv'
  <1> USE DEF IInv
  <1>1. reg \in Pid /\ pid[c] = reg /\ pc[c] = "found" /\ pc' = [pc EXCEPT ![c] = "calling"]
        /\ UNCHANGED <<reg, members, idle, pid, shown>>
    BY DEF Call, HoldsProcess
  <1>2. pc'[c] = "calling" /\ \A d \in Conn \ {c} : pc'[d] = pc[d]
    BY <1>1 DEF TypeOK
  <1>3. mail' \in [Pid -> Seq(Message)] /\ mail'[reg] = Append(mail[reg], Msg("join", c))
        /\ \A p \in Pid \ {reg} : mail'[p] = mail[p]
    BY <1>1, MsgIsMessage, AppendElems DEF Call, TypeOK
  <1>4. Mails(reg)' = Mails(reg) \cup {Msg("join", c)}
        /\ \A p \in Pid \ {reg} : Mails(p)' = Mails(p)
    BY <1>1, <1>3, MsgIsMessage, AppendElems DEF Mails, TypeOK
  <1>5. TypeOK'
    BY <1>1, <1>3 DEF TypeOK, Places
  <1>6. NotCalledYet' /\ HoldsProcess'
    BY <1>1, <1>2, <1>4 DEF NotCalledYet, HoldsProcess, Unheard, Msg
  <1>7. NotLeaving'
    BY <1>1, <1>2, <1>4 DEF NotLeaving, Staying, Msg
  <1>8. JoinIsWithCallee'
    <2>1. \A p \in Pid : Msg("join", c) \notin Mails(p)
      BY <1>1 DEF NotCalledYet, Unheard, Msg
    <2>2. \A d \in Conn \ {c} : Msg("join", d) # Msg("join", c)
      BY DEF Msg
    <2> QED BY <1>1, <1>2, <1>4, <2>1, <2>2 DEF JoinIsWithCallee
  <1>9. JoinedIsCounted' /\ CountIsRight'
    BY <1>1, <1>2 DEF JoinedIsCounted, CountIsRight
  <1>10. GhostsAreDropped' /\ EmptyIsTimed'
    BY <1>1, <1>2, <1>4 DEF GhostsAreDropped, EmptyIsTimed, TypeOK
  <1> QED BY <1>5, <1>6, <1>7, <1>8, <1>9, <1>10

\* However a connection's process ends, its monitors say so.
LEMMA ExitStep ==
    ASSUME IInv, NEW c \in Conn, Exit(c)
    PROVE  IInv'
  <1> USE DEF IInv
  <1>1. /\ reg' = reg /\ members' = members /\ idle' = idle
        /\ pc'[c] = "gone"
        /\ \A d \in Conn \ {c} : pc'[d] = pc[d] /\ pid'[d] = pid[d] /\ shown'[d] = shown[d]
    BY DEF Exit, TypeOK
  <1>2. mail' \in [Pid -> Seq(Message)]
        /\ \A p \in Pid : mail'[p] = IF c \in members[p] THEN Append(mail[p], Msg("DOWN", c))
                                                         ELSE mail[p]
    BY MsgIsMessage, AppendElems DEF Exit, TypeOK
  <1>3. \A p \in Pid : /\ Mails(p) \subseteq Mails(p)'
                       /\ Mails(p)' \subseteq Mails(p) \cup {Msg("DOWN", c)}
                       /\ c \in members[p] => Msg("DOWN", c) \in Mails(p)'
                       /\ members[p] = {} => mail'[p] = mail[p]
    <2> SUFFICES ASSUME NEW p \in Pid
                 PROVE  /\ Mails(p) \subseteq Mails(p)'
                        /\ Mails(p)' \subseteq Mails(p) \cup {Msg("DOWN", c)}
                        /\ c \in members[p] => Msg("DOWN", c) \in Mails(p)'
                        /\ members[p] = {} => mail'[p] = mail[p]
      OBVIOUS
    <2>1. CASE c \in members[p]
      <3>1. Mails(p)' = Mails(p) \cup {Msg("DOWN", c)}
        BY <1>2, <2>1, MsgIsMessage, AppendElems DEF Mails, TypeOK
      <3> QED BY <2>1, <3>1
    <2>2. CASE c \notin members[p]
      BY <1>2, <2>2 DEF Mails
    <2> QED BY <2>1, <2>2
  <1>4. \A d \in Conn \ {c} : /\ Msg("DOWN", d) # Msg("DOWN", c)
                              /\ Msg("leave", d) # Msg("DOWN", c)
                              /\ Msg("join", d) # Msg("DOWN", c)
    BY DEF Msg
  <1>5. TypeOK'
    <2>1. 0 \in Count
      BY FS_CardinalityType DEF Count
    <2>2. pc' \in [Conn -> Places] /\ pid' \in [Conn -> Pid \cup {NoPid}]
          /\ shown' \in [Conn -> Count]
      BY <2>1 DEF Exit, TypeOK, Places
    <2> QED BY <1>1, <1>2, <1>3, <2>2 DEF TypeOK
  <1>6. NotCalledYet'
    BY <1>1, <1>3 DEF NotCalledYet, Unheard, Msg
  <1>7. HoldsProcess'
    BY <1>1 DEF HoldsProcess
  <1>8. NotLeaving'
    BY <1>1, <1>3, <1>4 DEF NotLeaving, Staying
  <1>9. JoinIsWithCallee'
    BY <1>1, <1>3, <1>4 DEF JoinIsWithCallee
  <1>10. JoinedIsCounted' /\ CountIsRight'
    BY <1>1 DEF JoinedIsCounted, CountIsRight
  <1>11. GhostsAreDropped'
    <2> SUFFICES ASSUME NEW p \in Pid, NEW d \in members'[p], pc'[d] = "gone"
                 PROVE  \E m \in Mails(p)' : m.who = d /\ m.tag \in {"leave", "DOWN"}
      BY DEF GhostsAreDropped
    <2>1. CASE d = c
      BY <1>1, <1>3, <2>1 DEF Msg
    <2>2. CASE d # c
      BY <1>1, <1>3, <2>2 DEF GhostsAreDropped, TypeOK
    <2> QED BY <2>1, <2>2
  <1>12. EmptyIsTimed'
    BY <1>1, <1>3 DEF EmptyIsTimed, TypeOK
  <1> QED BY <1>5, <1>6, <1>7, <1>8, <1>9, <1>10, <1>11, <1>12

\* A leave goes to the live process, if there is one.
LEMMA TerminateStep ==
    ASSUME IInv, NEW c \in Conn, Terminate(c)
    PROVE  IInv'
  <1> USE DEF IInv
  <1>1. /\ UNCHANGED <<reg, members, idle, pid, shown>>
        /\ reg \in Pid /\ c \in members[reg] /\ pc[c] = "in" /\ pc'[c] = "closing"
        /\ \A d \in Conn \ {c} : pc'[d] = pc[d]
    BY DEF Terminate, TypeOK, JoinedIsCounted
  <1>2. /\ mail' \in [Pid -> Seq(Message)]
        /\ mail'[reg] = Append(mail[reg], Msg("leave", c))
        /\ \A p \in Pid \ {reg} : mail'[p] = mail[p]
    BY <1>1, MsgIsMessage, AppendElems DEF Terminate, TypeOK
  <1>3. /\ Mails(reg)' = Mails(reg) \cup {Msg("leave", c)}
        /\ \A p \in Pid \ {reg} : Mails(p)' = Mails(p)
    BY <1>1, <1>2, MsgIsMessage, AppendElems DEF Mails, TypeOK
  <1>4. \A d \in Conn \ {c} : /\ Msg("DOWN", d) # Msg("leave", c)
                              /\ Msg("leave", d) # Msg("leave", c)
                              /\ Msg("join", d) # Msg("leave", c)
    BY DEF Msg
  <1>5. TypeOK'
    <2>1. pc' \in [Conn -> Places]
      BY DEF Terminate, TypeOK, Places
    <2> QED BY <1>1, <1>2, <2>1 DEF TypeOK
  <1>6. NotCalledYet' /\ HoldsProcess'
    BY <1>1, <1>3 DEF NotCalledYet, HoldsProcess, Unheard, Msg
  <1>7. NotLeaving'
    BY <1>1, <1>3, <1>4 DEF NotLeaving, Staying
  <1>8. JoinIsWithCallee'
    BY <1>1, <1>3, <1>4 DEF JoinIsWithCallee
  <1>9. JoinedIsCounted' /\ CountIsRight'
    BY <1>1 DEF JoinedIsCounted, CountIsRight
  <1>10. GhostsAreDropped' /\ EmptyIsTimed'
    BY <1>1, <1>3 DEF GhostsAreDropped, EmptyIsTimed, TypeOK
  <1> QED BY <1>5, <1>6, <1>7, <1>8, <1>9, <1>10

\* What a message at the head of the mailbox is, and what is left without it.
LEMMA ReceivesHead ==
    ASSUME TypeOK, NEW p \in Pid, NEW tag \in {"join", "leave", "DOWN"}, Receives(p, tag)
    PROVE  /\ Head(mail[p]).who \in Conn /\ Tail(mail[p]) \in Seq(Message)
           /\ Mails(p) = Elems(Tail(mail[p])) \cup {Msg(tag, Head(mail[p]).who)}
           /\ p = reg
  <1>1. mail[p] \in Seq(Message) /\ mail[p] # <<>> /\ Head(mail[p]).tag = tag /\ p = reg
    BY DEF TypeOK, Receives
  <1>2. /\ Head(mail[p]) \in Message /\ Tail(mail[p]) \in Seq(Message)
        /\ Mails(p) = Elems(Tail(mail[p])) \cup {Head(mail[p])}
    BY <1>1, TailElems DEF Mails
  <1>3. Head(mail[p]).who \in Conn /\ Head(mail[p]) = Msg(tag, Head(mail[p]).who)
    BY <1>1, <1>2 DEF Message, Msg, IdleCheck
  <1> QED BY <1>1, <1>2, <1>3

\* The caller is a member and monitored when its call is answered.
LEMMA HandleJoinStep ==
    ASSUME IInv, NEW p \in Pid, HandleJoin(p)
    PROVE  IInv'
  <1> USE DEF IInv
  <1> DEFINE c == Head(mail[p]).who
             rest == Tail(mail[p])
  <1>1. /\ c \in Conn /\ rest \in Seq(Message) /\ p = reg
        /\ Mails(p) = Elems(rest) \cup {Msg("join", c)}
    BY ReceivesHead DEF HandleJoin
  <1>2. /\ members' = [members EXCEPT ![p] = @ \cup {c}]
        /\ shown' = Heard(Cardinality(members[p] \cup {c}))
        /\ pc' = [pc EXCEPT ![c] = IF @ = "calling" THEN "in" ELSE @]
        /\ mail' = [mail EXCEPT ![p] = IF pc[c] = "gone" THEN Append(rest, Msg("DOWN", c))
                                                         ELSE rest]
        /\ idle' = [idle EXCEPT ![p] = FALSE]
        /\ reg' = reg /\ pid' = pid
    BY DEF HandleJoin
  <1> HIDE DEF c, rest
  <1>3. /\ members'[p] = members[p] \cup {c}
        /\ \A q \in Pid \ {p} : members'[q] = members[q] /\ mail'[q] = mail[q]
        /\ members' \in [Pid -> SUBSET Conn]
    BY <1>1, <1>2 DEF TypeOK
  <1>4. /\ pc'[c] = (IF pc[c] = "calling" THEN "in" ELSE pc[c])
        /\ \A d \in Conn \ {c} : pc'[d] = pc[d]
        /\ pc' \in [Conn -> Places]
    BY <1>1, <1>2 DEF TypeOK, Places
  <1>5. /\ mail' \in [Pid -> Seq(Message)]
        /\ mail'[p] = IF pc[c] = "gone" THEN Append(rest, Msg("DOWN", c)) ELSE rest
    BY <1>1, <1>2, MsgIsMessage, AppendElems DEF TypeOK
  <1>6. /\ Mails(p)' = IF pc[c] = "gone" THEN Elems(rest) \cup {Msg("DOWN", c)} ELSE Elems(rest)
        /\ \A q \in Pid \ {p} : Mails(q)' = Mails(q)
    BY <1>1, <1>3, <1>5, MsgIsMessage, AppendElems DEF Mails
  <1>7. /\ Cardinality(members[p] \cup {c}) \in Count
        /\ shown' \in [Conn -> Count]
        /\ \A d \in Conn : pc[d] # "gone" => shown'[d] = Cardinality(members'[p])
    BY <1>1, <1>2, <1>3, MembersCount, HeardCount DEF TypeOK
  <1>8. pc[c] \notin {"subscribed", "found"}
    BY <1>1 DEF NotCalledYet, Unheard, Msg
  <1>9. TypeOK'
    <2>1. idle' \in [Pid -> BOOLEAN] /\ \A q \in Pid \ {p} : idle'[q] = idle[q]
      BY <1>2 DEF TypeOK
    <2> QED BY <1>1, <1>2, <1>3, <1>4, <1>5, <1>7, <2>1 DEF TypeOK
  <1>10. NotCalledYet' /\ HoldsProcess'
    BY <1>1, <1>2, <1>3, <1>4, <1>6, <1>8 DEF NotCalledYet, HoldsProcess, Unheard, Msg
  <1>11. NotLeaving'
    BY <1>1, <1>4, <1>6 DEF NotLeaving, Staying, Msg
  <1>12. JoinIsWithCallee'
    BY <1>1, <1>2, <1>4, <1>6 DEF JoinIsWithCallee, Msg
  <1>13. JoinedIsCounted'
    BY <1>1, <1>2, <1>3, <1>4 DEF JoinedIsCounted, JoinIsWithCallee, TypeOK
  <1>14. GhostsAreDropped'
    <2> SUFFICES ASSUME NEW q \in Pid, NEW d \in members'[q], pc'[d] = "gone"
                 PROVE  \E m \in Mails(q)' : m.who = d /\ m.tag \in {"leave", "DOWN"}
      BY DEF GhostsAreDropped
    <2>1. d \in Conn
      BY <1>3
    <2>2. CASE q = p /\ d = c
      <3>1. Msg("DOWN", c) \in Mails(p)'
        BY <1>1, <1>4, <1>6, <2>2
      <3>2. Msg("DOWN", c).who = c /\ Msg("DOWN", c).tag = "DOWN"
        BY DEF Msg
      <3> QED BY <2>2, <3>1, <3>2
    <2>3. CASE ~(q = p /\ d = c)
      <3>1. d \in members[q] /\ pc[d] = "gone"
        BY <1>3, <1>4, <2>1, <2>3
      <3>2. PICK m \in Mails(q) : m.who = d /\ m.tag \in {"leave", "DOWN"}
        BY <3>1 DEF GhostsAreDropped
      <3>3. m # Msg("join", c)
        BY <3>2 DEF Msg
      <3> QED BY <1>1, <1>6, <3>2, <3>3
    <2> QED BY <2>2, <2>3
  <1>15. CountIsRight'
    BY <1>1, <1>2, <1>4, <1>7 DEF CountIsRight
  <1>16. EmptyIsTimed'
    BY <1>1, <1>2, <1>3 DEF EmptyIsTimed
  <1> QED BY <1>9, <1>10, <1>11, <1>12, <1>13, <1>14, <1>15, <1>16

\* Who leaves or is DOWN is counted no more, and the others are told.
LEMMA DropStep ==
    ASSUME IInv, NEW p \in Pid, NEW tag \in {"leave", "DOWN"}, Drop(p, tag)
    PROVE  IInv'
  <1> USE DEF IInv
  <1> DEFINE c == Head(mail[p]).who
             rest == Tail(mail[p])
  <1>1. /\ c \in Conn /\ rest \in Seq(Message) /\ p = reg
        /\ Mails(p) = Elems(rest) \cup {Msg(tag, c)}
    BY ReceivesHead DEF Drop
  <1>2. /\ members' = [members EXCEPT ![p] = @ \ {c}]
        /\ mail' = [mail EXCEPT ![p] = IF c \in members[p] THEN Flush(rest, c) ELSE rest]
        /\ idle' = [idle EXCEPT ![p] = @ \/ members[p] = {c}]
        /\ shown' = IF c \in members[p] THEN Heard(Cardinality(members[p] \ {c})) ELSE shown
        /\ reg' = reg /\ pid' = pid /\ pc' = pc
    BY DEF Drop, Emptied
  <1> HIDE DEF c, rest
  <1>3. /\ members'[p] = members[p] \ {c}
        /\ \A q \in Pid \ {p} : members'[q] = members[q] /\ mail'[q] = mail[q]
        /\ members' \in [Pid -> SUBSET Conn]
    BY <1>1, <1>2 DEF TypeOK
  <1>4. /\ mail' \in [Pid -> Seq(Message)]
        /\ mail'[p] = IF c \in members[p] THEN Flush(rest, c) ELSE rest
    BY <1>1, <1>2, FlushElems DEF TypeOK
  <1>5. /\ Mails(p)' \subseteq Mails(p)
        /\ Mails(p) \subseteq Mails(p)' \cup {Msg("DOWN", c), Msg(tag, c)}
        /\ \A q \in Pid \ {p} : Mails(q)' = Mails(q)
    <2>1. /\ Elems(mail'[p]) \subseteq Elems(rest)
          /\ Elems(rest) \subseteq Elems(mail'[p]) \cup {Msg("DOWN", c)}
      BY <1>1, <1>4, FlushElems
    <2>2. Mails(p)' = Elems(mail'[p]) /\ \A q \in Pid \ {p} : Mails(q)' = Mails(q)
      BY <1>3 DEF Mails
    <2> QED BY <1>1, <2>1, <2>2
  <1>6. pc[c] \notin Staying
    BY <1>1 DEF NotLeaving
  <1>7. TypeOK'
    <2>1. idle' \in [Pid -> BOOLEAN] /\ \A q \in Pid \ {p} : idle'[q] = idle[q]
      BY <1>2 DEF TypeOK
    <2>2. shown' \in [Conn -> Count]
      BY <1>1, <1>2, MembersCount, HeardCount DEF TypeOK
    <2> QED BY <1>1, <1>2, <1>3, <1>4, <2>1, <2>2 DEF TypeOK
  <1>8. NotCalledYet' /\ HoldsProcess' /\ NotLeaving' /\ JoinIsWithCallee'
    <2>1. \A q \in Pid : Mails(q)' \subseteq Mails(q) /\ members'[q] \subseteq members[q]
      BY <1>3, <1>5
    <2> QED BY <1>2, <2>1 DEF NotCalledYet, HoldsProcess, Unheard, NotLeaving, JoinIsWithCallee
  <1>9. JoinedIsCounted'
    BY <1>1, <1>2, <1>3, <1>6 DEF JoinedIsCounted, Staying
  <1>10. GhostsAreDropped'
    <2> SUFFICES ASSUME NEW q \in Pid, NEW d \in members'[q], pc'[d] = "gone"
                 PROVE  \E m \in Mails(q)' : m.who = d /\ m.tag \in {"leave", "DOWN"}
      BY DEF GhostsAreDropped
    <2>1. d \in members[q] /\ pc[d] = "gone" /\ (q = p => d # c)
      BY <1>2, <1>3
    <2>2. PICK m \in Mails(q) : m.who = d /\ m.tag \in {"leave", "DOWN"}
      BY <2>1 DEF GhostsAreDropped
    <2>3. q = p => m # Msg("DOWN", c) /\ m # Msg(tag, c)
      BY <2>1, <2>2 DEF Msg
    <2> QED BY <1>5, <2>2, <2>3
  <1>11. CountIsRight'
    <2> SUFFICES ASSUME NEW d \in Conn, pc'[d] = "in"
                 PROVE  shown'[d] = Cardinality(members[p] \ {c})
      BY <1>1, <1>2, <1>3 DEF CountIsRight
    <2>1. CASE c \in members[p]
      <3>1. Cardinality(members[p] \ {c}) \in Count
        BY <1>1, MembersCount DEF TypeOK
      <3> QED BY <1>2, <2>1, <3>1, HeardCount
    <2>2. CASE c \notin members[p]
      <3>1. members[p] \ {c} = members[p] /\ shown' = shown
        BY <1>2, <2>2
      <3> QED BY <1>1, <1>2, <3>1 DEF CountIsRight
    <2> QED BY <2>1, <2>2
  <1>12. EmptyIsTimed'
    <2> SUFFICES ASSUME members'[p] = {}
                 PROVE  idle'[p] \/ IdleCheck \in Mails(p)'
      BY <1>1, <1>2 DEF EmptyIsTimed
    <2>1. CASE members[p] = {c}
      BY <1>1, <1>2, <2>1 DEF TypeOK
    <2>2. CASE members[p] = {}
      <3>1. idle[p] => idle'[p]
        BY <1>2 DEF TypeOK
      <3>2. IdleCheck # Msg("DOWN", c) /\ IdleCheck # Msg(tag, c)
        BY DEF IdleCheck, Msg
      <3>3. idle[p] \/ IdleCheck \in Mails(p)
        BY <1>1, <2>2 DEF EmptyIsTimed, TypeOK
      <3> QED BY <1>5, <3>1, <3>2, <3>3
    <2> QED BY <1>3, <2>1, <2>2
  <1> QED BY <1>7, <1>8, <1>9, <1>10, <1>11, <1>12

\* A timer that goes off becomes the check in the mailbox.
LEMMA IdleTimeoutStep ==
    ASSUME IInv, NEW p \in Pid, IdleTimeout(p)
    PROVE  IInv'
  <1> USE DEF IInv
  <1>1. /\ UNCHANGED <<reg, members, pc, pid, shown>>
        /\ p = reg
        /\ idle' \in [Pid -> BOOLEAN] /\ \A q \in Pid \ {p} : idle'[q] = idle[q]
    BY DEF IdleTimeout, TypeOK
  <1>2. /\ mail' \in [Pid -> Seq(Message)]
        /\ mail'[p] = Append(mail[p], IdleCheck)
        /\ \A q \in Pid \ {p} : mail'[q] = mail[q]
    BY AppendElems DEF IdleTimeout, TypeOK, Message
  <1>3. /\ Mails(p)' = Mails(p) \cup {IdleCheck}
        /\ \A q \in Pid \ {p} : Mails(q)' = Mails(q)
    BY <1>2, AppendElems DEF Mails, TypeOK, Message
  <1>4. \A c \in Conn : /\ IdleCheck # Msg("join", c) /\ IdleCheck # Msg("leave", c)
                        /\ IdleCheck # Msg("DOWN", c) /\ IdleCheck.who # c
    BY DEF IdleCheck, Msg
  <1>5. TypeOK'
    BY <1>1, <1>2 DEF TypeOK
  <1>6. NotCalledYet' /\ HoldsProcess' /\ NotLeaving' /\ JoinIsWithCallee'
    BY <1>1, <1>3, <1>4 DEF NotCalledYet, HoldsProcess, Unheard, NotLeaving, JoinIsWithCallee
  <1>7. JoinedIsCounted' /\ CountIsRight'
    BY <1>1 DEF JoinedIsCounted, CountIsRight
  <1>8. GhostsAreDropped' /\ EmptyIsTimed'
    BY <1>1, <1>3 DEF GhostsAreDropped, EmptyIsTimed
  <1> QED BY <1>5, <1>6, <1>7, <1>8

\* The check stops a process nobody is counted in, or does nothing.
LEMMA HandleIdleCheckStep ==
    ASSUME IInv, NEW p \in Pid, HandleIdleCheck(p)
    PROVE  IInv'
  <1> USE DEF IInv
  <1>1. /\ p = reg /\ Tail(mail[p]) \in Seq(Message) /\ Head(mail[p]).tag = "idle_check"
        /\ Mails(p) = Elems(Tail(mail[p])) \cup {Head(mail[p])}
    BY TailElems DEF HandleIdleCheck, Receives, Mails, TypeOK
  <1>2. CASE members[p] = {}
    <2>1. /\ reg' = NoPid /\ UNCHANGED <<pc, pid, shown>>
          /\ members' = [members EXCEPT ![p] = {}] /\ idle' = [idle EXCEPT ![p] = FALSE]
          /\ mail' = [mail EXCEPT ![p] = <<>>]
      BY <1>2 DEF HandleIdleCheck, Stop
    <2>2. /\ members' = members /\ \A q \in Pid : mail'[q] = <<>> /\ ~idle'[q]
          /\ mail' \in [Pid -> Seq(Message)] /\ \A q \in Pid : members[q] = {}
      BY <1>1, <1>2, <2>1 DEF TypeOK
    <2>3. \A q \in Pid : Mails(q)' = {}
      BY <2>2, EmptyElems DEF Mails
    <2>4. TypeOK'
      BY <2>1, <2>2 DEF TypeOK
    <2>5. NotCalledYet' /\ HoldsProcess' /\ NotLeaving' /\ JoinIsWithCallee'
      BY <2>1, <2>2, <2>3
         DEF NotCalledYet, HoldsProcess, Unheard, NotLeaving, JoinIsWithCallee
    <2>6. \A c \in Conn : pc[c] # "in"
      BY <1>1, <1>2 DEF JoinedIsCounted
    <2>7. JoinedIsCounted' /\ CountIsRight' /\ GhostsAreDropped' /\ EmptyIsTimed'
      BY <2>1, <2>2, <2>6 DEF JoinedIsCounted, CountIsRight, GhostsAreDropped, EmptyIsTimed
    <2> QED BY <2>4, <2>5, <2>7
  <1>3. CASE members[p] # {}
    <2>1. /\ UNCHANGED <<reg, members, idle, pc, pid, shown>>
          /\ mail' = [mail EXCEPT ![p] = Tail(@)]
      BY <1>3 DEF HandleIdleCheck
    <2>2. /\ mail' \in [Pid -> Seq(Message)] /\ mail'[p] = Tail(mail[p])
          /\ \A q \in Pid \ {p} : mail'[q] = mail[q]
      BY <1>1, <2>1 DEF TypeOK
    <2>3. \A q \in Pid \ {p} : Mails(q)' = Mails(q)
      BY <2>2 DEF Mails
    <2>4. Mails(p) = Mails(p)' \cup {Head(mail[p])}
      BY <1>1, <2>2 DEF Mails
    <2>5. TypeOK'
      BY <1>1, <2>1, <2>2 DEF TypeOK
    <2>6. NotCalledYet' /\ HoldsProcess' /\ NotLeaving' /\ JoinIsWithCallee'
      BY <2>1, <2>3, <2>4 DEF NotCalledYet, HoldsProcess, Unheard, NotLeaving, JoinIsWithCallee
    <2>7. GhostsAreDropped'
      <3> SUFFICES ASSUME NEW q \in Pid, NEW d \in members[q], pc[d] = "gone"
                   PROVE  \E m \in Mails(q)' : m.who = d /\ m.tag \in {"leave", "DOWN"}
        BY <2>1 DEF GhostsAreDropped
      <3>1. PICK m \in Mails(q) : m.who = d /\ m.tag \in {"leave", "DOWN"}
        BY DEF GhostsAreDropped
      <3>2. m # Head(mail[p])
        BY <1>1, <3>1
      <3> QED BY <2>3, <2>4, <3>1, <3>2
    <2>8. JoinedIsCounted' /\ CountIsRight' /\ EmptyIsTimed'
      BY <1>1, <1>3, <2>1 DEF JoinedIsCounted, CountIsRight, EmptyIsTimed
    <2> QED BY <2>5, <2>6, <2>7, <2>8
  <1> QED BY <1>2, <1>3

\* Every step keeps the invariant.
LEMMA NextIInv == IInv /\ [Next]_vars => IInv'
  <1> SUFFICES ASSUME IInv, [Next]_vars PROVE IInv'
    OBVIOUS
  <1>1. ASSUME NEW c \in Conn, CallFails(c) \/ Terminated(c) \/ Killed(c) PROVE IInv'
    BY <1>1, ExitStep DEF CallFails, Terminated, Killed
  <1>2. ASSUME NEW p \in Pid, Handle(p) PROVE IInv'
    BY <1>2, HandleJoinStep, DropStep, HandleIdleCheckStep DEF Handle
  <1>3. ASSUME UNCHANGED vars PROVE IInv'
    <2>1. \A p \in Pid : Mails(p)' = Mails(p)
      BY <1>3 DEF vars, Mails
    <2>2. TypeOK' /\ NotCalledYet' /\ HoldsProcess' /\ NotLeaving' /\ JoinIsWithCallee'
      BY <1>3, <2>1 DEF vars, IInv, TypeOK, NotCalledYet, HoldsProcess, Unheard, NotLeaving,
                        JoinIsWithCallee
    <2>3. JoinedIsCounted' /\ GhostsAreDropped' /\ CountIsRight' /\ EmptyIsTimed'
      BY <1>3, <2>1 DEF vars, IInv, JoinedIsCounted, GhostsAreDropped, CountIsRight,
                        EmptyIsTimed, TypeOK
    <2> QED BY <2>2, <2>3 DEF IInv
  <1> QED BY <1>1, <1>2, <1>3, SubscribeStep, EnsureStartedStep, CallStep, TerminateStep,
             IdleTimeoutStep DEF Next

\* The invariant holds throughout.
LEMMA Invariant == Spec => []IInv
  BY InitIInv, NextIInv, PTL DEF Spec

-----------------------------------------------------------------------------
\* Domains, and that only the registered process has members, mail or timer.
THEOREM TypeCorrect == Spec => []TypeOK
  BY Invariant, PTL DEF IInv

\* A connection whose join was answered is counted by the live process.
THEOREM JoinedIsCountedHolds == Spec => []JoinedIsCounted
  BY Invariant, PTL DEF IInv

\* Whoever is counted and gone is about to be dropped.
THEOREM GhostsAreDroppedHolds == Spec => []GhostsAreDropped
  BY Invariant, PTL DEF IInv

\* The online count a joined connection was last given is the right one.
THEOREM CountIsRightHolds == Spec => []CountIsRight
  BY Invariant, PTL DEF IInv

\* The process of a room without members has a check to come.
THEOREM EmptyIsTimedHolds == Spec => []EmptyIsTimed
  BY Invariant, PTL DEF IInv

-----------------------------------------------------------------------------
(* The processes of a room implement RoomRoster.                           *)

\* A step that keeps what the roster is made of is invisible there.
LEMMA SameRoster ==
    ASSUME UNCHANGED <<Online, pc, shown>>
    PROVE  UNCHANGED Roster!rvars
  BY DEF Roster!rvars, Joined, Listening

\* A broadcast is an announcement to all who listen.
LEMMA HeardIsAnnounced ==
    ASSUME NEW n, shown' = Heard(n)
    PROVE  shown' = [d \in Conn |-> IF d \in Listening THEN n ELSE 0]
  <1>1. \A d \in Conn : d \in Listening <=> pc[d] # "gone"
    BY DEF Listening
  <1> QED BY <1>1 DEF Heard

\* The two names of one operator.
LEMMA SameCardinality == \A S : Roster!Cardinality(S) = Cardinality(S)
  BY DEF Roster!Cardinality, Cardinality

\* The end of a connection ends its listening, whatever it was doing.
LEMMA ExitIsEnd ==
    ASSUME IInv, NEW c \in Conn, pc[c] # "gone", Exit(c)
    PROVE  Roster!End(c)
  <1>1. /\ pc' = [pc EXCEPT ![c] = "gone"] /\ pc \in [Conn -> Places]
        /\ shown' = [shown EXCEPT ![c] = 0] /\ UNCHANGED <<reg, members>>
    BY DEF Exit, IInv, TypeOK
  <1>2. c \in Listening /\ Listening' = Listening \ {c}
    BY <1>1 DEF Listening
  <1>3. Joined' = Joined \ {c}
    BY <1>1 DEF Joined
  <1>4. Online' = Online
    BY <1>1 DEF Online
  <1> QED BY <1>1, <1>2, <1>3, <1>4 DEF Roster!End

\* An answered join enters the roster; the caller has joined if it still waits.
LEMMA HandleJoinIsEnter ==
    ASSUME IInv, NEW p \in Pid, HandleJoin(p)
    PROVE  \E c \in Conn : Roster!Enter(c)
  <1> DEFINE c == Head(mail[p]).who
  <1>1. c \in Conn /\ p = reg /\ reg # NoPid
    BY ReceivesHead DEF HandleJoin, Receives, IInv
  <1>2. /\ members' = [members EXCEPT ![p] = @ \cup {c}] /\ reg' = reg
        /\ members \in [Pid -> SUBSET Conn]
    BY DEF HandleJoin, IInv, TypeOK
  <1>3. /\ pc' = [pc EXCEPT ![c] = IF @ = "calling" THEN "in" ELSE @]
        /\ shown' = Heard(Cardinality(members[p] \cup {c})) /\ pc \in [Conn -> Places]
    BY DEF HandleJoin, IInv, TypeOK
  <1> HIDE DEF c
  <1>4. Online = members[p] /\ Online' = Online \cup {c}
    BY <1>1, <1>2 DEF Online
  <1>5. Listening' = Listening
    BY <1>1, <1>3 DEF Listening, Places
  <1>6. Joined' = Joined \/ (c \in Listening /\ Joined' = Joined \cup {c})
    <2>1. CASE pc[c] = "calling"
      BY <1>1, <1>3, <2>1 DEF Joined, Listening
    <2>2. CASE pc[c] # "calling"
      BY <1>1, <1>3, <2>2 DEF Joined
    <2> QED BY <2>1, <2>2
  <1>7. Roster!Announce(Online')
    <2>1. shown' = Heard(Cardinality(Online'))
      BY <1>3, <1>4
    <2> QED BY <2>1, HeardIsAnnounced, SameCardinality DEF Roster!Announce
  <1> QED BY <1>1, <1>4, <1>5, <1>6, <1>7 DEF Roster!Enter

\* Dropping a member is a step of the roster as whoever has said goodbye, or
\* is dead, has not joined; dropping one that is no member is invisible.
LEMMA DropIsDrop ==
    ASSUME IInv, NEW p \in Pid, NEW tag \in {"leave", "DOWN"}, Drop(p, tag)
    PROVE  (\E c \in Conn : Roster!Drop(c)) \/ UNCHANGED Roster!rvars
  <1> DEFINE c == Head(mail[p]).who
  <1>1. c \in Conn /\ p = reg /\ reg # NoPid /\ Msg(tag, c) \in Mails(p)
    BY ReceivesHead DEF Drop, Receives, IInv
  <1>2. /\ members' = [members EXCEPT ![p] = @ \ {c}] /\ UNCHANGED <<reg, pc>>
        /\ members \in [Pid -> SUBSET Conn]
    BY DEF Drop, IInv, TypeOK
  <1>3. shown' = IF c \in members[p] THEN Heard(Cardinality(members[p] \ {c})) ELSE shown
    BY DEF Drop
  <1> HIDE DEF c
  <1>4. Online = members[p] /\ Online' = Online \ {c}
    BY <1>1, <1>2 DEF Online
  <1>5. CASE c \in members[p]
    <2>1. c \notin Joined
      BY <1>1 DEF Joined, IInv, NotLeaving, Staying
    <2>2. Roster!Announce(Online')
      <3>1. shown' = Heard(Cardinality(Online'))
        BY <1>3, <1>4, <1>5
      <3> QED BY <3>1, HeardIsAnnounced, SameCardinality DEF Roster!Announce
    <2>3. UNCHANGED <<Joined, Listening>>
      BY <1>2 DEF Joined, Listening
    <2>4. Roster!Drop(c)
      BY <1>4, <1>5, <2>1, <2>2, <2>3 DEF Roster!Drop
    <2> QED BY <1>1, <2>4
  <1>6. CASE c \notin members[p]
    <2>1. Online' = Online /\ shown' = shown
      BY <1>3, <1>4, <1>6
    <2> QED BY <1>2, <2>1, SameRoster
  <1> QED BY <1>5, <1>6

\* Every step of the code is a step of RoomRoster or invisible there.
LEMMA RosterStep == IInv /\ [Next]_vars => [Roster!Next]_Roster!rvars
  <1> SUFFICES ASSUME IInv, [Next]_vars PROVE Roster!Next \/ UNCHANGED Roster!rvars
    OBVIOUS
  <1>t. /\ pc \in [Conn -> Places] /\ members \in [Pid -> SUBSET Conn]
        /\ shown \in [Conn -> Count] /\ reg \in Pid \cup {NoPid}
        /\ \A p \in Pid : p # reg => members[p] = {}
    BY DEF IInv, TypeOK
  <1>1. ASSUME NEW c \in Conn, Subscribe(c) PROVE Roster!Listen(c)
    <2>1. /\ pc[c] = "gone" /\ pc' = [pc EXCEPT ![c] = "subscribed"] /\ Unheard(c)
          /\ UNCHANGED <<reg, members, shown>>
      BY <1>1 DEF Subscribe
    <2>2. c \notin Listening \cup Online /\ Online' = Online
      BY <1>t, <2>1 DEF Listening, Online, Unheard
    <2>3. Listening' = Listening \cup {c} /\ Joined' = Joined
      BY <1>t, <2>1 DEF Listening, Joined
    <2> QED BY <2>1, <2>2, <2>3 DEF Roster!Listen
  <1>2. ASSUME NEW c \in Conn, EnsureStarted(c) PROVE UNCHANGED Roster!rvars
    <2>1. PICK p \in Pid : (reg = NoPid \/ p = reg) /\ reg' = p
      BY <1>2 DEF EnsureStarted
    <2>2. Online' = Online
      <3>1. members' = members
        BY <1>2 DEF EnsureStarted
      <3> QED BY <1>t, <2>1, <3>1 DEF Online
    <2>3. UNCHANGED <<Joined, Listening, shown>>
      <3>1. /\ pc[c] = "subscribed" /\ pc' = [pc EXCEPT ![c] = "found"]
            /\ shown' = shown
        BY <1>2 DEF EnsureStarted
      <3> QED BY <1>t, <3>1 DEF Joined, Listening
    <2> QED BY <2>2, <2>3 DEF Roster!rvars
  <1>3. ASSUME NEW c \in Conn, Call(c) PROVE UNCHANGED Roster!rvars
    <2>1. /\ pc[c] = "found" /\ pc' = [pc EXCEPT ![c] = "calling"]
          /\ UNCHANGED <<reg, members, shown>>
      BY <1>3 DEF Call
    <2>2. UNCHANGED <<Joined, Listening>>
      BY <1>t, <2>1 DEF Joined, Listening
    <2>3. Online' = Online
      BY <2>1 DEF Online
    <2> QED BY <2>1, <2>2, <2>3 DEF Roster!rvars
  <1>4. ASSUME NEW c \in Conn, CallFails(c) \/ Terminated(c) \/ Killed(c)
        PROVE  Roster!End(c)
    <2>1. Exit(c) /\ pc[c] # "gone"
      BY <1>4 DEF CallFails, Terminated, Killed
    <2> QED BY <2>1, ExitIsEnd
  <1>5. ASSUME NEW c \in Conn, Terminate(c) PROVE Roster!Goodbye(c)
    <2>1. /\ pc[c] = "in" /\ pc' = [pc EXCEPT ![c] = "closing"]
          /\ UNCHANGED <<reg, members, shown>>
      BY <1>5 DEF Terminate
    <2>2. c \in Joined /\ Joined' = Joined \ {c} /\ Listening' = Listening
      BY <1>t, <2>1 DEF Joined, Listening
    <2>3. Online' = Online
      BY <2>1 DEF Online
    <2> QED BY <2>1, <2>2, <2>3 DEF Roster!Goodbye
  <1>6. ASSUME NEW p \in Pid, IdleTimeout(p) PROVE UNCHANGED Roster!rvars
    <2>1. UNCHANGED <<Online, pc, shown>>
      BY <1>6 DEF IdleTimeout, Online
    <2> QED BY <2>1, SameRoster
  <1>7. ASSUME NEW p \in Pid, HandleIdleCheck(p) PROVE UNCHANGED Roster!rvars
    <2>1. p = reg
      BY <1>7 DEF HandleIdleCheck, Receives
    <2>2. UNCHANGED <<pc, shown>>
      BY <1>7 DEF HandleIdleCheck, Stop
    <2>3. CASE members[p] = {}
      <3>1. reg' = NoPid
        BY <1>7, <2>3 DEF HandleIdleCheck, Stop
      <3>2. Online = {} /\ Online' = {}
        BY <2>1, <2>3, <3>1 DEF Online
      <3> QED BY <2>2, <3>2, SameRoster
    <2>4. CASE members[p] # {}
      <3>1. UNCHANGED <<reg, members>>
        BY <1>7, <2>4 DEF HandleIdleCheck
      <3>2. Online' = Online
        BY <3>1 DEF Online
      <3> QED BY <2>2, <3>2, SameRoster
    <2> QED BY <2>3, <2>4
  <1>8. ASSUME UNCHANGED vars PROVE UNCHANGED Roster!rvars
    <2>1. UNCHANGED <<Online, pc, shown>>
      BY <1>8 DEF vars, Online
    <2> QED BY <2>1, SameRoster
  <1>9. ASSUME NEW p \in Pid, Handle(p) PROVE Roster!Next \/ UNCHANGED Roster!rvars
    BY <1>7, <1>9, HandleJoinIsEnter, DropIsDrop DEF Handle, Roster!Next
  <1> QED
    BY <1>1, <1>2, <1>3, <1>4, <1>5, <1>6, <1>8, <1>9 DEF Next, Roster!Next

\* The processes that serve a room one after the other implement RoomRoster:
\* one set of those online, announced with its size at every change, and nobody
\* who has joined taken out of it.
THEOREM RosterRefinement == Spec => RefinesRoster
  <1>1. Init => Roster!Init
    BY DEF Init, Roster!Init, Online, Joined, Listening
  <1> QED BY Invariant, <1>1, RosterStep, PTL DEF Spec, RefinesRoster, Roster!Spec

-----------------------------------------------------------------------------
(* What the roster alone guarantees, whichever processes implement it.      *)

\* In every behaviour of RoomRoster, whoever has joined is online and listens,
\* and was told the present size of the roster last.
RosterSound ==
  \A c \in Joined : c \in Online /\ c \in Listening /\ shown[c] = Cardinality(Online)

\* The abstract specification keeps it by itself: no step of it forgets to
\* announce, and none takes out who has joined.
THEOREM RosterIsSound == Roster!Spec => []RosterSound
  <1> DEFINE Typed == shown = [c \in Conn |-> shown[c]] /\ Joined \subseteq Conn
  <1>1. Roster!Init => Typed /\ RosterSound
    BY DEF Roster!Init, RosterSound
  <1>2. Typed /\ RosterSound /\ [Roster!Next]_Roster!rvars => Typed' /\ RosterSound'
    <2> SUFFICES ASSUME Typed, RosterSound, [Roster!Next]_Roster!rvars
                 PROVE  Typed' /\ RosterSound'
      OBVIOUS
    <2> HIDE DEF Online, Joined, Listening
    <2>1. ASSUME NEW c \in Conn, Roster!Listen(c) PROVE Typed' /\ RosterSound'
      BY <2>1 DEF Roster!Listen, RosterSound
    <2>2. ASSUME NEW c \in Conn, Roster!Enter(c) PROVE Typed' /\ RosterSound'
      <3>1. /\ Joined' \subseteq Joined \cup {c} /\ Joined \subseteq Joined'
            /\ Online' = Online \cup {c} /\ Listening' = Listening
            /\ c \in Joined' \ Joined => c \in Listening
        BY <2>2 DEF Roster!Enter
      <3>2. shown' = [d \in Conn |-> IF d \in Listening THEN Cardinality(Online') ELSE 0]
        BY <2>2, SameCardinality DEF Roster!Enter, Roster!Announce
      <3> QED BY <3>1, <3>2 DEF RosterSound
    <2>3. ASSUME NEW c \in Conn, Roster!Goodbye(c) PROVE Typed' /\ RosterSound'
      BY <2>3 DEF Roster!Goodbye, RosterSound
    <2>4. ASSUME NEW c \in Conn, Roster!End(c) PROVE Typed' /\ RosterSound'
      BY <2>4 DEF Roster!End, RosterSound
    <2>5. ASSUME NEW c \in Conn, Roster!Drop(c) PROVE Typed' /\ RosterSound'
      <3>1. /\ Joined' = Joined /\ Listening' = Listening
            /\ Online' = Online \ {c} /\ c \notin Joined
        BY <2>5 DEF Roster!Drop
      <3>2. shown' = [d \in Conn |-> IF d \in Listening THEN Cardinality(Online') ELSE 0]
        BY <2>5, SameCardinality DEF Roster!Drop, Roster!Announce
      <3> QED BY <3>1, <3>2 DEF RosterSound
    <2>6. CASE UNCHANGED Roster!rvars
      BY <2>6 DEF Roster!rvars, RosterSound
    <2> QED BY <2>1, <2>2, <2>3, <2>4, <2>5, <2>6 DEF Roster!Next
  <1> QED BY <1>1, <1>2, PTL DEF Roster!Spec

-----------------------------------------------------------------------------
(* Nobody waits in vain.  That a join returns is liveness and left to the   *)
(* model checker; that its return is always in somebody's hands is safety.  *)

\* Who waits in GenServer.call waits for a process that has stopped, which its
\* monitor will tell it, or for the live one, whose mailbox has its join.
CallersAreServed ==
  \A c \in Conn : pc[c] = "calling" =>
     pid[c] \in Pid /\ (pid[c] # reg \/ Msg("join", c) \in Mails(reg))

\* A mailbox that is left alone or gets one more message keeps those it has.
LEMMA MailStays ==
    ASSUME NEW s \in Seq(Message), NEW m \in Message, NEW t, t = s \/ t = Append(s, m)
    PROVE  Elems(s) \subseteq Elems(t)
  <1>1. Elems(Append(s, m)) = Elems(s) \cup {m}
    BY AppendElems, Zenon
  <1>2. CASE t = Append(s, m)
    <2>1. Elems(t) = Elems(s) \cup {m}
      BY <1>1, <1>2, Zenon
    <2> QED BY <2>1
  <1> QED BY <1>2

\* Every step leaves a caller's join where it is, answers it, or ends the
\* process it was sent to.
LEMMA CallersStep == IInv /\ CallersAreServed /\ [Next]_vars => CallersAreServed'
  <1> SUFFICES ASSUME IInv, CallersAreServed, [Next]_vars,
                      NEW c \in Conn, pc'[c] = "calling"
               PROVE  pid'[c] \in Pid /\ (pid'[c] # reg' \/ Msg("join", c) \in Mails(reg)')
    BY DEF CallersAreServed
  <1> DEFINE Served == pid'[c] \in Pid /\ (pid'[c] # reg' \/ Msg("join", c) \in Mails(reg)')
  <1>t. TypeOK
    BY DEF IInv
  \* A step that keeps the processes and takes no join out of a mailbox.
  <1>0. ASSUME pc[c] = "calling", pid'[c] = pid[c], reg' = reg,
               \A p \in Pid : Msg("join", c) \in Mails(p) => Msg("join", c) \in Mails(p)'
        PROVE  Served
    BY <1>0 DEF CallersAreServed, Mails
  <1>1. ASSUME NEW d \in Conn, Subscribe(d) PROVE Served
    <2>1. pc[c] = "calling" /\ UNCHANGED <<reg, mail, pid>>
      BY <1>1, <1>t DEF Subscribe, TypeOK
    <2> QED BY <1>0, <2>1 DEF Mails
  <1>2. ASSUME NEW d \in Conn, EnsureStarted(d) PROVE Served
    <2>1. PICK p \in Pid : /\ IF reg = NoPid THEN \A e \in Conn : pid[e] # p ELSE p = reg
                           /\ reg' = p /\ pid' = [pid EXCEPT ![d] = p]
      BY <1>2 DEF EnsureStarted
    <2>2. pc[c] = "calling" /\ pid'[c] = pid[c] /\ mail' = mail
      BY <1>2, <1>t, <2>1 DEF EnsureStarted, TypeOK
    <2>3. CASE reg = NoPid
      BY <2>1, <2>2, <2>3 DEF CallersAreServed
    <2>4. CASE reg # NoPid
      BY <1>0, <2>1, <2>2, <2>4 DEF Mails
    <2> QED BY <2>3, <2>4
  <1>3. ASSUME NEW d \in Conn, Call(d) PROVE Served
    <2>1. /\ reg \in Pid /\ pid[d] = reg
          /\ mail' = [mail EXCEPT ![reg] = Append(@, Msg("join", d))]
          /\ UNCHANGED <<reg, pid>>
      BY <1>3 DEF Call, IInv, HoldsProcess
    <2>2. Mails(reg)' = Mails(reg) \cup {Msg("join", d)}
      BY <1>t, <2>1, MsgIsMessage, AppendElems DEF TypeOK, Mails
    <2>3. CASE c = d
      BY <2>1, <2>2, <2>3
    <2>4. CASE c # d
      <3>1. pc[c] = "calling"
        BY <1>3, <1>t, <2>4 DEF Call, TypeOK
      <3> QED BY <2>1, <2>2, <3>1 DEF CallersAreServed
    <2> QED BY <2>3, <2>4
  <1>4. ASSUME NEW d \in Conn, Exit(d) PROVE Served
    <2>1. pc[c] = "calling" /\ pid'[c] = pid[c] /\ reg' = reg
      BY <1>4, <1>t DEF Exit, TypeOK
    <2>2. ASSUME NEW p \in Pid PROVE Mails(p) \subseteq Mails(p)'
      <3>1. mail'[p] = mail[p] \/ mail'[p] = Append(mail[p], Msg("DOWN", d))
        BY <1>4 DEF Exit
      <3>2. mail[p] \in Seq(Message) /\ Msg("DOWN", d) \in Message
        BY <1>t, MsgIsMessage DEF TypeOK
      <3> QED BY <3>1, <3>2, MailStays, Zenon DEF Mails
    <2> QED BY <1>0, <2>1, <2>2
  <1>5. ASSUME NEW d \in Conn, Terminate(d) PROVE Served
    <2>1. pc[c] = "calling" /\ pid'[c] = pid[c] /\ reg' = reg
      BY <1>5, <1>t DEF Terminate, TypeOK
    <2>2. ASSUME NEW p \in Pid PROVE Mails(p) \subseteq Mails(p)'
      <3>1. mail'[p] = mail[p] \/ mail'[p] = Append(mail[p], Msg("leave", d))
        BY <1>5 DEF Terminate
      <3>2. mail[p] \in Seq(Message) /\ Msg("leave", d) \in Message
        BY <1>t, MsgIsMessage DEF TypeOK
      <3> QED BY <3>1, <3>2, MailStays, Zenon DEF Mails
    <2> QED BY <1>0, <2>1, <2>2
  <1>6. ASSUME NEW p \in Pid, IdleTimeout(p) PROVE Served
    <2>1. pc[c] = "calling" /\ pid'[c] = pid[c] /\ reg' = reg
          /\ mail' = [mail EXCEPT ![p] = Append(@, IdleCheck)]
      BY <1>6 DEF IdleTimeout
    <2>2. ASSUME NEW q \in Pid PROVE Mails(q) \subseteq Mails(q)'
      <3>1. mail'[q] = mail[q] \/ mail'[q] = Append(mail[q], IdleCheck)
        BY <1>t, <2>1 DEF TypeOK
      <3>2. mail[q] \in Seq(Message) /\ IdleCheck \in Message
        BY <1>t DEF TypeOK, Message
      <3> QED BY <3>1, <3>2, MailStays, Zenon DEF Mails
    <2> QED BY <1>0, <2>1, <2>2
  \* What a handler does to the mailbox it takes a message from.
  <1>h. ASSUME NEW p \in Pid, NEW tag, Receives(p, tag)
        PROVE  /\ mail[p] \in Seq(Message) /\ mail[p] # <<>> /\ Head(mail[p]).tag = tag
               /\ Tail(mail[p]) \in Seq(Message)
               /\ Mails(p) = Elems(Tail(mail[p])) \cup {Head(mail[p])}
    BY <1>h, <1>t, TailElems DEF Receives, TypeOK, Mails
  <1>7. ASSUME NEW p \in Pid, HandleJoin(p) PROVE Served
    <2> DEFINE d == Head(mail[p]).who
    <2>1. Receives(p, "join")
      BY <1>7 DEF HandleJoin
    <2>2. Head(mail[p]) \in Message /\ Head(mail[p]).tag = "join"
      BY <1>h, <2>1, TailElems
    <2>3. d \in Conn /\ Head(mail[p]) = Msg("join", d)
      BY <2>2 DEF Message, IdleCheck, Msg
    <2>4. /\ pc' = [pc EXCEPT ![d] = IF @ = "calling" THEN "in" ELSE @]
          /\ mail' = [mail EXCEPT ![p] = IF pc[d] = "gone"
                                         THEN Append(Tail(@), Msg("DOWN", d)) ELSE Tail(@)]
          /\ UNCHANGED <<reg, pid>>
      BY <1>7 DEF HandleJoin
    <2>5. c # d /\ pc[c] = "calling"
      BY <1>t, <2>3, <2>4 DEF TypeOK
    <2>6. ASSUME NEW q \in Pid, Msg("join", c) \in Mails(q) PROVE Msg("join", c) \in Mails(q)'
      <3>1. CASE q = p
        <4>1. Msg("join", c) \in Elems(Tail(mail[p]))
          <5>1. Msg("join", c) # Msg("join", d)
            BY <2>5 DEF Msg
          <5> QED BY <1>h, <2>1, <2>3, <2>6, <3>1, <5>1
        <4>2. Elems(Tail(mail[p])) \subseteq Elems(mail'[p])
          <5>1. mail'[p] = Tail(mail[p]) \/ mail'[p] = Append(Tail(mail[p]), Msg("DOWN", d))
            BY <1>t, <2>4 DEF TypeOK
          <5>2. Tail(mail[p]) \in Seq(Message) /\ Msg("DOWN", d) \in Message
            BY <1>h, <2>1, <2>3, MsgIsMessage
          <5> QED BY <5>1, <5>2, MailStays, Zenon
        <4> QED BY <3>1, <4>1, <4>2 DEF Mails
      <3>2. CASE q # p
        BY <1>t, <2>4, <2>6, <3>2 DEF TypeOK, Mails
      <3> QED BY <3>1, <3>2
    <2> QED BY <1>0, <2>4, <2>5, <2>6
  <1>8. ASSUME NEW p \in Pid, NEW tag \in {"leave", "DOWN"}, Drop(p, tag) PROVE Served
    <2> DEFINE d == Head(mail[p]).who
    <2>1. Receives(p, tag)
      BY <1>8 DEF Drop
    <2>2. /\ mail' = [mail EXCEPT ![p] = IF d \in members[p] THEN Flush(Tail(@), d)
                                                             ELSE Tail(@)]
          /\ UNCHANGED <<reg, pc, pid>>
      BY <1>8 DEF Drop
    <2>3. ASSUME NEW q \in Pid, Msg("join", c) \in Mails(q) PROVE Msg("join", c) \in Mails(q)'
      <3>1. CASE q = p
        <4>1. Msg("join", c) \in Elems(Tail(mail[p]))
          <5>1. Msg("join", c) # Head(mail[p])
            BY <1>h, <2>1 DEF Msg
          <5> QED BY <1>h, <2>1, <2>3, <3>1, <5>1
        <4>2. Msg("join", c) \in Elems(Flush(Tail(mail[p]), d))
          <5>1. Msg("join", c) # Msg("DOWN", d)
            BY DEF Msg
          <5>2. Tail(mail[p]) \in Seq(Message)
            BY <1>h, <2>1
          <5>3. Elems(Tail(mail[p])) \subseteq
                   Elems(Flush(Tail(mail[p]), d)) \cup {Msg("DOWN", d)}
            BY <5>2, FlushElems, Zenon
          <5> QED BY <4>1, <5>1, <5>3
        <4>3. mail'[p] = Tail(mail[p]) \/ mail'[p] = Flush(Tail(mail[p]), d)
          BY <1>t, <2>2 DEF TypeOK
        <4> QED BY <3>1, <4>1, <4>2, <4>3 DEF Mails
      <3>2. CASE q # p
        BY <1>t, <2>2, <2>3, <3>2 DEF TypeOK, Mails
      <3> QED BY <3>1, <3>2
    <2> QED BY <1>0, <2>2, <2>3
  <1>9. ASSUME NEW p \in Pid, HandleIdleCheck(p) PROVE Served
    <2>1. Receives(p, "idle_check") /\ UNCHANGED <<pc, pid>>
      BY <1>9 DEF HandleIdleCheck, Stop
    <2>2. CASE members[p] = {}
      <3>1. reg' = NoPid
        BY <1>9, <2>2 DEF HandleIdleCheck, Stop
      <3> QED BY <2>1, <3>1 DEF CallersAreServed
    <2>3. CASE members[p] # {}
      <3>1. reg' = reg /\ mail' = [mail EXCEPT ![p] = Tail(@)]
        BY <1>9, <2>3 DEF HandleIdleCheck
      <3>2. ASSUME NEW q \in Pid, Msg("join", c) \in Mails(q)
            PROVE  Msg("join", c) \in Mails(q)'
        <4>1. CASE q = p
          <5>1. Msg("join", c) # Head(mail[p])
            BY <1>h, <2>1 DEF Msg
          <5> QED BY <1>h, <1>t, <2>1, <3>1, <3>2, <4>1, <5>1 DEF TypeOK, Mails
        <4>2. CASE q # p
          BY <1>t, <3>1, <3>2, <4>2 DEF TypeOK, Mails
        <4> QED BY <4>1, <4>2
      <3> QED BY <1>0, <2>1, <3>1, <3>2
    <2> QED BY <2>2, <2>3
  <1>10. CASE UNCHANGED vars
    BY <1>0, <1>10 DEF vars, Mails
  <1> QED BY <1>1, <1>2, <1>3, <1>4, <1>5, <1>6, <1>7, <1>8, <1>9, <1>10
          DEF Next, Handle, CallFails, Terminated, Killed

\* Whoever waits for the answer to its join will get one when the live process
\* has worked through its mailbox, or is told that the process has stopped.
THEOREM CallersAreServedHolds == Spec => []CallersAreServed
  <1>1. Init => CallersAreServed
    BY DEF Init, CallersAreServed
  <1> QED BY Invariant, <1>1, CallersStep, PTL DEF Spec
=============================================================================
