--------------------------- MODULE ElixirPresence ---------------------------
(***************************************************************************)
(* The presence of one room in the Elixir server: room_presence.ex, and    *)
(* the init and terminate of chat_handler.ex that call it.  One GenServer  *)
(* per room, found through a unique Registry; one process per connection.  *)
(*                                                                         *)
(* A GenServer handles its mailbox in order, one message at a time.        *)
(* Registry.lookup answers with a live process only and start_child is     *)
(* serialised by the name, so "reg" is the one live process of the room;   *)
(* who has found it may still call it after it stopped.  A monitor says    *)
(* DOWN once, at once if the monitored process is already gone, and after  *)
(* whatever that process has sent.                                         *)
(***************************************************************************)
EXTENDS Naturals, FiniteSets, Sequences

CONSTANTS Conn,   \* connections: WebSock processes; a gone one may come again
          Pid,    \* identities of the room's GenServers
          NoPid,  \* no process
          NoConn  \* no connection

ASSUME PresenceConstants ==
  NoPid \notin Pid /\ NoConn \notin Conn /\ IsFiniteSet(Conn)

VARIABLES reg,      \* the process registered for the room
          members,  \* its state.members, by process
          idle,     \* its idle timer is running
          mail,     \* its mailbox
          pc,       \* how far a connection is
          pid,      \* the process ensure_started gave a connection
          shown     \* the count in the last room_presence a connection got

vars == <<reg, members, idle, mail, pc, pid, shown>>

Places == {"gone", "subscribed", "found", "calling", "in", "closing"}

Msg(tag, c) == [tag |-> tag, who |-> c]
IdleCheck == Msg("idle_check", NoConn)
Message == [tag : {"join", "leave", "DOWN"}, who : Conn] \cup {IdleCheck}
Elems(s) == {s[i] : i \in 1..Len(s)}
Mails(p) == Elems(mail[p])
Count == 0..Cardinality(Conn)

\* The one live process is the only one with members, timer or mail.
TypeOK ==
  /\ reg \in Pid \cup {NoPid}
  /\ members \in [Pid -> SUBSET Conn] /\ idle \in [Pid -> BOOLEAN]
  /\ mail \in [Pid -> Seq(Message)]
  /\ pc \in [Conn -> Places] /\ pid \in [Conn -> Pid \cup {NoPid}]
  /\ shown \in [Conn -> Count]
  /\ \A p \in Pid : p # reg => members[p] = {} /\ ~idle[p] /\ mail[p] = <<>>

Init ==
  /\ reg = NoPid
  /\ members = [p \in Pid |-> {}] /\ idle = [p \in Pid |-> FALSE]
  /\ mail = [p \in Pid |-> <<>>]
  /\ pc = [c \in Conn |-> "gone"] /\ pid = [c \in Conn |-> NoPid]
  /\ shown = [c \in Conn |-> 0]

\* A broadcast on the room's topic reaches every connection that subscribed.
Heard(n) == [c \in Conn |-> IF pc[c] = "gone" THEN 0 ELSE n]

\* A process identity with no trace of it left: the connection is new.
Unheard(c) == \A p \in Pid : c \notin members[p] /\ \A m \in Mails(p) : m.who # c

(***************************************************************************)
(* A connection: ChatHandler.init and terminate                            *)
(***************************************************************************)

Subscribe(c) ==
  /\ pc[c] = "gone" /\ Unheard(c)
  /\ pc' = [pc EXCEPT ![c] = "subscribed"]
  /\ UNCHANGED <<reg, members, idle, mail, pid, shown>>

\* ensure_started, and init of the process it starts.  An identity is free
\* for a new process when nobody holds it.
EnsureStarted(c) ==
  /\ pc[c] = "subscribed"
  /\ \E p \in Pid :
        /\ IF reg = NoPid THEN \A d \in Conn : pid[d] # p ELSE p = reg
        /\ reg' = p
        /\ pid' = [pid EXCEPT ![c] = p]
        /\ idle' = [idle EXCEPT ![p] = @ \/ reg = NoPid]
  /\ pc' = [pc EXCEPT ![c] = "found"]
  /\ UNCHANGED <<members, mail, shown>>

Call(c) ==
  /\ pc[c] = "found" /\ pid[c] = reg
  /\ mail' = [mail EXCEPT ![reg] = Append(@, Msg("join", c))]
  /\ pc' = [pc EXCEPT ![c] = "calling"]
  /\ UNCHANGED <<reg, members, idle, pid, shown>>

\* The process is gone; its monitors say so.
Exit(c) ==
  /\ pc' = [pc EXCEPT ![c] = "gone"]
  /\ pid' = [pid EXCEPT ![c] = NoPid]
  /\ shown' = [shown EXCEPT ![c] = 0]
  /\ mail' = [p \in Pid |-> IF c \in members[p] THEN Append(mail[p], Msg("DOWN", c))
                                                ELSE mail[p]]
  /\ UNCHANGED <<reg, members, idle>>

\* Mutant of CallFails: the call does not monitor the process it waits for.
CallHangs(c) ==
  /\ pc[c] = "found" /\ pid[c] # reg
  /\ Exit(c)

\* GenServer.call on a process that has stopped, or stops before it answers.
CallFails(c) ==
  /\ pc[c] \in {"found", "calling"} /\ pid[c] # reg
  /\ Exit(c)

\* terminate: leave looks the process up again and casts.
Terminate(c) ==
  /\ pc[c] = "in"
  /\ pc' = [pc EXCEPT ![c] = "closing"]
  /\ mail' = [p \in Pid |-> IF p = reg THEN Append(mail[p], Msg("leave", c)) ELSE mail[p]]
  /\ UNCHANGED <<reg, members, idle, pid, shown>>

Terminated(c) ==
  /\ pc[c] = "closing"
  /\ Exit(c)

\* Killed, or out of patience with the call (five seconds).
Killed(c) ==
  /\ pc[c] \in {"subscribed", "found", "calling", "in"}
  /\ Exit(c)

(***************************************************************************)
(* The GenServer                                                           *)
(***************************************************************************)

Receives(p, tag) == p = reg /\ mail[p] # <<>> /\ Head(mail[p]).tag = tag

\* Mutant of HandleJoin: the caller is not monitored.
HandleJoinUnmonitored(p) ==
  /\ Receives(p, "join")
  /\ LET c == Head(mail[p]).who IN
       /\ members' = [members EXCEPT ![p] = @ \cup {c}]
       /\ shown' = Heard(Cardinality(members[p] \cup {c}))
       /\ pc' = [pc EXCEPT ![c] = IF @ = "calling" THEN "in" ELSE @]
  /\ mail' = [mail EXCEPT ![p] = Tail(@)]
  /\ idle' = [idle EXCEPT ![p] = FALSE]
  /\ UNCHANGED <<reg, pid>>

\* cancel_timer does nothing about an idle_check that is in the mailbox.
HandleJoin(p) ==
  /\ Receives(p, "join")
  /\ LET c == Head(mail[p]).who IN
       /\ members' = [members EXCEPT ![p] = @ \cup {c}]
       /\ shown' = Heard(Cardinality(members[p] \cup {c}))
       /\ pc' = [pc EXCEPT ![c] = IF @ = "calling" THEN "in" ELSE @]
       /\ mail' = [mail EXCEPT ![p] = IF pc[c] = "gone" THEN Append(Tail(@), Msg("DOWN", c))
                                                        ELSE Tail(@)]
  /\ idle' = [idle EXCEPT ![p] = FALSE]
  /\ UNCHANGED <<reg, pid>>

\* What demonitor with :flush leaves in a mailbox: without the DOWN it holds.
Flush(s, c) ==
  LET downs == {i \in 1..Len(s) : s[i] = Msg("DOWN", c)}
      at == CHOOSE i \in downs : TRUE
  IN IF downs = {} THEN s
                   ELSE [i \in 1..Len(s) - 1 |-> s[IF i < at THEN i ELSE i + 1]]

\* Mutant of Emptied: the timer is not started.
EmptiedUntimed(p, c) == FALSE

\* drop has removed the last member and starts the timer.
Emptied(p, c) == members[p] = {c}

\* Mutant of Drop: the others are not told.
DropUntold(p, tag) ==
  /\ Receives(p, tag)
  /\ LET c == Head(mail[p]).who IN
       /\ members' = [members EXCEPT ![p] = @ \ {c}]
       /\ mail' = [mail EXCEPT ![p] = IF c \in members[p] THEN Flush(Tail(@), c) ELSE Tail(@)]
       /\ idle' = [idle EXCEPT ![p] = @ \/ Emptied(p, c)]
  /\ UNCHANGED <<reg, pc, pid, shown>>

\* Mutant of Drop: the count is taken before the member is removed.
DropCountedBefore(p, tag) ==
  /\ Receives(p, tag)
  /\ LET c == Head(mail[p]).who IN
       /\ members' = [members EXCEPT ![p] = @ \ {c}]
       /\ mail' = [mail EXCEPT ![p] = IF c \in members[p] THEN Flush(Tail(@), c) ELSE Tail(@)]
       /\ idle' = [idle EXCEPT ![p] = @ \/ Emptied(p, c)]
       /\ shown' = IF c \in members[p] THEN Heard(Cardinality(members[p])) ELSE shown
  /\ UNCHANGED <<reg, pc, pid>>

Drop(p, tag) ==
  /\ Receives(p, tag)
  /\ LET c == Head(mail[p]).who IN
       /\ members' = [members EXCEPT ![p] = @ \ {c}]
       /\ mail' = [mail EXCEPT ![p] = IF c \in members[p] THEN Flush(Tail(@), c) ELSE Tail(@)]
       /\ idle' = [idle EXCEPT ![p] = @ \/ Emptied(p, c)]
       /\ shown' = IF c \in members[p] THEN Heard(Cardinality(members[p] \ {c})) ELSE shown
  /\ UNCHANGED <<reg, pc, pid>>

\* Process.send_after's message arrives.
IdleTimeout(p) ==
  /\ idle[p]
  /\ idle' = [idle EXCEPT ![p] = FALSE]
  /\ mail' = [mail EXCEPT ![p] = Append(@, IdleCheck)]
  /\ UNCHANGED <<reg, members, pc, pid, shown>>

\* The process stops: its mailbox, state and name go with it.
Stop(p) ==
  /\ reg' = NoPid
  /\ members' = [members EXCEPT ![p] = {}]
  /\ idle' = [idle EXCEPT ![p] = FALSE]
  /\ mail' = [mail EXCEPT ![p] = <<>>]
  /\ UNCHANGED <<pc, pid, shown>>

\* Mutant of HandleIdleCheck: the members are not looked at.
HandleIdleCheckAlways(p) == Receives(p, "idle_check") /\ Stop(p)

HandleIdleCheck(p) ==
  /\ Receives(p, "idle_check")
  /\ IF members[p] = {}
     THEN Stop(p)
     ELSE /\ mail' = [mail EXCEPT ![p] = Tail(@)]
          /\ UNCHANGED <<reg, members, idle, pc, pid, shown>>

Handle(p) == HandleJoin(p) \/ Drop(p, "leave") \/ Drop(p, "DOWN") \/ HandleIdleCheck(p)

Next ==
  \/ \E c \in Conn : \/ Subscribe(c) \/ EnsureStarted(c) \/ Call(c) \/ CallFails(c)
                     \/ Terminate(c) \/ Terminated(c) \/ Killed(c)
  \/ \E p \in Pid : IdleTimeout(p) \/ Handle(p)

Spec == Init /\ [][Next]_vars

\* Every process runs; nobody has to connect or to leave.
FairSpec ==
  /\ Spec
  /\ \A c \in Conn : WF_vars(EnsureStarted(c) \/ Call(c) \/ CallFails(c) \/ Terminated(c))
  /\ \A p \in Pid : WF_vars(IdleTimeout(p)) /\ WF_vars(Handle(p))

(***************************************************************************)
(* Properties                                                              *)
(***************************************************************************)

\* A connection whose join was answered is counted by the live process, and
\* no other process was started meanwhile, until it says it leaves
\* (room_presence.ex 20-30, 86-92).
JoinedIsCounted ==
  \A c \in Conn : pc[c] = "in" => pid[c] = reg /\ reg # NoPid /\ c \in members[reg]

\* A member whose process is gone is about to be dropped, whether it left or
\* was killed, before, in or after the call (room_presence.ex 71-83, 98-104).
GhostsAreDropped ==
  \A p \in Pid : \A c \in members[p] :
     pc[c] = "gone" => \E m \in Mails(p) : m.who = c /\ m.tag \in {"leave", "DOWN"}

\* The online count a joined connection has last been given is the number of
\* members (room_presence.ex 71-77, 103-107; chat_handler.ex 15-16).
CountIsRight ==
  \A c \in Conn : pc[c] = "in" => shown[c] = Cardinality(members[reg])

\* The process of a room without members has its timer running or the check
\* in its mailbox (room_presence.ex 65-67, 74, 89, 107).
EmptyIsTimed ==
  reg # NoPid /\ members[reg] = {} => idle[reg] \/ IdleCheck \in Mails(reg)

\* The processes that serve a room one after the other, seen as one roster.
Online == IF reg = NoPid THEN {} ELSE members[reg]
Joined == {c \in Conn : pc[c] = "in"}
Listening == {c \in Conn : pc[c] # "gone"}
Roster == INSTANCE RoomRoster WITH online <- Online, joined <- Joined,
                                   listening <- Listening, told <- shown

\* Every step of a connection, of a room's process, of its stopping and of its
\* starting again is a step of RoomRoster or invisible there: nobody who has
\* joined drops out, and no count is announced that is not the size of the
\* roster at that moment (room_presence.ex 71-117).
RefinesRoster == Roster!Spec

\* Nobody waits in a join for ever: it is answered, or the process it was
\* sent to stops and the caller goes with it (room_presence.ex 22).
JoinsReturn == \A c \in Conn : pc[c] = "calling" ~> pc[c] # "calling"
=============================================================================
