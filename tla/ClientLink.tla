----------------------------- MODULE ClientLink -----------------------------
(***************************************************************************)
(* How server-go/static/app.js keeps its connection: the page's start, the *)
(* WebSocket objects connectWS makes, the back-off of onclose, the button  *)
(* that is left when it gives up, and saveNickname, which connects too.    *)
(*                                                                         *)
(* The page runs one callback at a time; an action is a callback, or the   *)
(* part of an async function after an await.  Delays are left out: a timer *)
(* that is running may fire.  hideStatus runs 1.5 seconds after an open    *)
(* and is left out, as giving up takes the back-offs of 1 to 16 seconds.   *)
(***************************************************************************)
EXTENDS Naturals, FiniteSets

CONSTANTS
    Socket,                  \* WebSocket objects; the set bounds how many exist
    NoSocket,                \* null
    MAX_RECONNECT_ATTEMPTS,  \* 5 in the code
    MaxSaves                 \* bound: calls of saveNickname under way

ASSUME LinkConstants ==
    /\ NoSocket \notin Socket
    /\ MAX_RECONNECT_ATTEMPTS \in Nat
    /\ MaxSaves \in Nat

VARIABLES
    page,      \* booting, failed (an alert and no screen), nickname, app
    ready,     \* the readyState of every socket; none: no such object
    ws,        \* state.ws
    attempts,  \* state.reconnectAttempts
    timers,    \* how many setTimeout(connectWS) are running
    button,    \* whether the reconnect button shows
    saves      \* calls of saveNickname that wait for their PUT

vars == <<page, ready, ws, attempts, timers, button, saves>>

\* A type invariant; the back-off never counts past its maximum.
TypeOK ==
    /\ page \in {"booting", "failed", "nickname", "app"}
    /\ ready \in [Socket -> {"none", "connecting", "open", "closing"}]
    /\ ws \in Socket \union {NoSocket}
    /\ attempts \in 0 .. MAX_RECONNECT_ATTEMPTS
    /\ timers \in Nat
    /\ button \in BOOLEAN
    /\ saves \in 0 .. MaxSaves

Init ==
    /\ page = "booting"
    /\ ready = [k \in Socket |-> "none"]
    /\ ws = NoSocket
    /\ attempts = 0
    /\ timers = 0
    /\ button = FALSE
    /\ saves = 0

\* Bound: sockets and timers together never outnumber Socket.
Spare == Cardinality({k \in Socket : ready[k] # "none"}) + timers < Cardinality(Socket)

\* A mutant of the next definition: the button stays.
ConnectWSKeepingButton(k) ==
    /\ ready[k] = "none"
    /\ ready' = [ready EXCEPT ![k] = "connecting"]
    /\ ws' = k
    /\ button' = button

\* connectWS; showStatus without 'error' hides the button.
ConnectWS(k) ==
    /\ ready[k] = "none"
    /\ ready' = [ready EXCEPT ![k] = "connecting"]
    /\ ws' = k
    /\ button' = FALSE

-----------------------------------------------------------------------------
(* The start of the page.                                                  *)

\* init: either fetch fails.
BootFails ==
    /\ page = "booting" /\ page' = "failed"
    /\ UNCHANGED <<ready, ws, attempts, timers, button, saves>>

\* init: the user has no nickname yet.
BootUnnamed ==
    /\ page = "booting" /\ page' = "nickname"
    /\ UNCHANGED <<ready, ws, attempts, timers, button, saves>>

\* init: showApp and connectWS.
BootNamed(k) ==
    /\ page = "booting" /\ page' = "app"
    /\ ConnectWS(k)
    /\ UNCHANGED <<attempts, timers, saves>>

\* saveNickname up to its PUT, from the modal or from the edit button.
SaveNickname ==
    /\ page \in {"nickname", "app"} /\ saves < MaxSaves
    /\ saves' = saves + 1
    /\ UNCHANGED <<page, ready, ws, attempts, timers, button>>

\* The PUT or the reading of its answer fails.
SaveFails ==
    /\ saves > 0 /\ saves' = saves - 1
    /\ UNCHANGED <<page, ready, ws, attempts, timers, button>>

\* The PUT succeeds: showApp, and connectWS if state.ws is null, be it that no
\* connection was ever made or that a reconnect timer is running.
SaveSucceeds ==
    /\ saves > 0 /\ saves' = saves - 1
    /\ page' = "app"
    /\ \/ ws # NoSocket /\ UNCHANGED <<ready, ws, button>>
       \/ ws = NoSocket /\ Spare /\ \E k \in Socket : ConnectWS(k)
    /\ UNCHANGED <<attempts, timers>>

-----------------------------------------------------------------------------
(* The connection.                                                         *)

\* onopen.
OnOpen(k) ==
    /\ ready[k] = "connecting"
    /\ ready' = [ready EXCEPT ![k] = "open"]
    /\ attempts' = 0
    /\ button' = FALSE
    /\ UNCHANGED <<page, ws, timers, saves>>

\* Mutants of the next definition: the button is forgotten when it gives up,
\* or the attempts are not counted.
OnCloseNoButton(k) ==
    /\ ready[k] # "none"
    /\ ready' = [ready EXCEPT ![k] = "none"]
    /\ ws' = NoSocket
    /\ IF attempts >= MAX_RECONNECT_ATTEMPTS
       THEN UNCHANGED <<attempts, timers>>
       ELSE attempts' = attempts + 1 /\ timers' = timers + 1
    /\ UNCHANGED <<page, button, saves>>
OnCloseUncounted(k) ==
    /\ ready[k] # "none"
    /\ ready' = [ready EXCEPT ![k] = "none"]
    /\ ws' = NoSocket
    /\ timers' = timers + 1
    /\ UNCHANGED <<page, attempts, button, saves>>
OnCloseOneMore(k) ==
    /\ ready[k] # "none"
    /\ ready' = [ready EXCEPT ![k] = "none"]
    /\ ws' = NoSocket
    /\ IF attempts > MAX_RECONNECT_ATTEMPTS
       THEN button' = TRUE /\ UNCHANGED <<attempts, timers>>
       ELSE attempts' = attempts + 1 /\ timers' = timers + 1 /\ UNCHANGED button
    /\ UNCHANGED <<page, saves>>

\* onclose, of a connection that was up or of an attempt that failed: state.ws
\* becomes null whichever socket this is.
OnClose(k) ==
    /\ ready[k] # "none"
    /\ ready' = [ready EXCEPT ![k] = "none"]
    /\ ws' = NoSocket
    /\ IF attempts >= MAX_RECONNECT_ATTEMPTS
       THEN button' = TRUE /\ UNCHANGED <<attempts, timers>>
       ELSE attempts' = attempts + 1 /\ timers' = timers + 1 /\ UNCHANGED button
    /\ UNCHANGED <<page, saves>>

\* A reconnect timer fires.
ReconnectTimer(k) ==
    /\ timers > 0 /\ timers' = timers - 1
    /\ ConnectWS(k)
    /\ UNCHANGED <<page, attempts, saves>>

\* manualReconnect, by the button: state.ws, if any, is closed and replaced.
ManualReconnect(k) ==
    /\ button /\ button' = FALSE
    /\ ready[k] = "none" /\ Spare
    /\ attempts' = 0
    /\ ready' = [j \in Socket |-> IF j = k THEN "connecting"
                                  ELSE IF j = ws THEN "closing" ELSE ready[j]]
    /\ ws' = k
    /\ UNCHANGED <<page, timers, saves>>

-----------------------------------------------------------------------------
Next ==
    \/ BootFails \/ BootUnnamed
    \/ SaveNickname \/ SaveFails \/ SaveSucceeds
    \/ \E k \in Socket :
          \/ BootNamed(k) \/ OnOpen(k) \/ OnClose(k)
          \/ ReconnectTimer(k) \/ ManualReconnect(k)

Spec == Init /\ [][Next]_vars

\* Timers fire and a connection attempt ends one way or the other.  Nothing
\* makes a server answer or a user press a button.
Fairness ==
    /\ WF_vars(\E k \in Socket : ReconnectTimer(k))
    /\ \A k \in Socket :
          WF_vars(ready[k] = "connecting" /\ (OnOpen(k) \/ OnClose(k)))

FairSpec == Spec /\ Fairness

-----------------------------------------------------------------------------
\* The page never ends up with nothing under way and nothing to press: once it
\* shows the app there is a socket that connects or is open, a timer about to
\* make one, or the button.
NeverStranded ==
    page = "app" =>
        \/ \E k \in Socket : ready[k] \in {"connecting", "open"}
        \/ timers > 0
        \/ button

\* The button offers a reconnect only to a page without a connection of its
\* own, also when several sockets open and close around it: pressing it never
\* cuts a connection in use.
ButtonOnlyOffline == button => ws = NoSocket

\* The back-off ends: a page that has lost its connection gets a connection or
\* shows the button, it does not try for ever.
Reconnects ==
    page = "app" /\ ws = NoSocket ~>
        button \/ \E k \in Socket : ready[k] = "open"
=============================================================================
