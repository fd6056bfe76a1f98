-------------------------- MODULE ClientLinkProofs --------------------------
(***************************************************************************)
(* Machine-checked proofs about ClientLink: the page of app.js is never    *)
(* left with nothing under way and nothing to press, and the button never  *)
(* cuts a connection in use, for any number of sockets and any back-off.   *)
(* It has one connection unless a nickname is stored at a bad moment.      *)
(***************************************************************************)
EXTENDS ClientLink, TLAPS

\* state.ws is a socket that connects or is open; no other is kept there.
WsIsLive == ws # NoSocket => ready[ws] \in {"connecting", "open"}

\* The inductive invariant: NeverStranded needs WsIsLive when the PUT of a
\* nickname succeeds and state.ws is already there.
IInv == TypeOK /\ NeverStranded /\ ButtonOnlyOffline /\ WsIsLive

USE LinkConstants DEF LinkConstants

\* What TypeOK says of every variable but the button; the provers take a
\* Boolean variable and arithmetic apart.
DataOK ==
    /\ page \in {"booting", "failed", "nickname", "app"}
    /\ ready \in [Socket -> {"none", "connecting", "open", "closing"}]
    /\ ws \in Socket \union {NoSocket}
    /\ attempts \in 0 .. MAX_RECONNECT_ATTEMPTS
    /\ timers \in Nat
    /\ saves \in 0 .. MaxSaves

\* The two parts make the type invariant.
LEMMA DataAndButton == TypeOK <=> DataOK /\ button \in BOOLEAN
  BY DEF TypeOK, DataOK

\* The invariant holds before the page has done anything.
LEMMA InitIInv == Init => IInv
  <1> SUFFICES ASSUME Init PROVE IInv
    OBVIOUS
  <1>1. DataOK
    BY DEF Init, DataOK
  <1>2. button \in BOOLEAN
    BY DEF Init
  <1>3. NeverStranded
    BY DEF Init, NeverStranded
  <1>4. ButtonOnlyOffline /\ WsIsLive
    BY DEF Init, ButtonOnlyOffline, WsIsLive
  <1> QED BY <1>1, <1>2, <1>3, <1>4, DataAndButton DEF IInv

\* A step that hides the button and leaves a socket that connects or is open
\* keeps the invariant.
LEMMA LiveStep ==
    ASSUME DataOK', WsIsLive', button' = FALSE,
           NEW k \in Socket, ready'[k] \in {"connecting", "open"}
    PROVE  IInv'
  <1>1. button' \in BOOLEAN
    OBVIOUS
  <1>2. TypeOK'
    BY <1>1 DEF TypeOK, DataOK
  <1>3. NeverStranded'
    BY DEF NeverStranded
  <1>4. ButtonOnlyOffline'
    BY DEF ButtonOnlyOffline
  <1> QED BY <1>2, <1>3, <1>4 DEF IInv

\* connectWS next to a step that keeps the other variables in their domains.
LEMMA ConnectStep ==
    ASSUME DataOK, NEW k \in Socket, ConnectWS(k),
           page' \in {"booting", "failed", "nickname", "app"},
           attempts' \in 0 .. MAX_RECONNECT_ATTEMPTS, timers' \in Nat,
           saves' \in 0 .. MaxSaves
    PROVE  IInv'
  <1>1. ready'[k] = "connecting" /\ ws' = k /\ button' = FALSE
    BY DEF ConnectWS, DataOK
  <1>2. DataOK'
    BY DEF ConnectWS, DataOK
  <1>3. WsIsLive'
    BY <1>1 DEF WsIsLive
  <1> QED BY <1>1, <1>2, <1>3, LiveStep

\* A step that leaves the sockets, the timers and the button alone and does not
\* bring the page up keeps the invariant.
LEMMA QuietStep ==
    ASSUME IInv, DataOK', page' = "app" => page = "app",
           UNCHANGED <<ready, ws, timers, button>>
    PROVE  IInv'
  <1>1. button' \in BOOLEAN
    BY DataAndButton DEF IInv
  <1>2. TypeOK'
    BY <1>1 DEF TypeOK, DataOK
  <1>3. NeverStranded'
    BY DEF IInv, NeverStranded
  <1>4. ButtonOnlyOffline' /\ WsIsLive'
    BY DEF IInv, ButtonOnlyOffline, WsIsLive
  <1> QED BY <1>2, <1>3, <1>4 DEF IInv

\* A socket that has closed has left a timer or the button.
LEMMA CloseStep ==
    ASSUME IInv, NEW k \in Socket, OnClose(k)
    PROVE  IInv'
  <1>1. DataOK /\ button \in BOOLEAN
    BY DataAndButton DEF IInv
  <1>2. DataOK'
    BY <1>1 DEF OnClose, DataOK
  <1>3. ws' = NoSocket
    BY DEF OnClose
  <1>4. (button' = TRUE) \/ (timers' > 0 /\ button' = button)
    BY <1>1 DEF OnClose, DataOK
  <1>5. button' \in BOOLEAN
    BY <1>1, <1>4
  <1>6. TypeOK'
    BY <1>2, <1>5 DEF TypeOK, DataOK
  <1>7. NeverStranded'
    BY <1>4 DEF NeverStranded
  <1>8. ButtonOnlyOffline' /\ WsIsLive'
    BY <1>3 DEF ButtonOnlyOffline, WsIsLive
  <1> QED BY <1>6, <1>7, <1>8 DEF IInv

\* Every step keeps the invariant.
LEMMA IStep == IInv /\ [Next]_vars => IInv'
  <1> SUFFICES ASSUME IInv, [Next]_vars PROVE IInv'
    OBVIOUS
  <1>1. DataOK
    BY DataAndButton DEF IInv
  <1>2. CASE BootFails \/ BootUnnamed \/ SaveNickname \/ SaveFails
    <2>1. DataOK'
      BY <1>1, <1>2 DEF DataOK, BootFails, BootUnnamed, SaveNickname, SaveFails
    <2>2. /\ page' = "app" => page = "app"
          /\ UNCHANGED <<ready, ws, timers, button>>
      BY <1>2 DEF BootFails, BootUnnamed, SaveNickname, SaveFails
    <2> QED BY <2>1, <2>2, QuietStep
  <1>3. CASE SaveSucceeds
    <2>1. saves' \in 0 .. MaxSaves /\ page' = "app" /\ attempts' = attempts /\ timers' = timers
      BY <1>1, <1>3 DEF SaveSucceeds, DataOK
    <2>2. CASE ws # NoSocket /\ UNCHANGED <<ready, ws, button>>
      <3>1. DataOK'
        BY <1>1, <2>1, <2>2 DEF DataOK
      <3>2. ws \in Socket /\ ready[ws] \in {"connecting", "open"}
        BY <1>1, <2>2 DEF DataOK, IInv, WsIsLive
      <3>3. ~button
        BY <2>2 DEF IInv, ButtonOnlyOffline
      <3>4. button' = FALSE
        BY <2>2, <3>3, DataAndButton DEF IInv
      <3>5. WsIsLive' /\ ready'[ws] \in {"connecting", "open"}
        BY <2>2, <3>2 DEF WsIsLive
      <3> QED BY <3>1, <3>2, <3>4, <3>5, LiveStep
    <2>3. CASE \E k \in Socket : ConnectWS(k)
      <3>1. attempts' \in 0 .. MAX_RECONNECT_ATTEMPTS /\ timers' \in Nat
        BY <1>1, <2>1 DEF DataOK
      <3> QED BY <1>1, <2>1, <2>3, <3>1, ConnectStep
    <2> QED BY <1>3, <2>2, <2>3 DEF SaveSucceeds
  <1>4. ASSUME NEW k \in Socket, BootNamed(k) PROVE IInv'
    <2>1. /\ ConnectWS(k) /\ page' = "app" /\ timers' \in Nat
          /\ attempts' \in 0 .. MAX_RECONNECT_ATTEMPTS /\ saves' \in 0 .. MaxSaves
      BY <1>1, <1>4 DEF BootNamed, DataOK
    <2> QED BY <1>1, <2>1, ConnectStep
  <1>5. ASSUME NEW k \in Socket, ReconnectTimer(k) PROVE IInv'
    <2>1. /\ ConnectWS(k) /\ page' \in {"booting", "failed", "nickname", "app"}
          /\ timers' \in Nat
          /\ attempts' \in 0 .. MAX_RECONNECT_ATTEMPTS /\ saves' \in 0 .. MaxSaves
      BY <1>1, <1>5 DEF ReconnectTimer, DataOK
    <2> QED BY <1>1, <2>1, ConnectStep
  <1>6. ASSUME NEW k \in Socket, OnOpen(k) PROVE IInv'
    <2>1. ready'[k] = "open" /\ button' = FALSE
      BY <1>1, <1>6 DEF OnOpen, DataOK
    <2>2. DataOK'
      BY <1>1, <1>6 DEF OnOpen, DataOK
    <2>3. WsIsLive'
      BY <1>1, <1>6 DEF OnOpen, DataOK, IInv, WsIsLive
    <2> QED BY <2>1, <2>2, <2>3, LiveStep
  <1>7. ASSUME NEW k \in Socket, OnClose(k) PROVE IInv'
    BY <1>7, CloseStep
  <1>8. ASSUME NEW k \in Socket, ManualReconnect(k) PROVE IInv'
    <2>1. ready'[k] = "connecting" /\ ws' = k /\ button' = FALSE
      BY <1>8 DEF ManualReconnect
    <2>2. DataOK'
      BY <1>1, <1>8 DEF ManualReconnect, DataOK
    <2>3. WsIsLive'
      BY <2>1 DEF WsIsLive
    <2> QED BY <2>1, <2>2, <2>3, LiveStep
  <1>9. CASE UNCHANGED vars
    <2>1. DataOK' /\ page' = page /\ UNCHANGED <<ready, ws, timers, button>>
      BY <1>1, <1>9 DEF vars, DataOK
    <2> QED BY <2>1, QuietStep
  <1> QED
    BY <1>2, <1>3, <1>4, <1>5, <1>6, <1>7, <1>8, <1>9 DEF Next

\* The page's variables keep their domains; the back-off stays in its range.
THEOREM TypeCorrect == Spec => []TypeOK
  <1>1. IInv => TypeOK
    BY DEF IInv
  <1> QED BY InitIInv, IStep, <1>1, PTL DEF Spec

\* Whatever opens and closes, the page has a connection, a timer or the button.
THEOREM NeverStrandedHolds == Spec => []NeverStranded
  <1>1. IInv => NeverStranded
    BY DEF IInv
  <1> QED BY InitIInv, IStep, <1>1, PTL DEF Spec

\* The button shows only while state.ws is null.
THEOREM ButtonOnlyOfflineHolds == Spec => []ButtonOnlyOffline
  <1>1. IInv => ButtonOnlyOffline
    BY DEF IInv
  <1> QED BY InitIInv, IStep, <1>1, PTL DEF Spec

-----------------------------------------------------------------------------
(* One connection per page.  Nothing in app.js enforces it: saveNickname   *)
(* connects when state.ws is null, also while a reconnect timer runs, and  *)
(* the page then keeps two sockets, each reconnecting for itself.  The     *)
(* theorem says that this is the only way to a second connection.          *)

\* The page has at most one socket that is not closed, or one timer about to
\* make one, and never both.
OneLink ==
    /\ \A j, k \in Socket : ready[j] # "none" /\ ready[k] # "none" => j = k
    /\ timers > 0 => timers = 1 /\ \A k \in Socket : ready[k] = "none"

\* No nickname is stored while the page waits to reconnect.
SavesSpareTimers == [][SaveSucceeds => ws # NoSocket \/ timers = 0]_vars

\* state.ws tells whether there is a socket; the button and the pages before
\* the app stand for a page without one and without a timer.
LinkKnown ==
    /\ ws = NoSocket => \A k \in Socket : ready[k] = "none"
    /\ button => timers = 0 /\ page = "app"
    /\ page # "app" => timers = 0 /\ ws = NoSocket

\* The inductive invariant of a page that keeps to SavesSpareTimers.
LinkInv == IInv /\ OneLink /\ LinkKnown

\* connectWS on a page without a socket and without another timer makes the
\* page's only link.
LEMMA SingleConnect ==
    ASSUME LinkInv, NEW k \in Socket, ConnectWS(k),
           \A j \in Socket : ready[j] = "none", timers' = 0, page' = "app"
    PROVE  OneLink' /\ LinkKnown'
  <1>1. /\ ready' = [ready EXCEPT ![k] = "connecting"] /\ ws' = k /\ button' = FALSE
        /\ ready \in [Socket -> {"none", "connecting", "open", "closing"}]
        /\ NoSocket \notin Socket
    BY DataAndButton, LinkConstants DEF ConnectWS, LinkInv, IInv, DataOK
  <1>2. \A j \in Socket : ready'[j] # "none" => j = k
    BY <1>1
  <1>3. OneLink'
    BY <1>2 DEF OneLink
  <1>4. LinkKnown'
    BY <1>1 DEF LinkKnown
  <1> QED BY <1>3, <1>4

\* Every step of such a page keeps its link single.
LEMMA LinkStep ==
    LinkInv /\ [Next]_vars /\ [SaveSucceeds => ws # NoSocket \/ timers = 0]_vars
        => LinkInv'
  <1> SUFFICES ASSUME LinkInv, [Next]_vars,
                      [SaveSucceeds => ws # NoSocket \/ timers = 0]_vars
               PROVE  OneLink' /\ LinkKnown'
    BY IStep DEF LinkInv
  <1>t. DataOK
    BY DataAndButton DEF LinkInv, IInv
  <1>w. ws # NoSocket => ws \in Socket /\ ready[ws] # "none"
    BY <1>t DEF LinkInv, IInv, WsIsLive, DataOK
  <1>1. CASE BootFails \/ BootUnnamed \/ SaveNickname \/ SaveFails
    <2>1. /\ UNCHANGED <<ready, ws, timers, button>>
          /\ page # "app" \/ page' = page
      BY <1>1 DEF BootFails, BootUnnamed, SaveNickname, SaveFails
    <2>2. page' # "app" => page # "app"
      BY <2>1
    <2>3. OneLink'
      BY <2>1 DEF LinkInv, OneLink
    <2>4. LinkKnown'
      BY <2>1, <2>2 DEF LinkInv, LinkKnown
    <2> QED BY <2>3, <2>4
  <1>2. CASE SaveSucceeds
    <2>1. page' = "app" /\ timers' = timers
      BY <1>2 DEF SaveSucceeds
    <2>2. CASE ws # NoSocket /\ UNCHANGED <<ready, ws, button>>
      <3>1. OneLink'
        BY <2>1, <2>2 DEF LinkInv, OneLink
      <3>2. LinkKnown'
        BY <2>1, <2>2 DEF LinkInv, LinkKnown
      <3> QED BY <3>1, <3>2
    <2>3. CASE ws = NoSocket /\ \E k \in Socket : ConnectWS(k)
      <3>1. PICK k \in Socket : ConnectWS(k)
        BY <2>3
      <3>2. timers = 0
        <4>1. ws' # ws
          BY <2>3, <3>1, LinkConstants DEF ConnectWS
        <4> QED BY <1>2, <2>3, <4>1 DEF vars
      <3>3. \A j \in Socket : ready[j] = "none"
        BY <2>3 DEF LinkInv, LinkKnown
      <3> QED BY <2>1, <3>1, <3>2, <3>3, SingleConnect
    <2> QED BY <1>2, <2>2, <2>3 DEF SaveSucceeds
  <1>3. ASSUME NEW k \in Socket, BootNamed(k) PROVE OneLink' /\ LinkKnown'
    <2>1. page = "booting" /\ page' = "app" /\ ConnectWS(k) /\ timers' = timers
      BY <1>3 DEF BootNamed
    <2>2. timers = 0 /\ \A j \in Socket : ready[j] = "none"
      BY <2>1 DEF LinkInv, LinkKnown
    <2> QED BY <2>1, <2>2, SingleConnect
  <1>4. ASSUME NEW k \in Socket, ReconnectTimer(k) PROVE OneLink' /\ LinkKnown'
    <2>1. timers > 0 /\ timers' = timers - 1 /\ ConnectWS(k) /\ page' = page
      BY <1>4 DEF ReconnectTimer
    <2>2. timers = 1 /\ \A j \in Socket : ready[j] = "none"
      BY <2>1 DEF LinkInv, OneLink
    <2>3. timers' = 0 /\ page' = "app"
      BY <2>1, <2>2 DEF LinkInv, LinkKnown
    <2> QED BY <2>1, <2>2, <2>3, SingleConnect
  <1>5. ASSUME NEW k \in Socket, OnOpen(k) PROVE OneLink' /\ LinkKnown'
    <2>1. /\ ready[k] = "connecting" /\ ready' = [ready EXCEPT ![k] = "open"]
          /\ button' = FALSE /\ UNCHANGED <<page, ws, timers>>
      BY <1>5 DEF OnOpen
    <2>2. \A j \in Socket : (ready'[j] # "none") <=> (ready[j] # "none")
      BY <1>t, <2>1 DEF DataOK
    <2>3. OneLink'
      BY <2>1, <2>2 DEF LinkInv, OneLink
    <2>4. LinkKnown'
      BY <2>1, <2>2 DEF LinkInv, LinkKnown
    <2> QED BY <2>3, <2>4
  <1>6. ASSUME NEW k \in Socket, OnClose(k) PROVE OneLink' /\ LinkKnown'
    <2>1. /\ ready[k] # "none" /\ ready' = [ready EXCEPT ![k] = "none"]
          /\ ws' = NoSocket /\ page' = page
      BY <1>6 DEF OnClose
    <2>2. /\ \A j \in Socket : ready[j] # "none" => j = k
          /\ ~(timers > 0) /\ ws # NoSocket /\ page = "app"
      BY <2>1 DEF LinkInv, OneLink, LinkKnown
    <2>3. timers = 0
      BY <1>t, <2>2 DEF DataOK
    <2>4. ~button
      BY <2>2 DEF LinkInv, IInv, ButtonOnlyOffline
    <2>5. \A j \in Socket : ready'[j] = "none"
      BY <1>t, <2>1, <2>2 DEF DataOK
    <2>6. \/ button' = TRUE /\ timers' = timers
          \/ button' = button /\ timers' = timers + 1
      BY <1>6 DEF OnClose
    <2>7. timers' = 0 \/ timers' = 1
      BY <2>3, <2>6
    <2>8. button' => timers' = 0
      BY <2>3, <2>4, <2>6, Zenon
    <2>9. OneLink'
      BY <2>5, <2>7 DEF OneLink
    <2>10. LinkKnown'
      BY <2>1, <2>2, <2>5, <2>8 DEF LinkKnown
    <2> QED BY <2>9, <2>10
  <1>7. ASSUME NEW k \in Socket, ManualReconnect(k) PROVE OneLink' /\ LinkKnown'
    <2>1. /\ button /\ button' = FALSE /\ ws' = k /\ UNCHANGED <<page, timers>>
          /\ ready' = [j \in Socket |-> IF j = k THEN "connecting"
                                        ELSE IF j = ws THEN "closing" ELSE ready[j]]
      BY <1>7 DEF ManualReconnect
    <2>2. ws = NoSocket /\ timers = 0
      BY <2>1 DEF LinkInv, IInv, ButtonOnlyOffline, LinkKnown
    <2>3. page' = "app"
      BY <2>1 DEF LinkInv, LinkKnown
    <2>4. \A j \in Socket : ready[j] = "none"
      BY <2>2 DEF LinkInv, LinkKnown
    <2>5. \A j \in Socket : ready'[j] # "none" => j = k
      BY <2>1, <2>2, <2>4, LinkConstants
    <2> QED BY <2>1, <2>2, <2>3, <2>5, LinkConstants DEF OneLink, LinkKnown
  <1>8. CASE UNCHANGED vars
    <2>1. UNCHANGED <<page, ready, ws, timers, button>>
      BY <1>8 DEF vars
    <2> QED BY <2>1 DEF LinkInv, OneLink, LinkKnown
  <1> QED BY <1>1, <1>2, <1>3, <1>4, <1>5, <1>6, <1>7, <1>8 DEF Next

\* A page keeps one connection for good, unless a nickname is stored while the
\* page waits to reconnect.
THEOREM OneLinkUnlessSaved == Spec /\ SavesSpareTimers => []OneLink
  <1>1. Init => LinkInv
    <2>1. Init => IInv
      BY InitIInv
    <2>2. Init => OneLink
      BY DEF Init, OneLink
    <2>3. Init => LinkKnown
      BY DEF Init, LinkKnown
    <2> QED BY <2>1, <2>2, <2>3 DEF LinkInv
  <1>2. LinkInv => OneLink
    BY DEF LinkInv
  <1> QED BY <1>1, <1>2, LinkStep, PTL DEF Spec, SavesSpareTimers
=============================================================================
