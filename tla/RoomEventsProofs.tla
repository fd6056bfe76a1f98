-------------------------- MODULE RoomEventsProofs --------------------------
(***************************************************************************)
(* Theorems of RoomEvents and EmojiOnly. isEmojiOnly's loop is a recursive *)
(* function; what it answers is proved with a least number: if scan and    *)
(* "everything from here on is allowed" differed anywhere, they would      *)
(* differ at a last index, and there they agree.                           *)
(*                                                                         *)
(* The invariant Inv has four parts. Typed: the types, with what a place   *)
(* says of a request. RoomInv and NameInv: unless writes overlapped, or a  *)
(* row could not be read to be told, the row is what the page will show    *)
(* once the hub has handed out its channel (Arrives), or a goroutine has   *)
(* yet to send it; Arrives speaks of the last event that sets a field, so  *)
(* that no fold over the channel is needed. PostInv: a text that waits for *)
(* its INSERT.                                                             *)
(***************************************************************************)
EXTENDS RoomEvents, WellFoundedInduction, TLAPS

-----------------------------------------------------------------------------
(* The scanner.                                                            *)

\* Every non-empty set of natural numbers has a least element.
LEMMA LeastNat ==
    ASSUME NEW T \in SUBSET Nat, T # {}
    PROVE  \E x \in T : \A y \in T : x <= y
  <1>1. PICK x \in T : \A y \in T : <<y, x>> \notin OpToRel(<, Nat)
    BY NatLessThanWellFounded, WFMin, Zenon
  <1>2. \A y \in T : ~(y < x)
    BY <1>1 DEF OpToRel
  <1> QED BY <1>2

\* The recursive definition of scan has a solution for every content.
LEMMA ScanExists ==
    ASSUME NEW s \in Seq(Class)
    PROVE  \E f : f = [i \in 1 .. Len(s) + 1 |->
            IF i > Len(s) THEN TRUE ELSE s[i] \in Allowed /\ f[i + 1]]
  <1> DEFINE f == [i \in 1 .. Len(s) + 1 |-> \A j \in i .. Len(s) : s[j] \in Allowed]
  <1>1. ASSUME NEW i \in 1 .. Len(s) + 1
        PROVE f[i] = IF i > Len(s) THEN TRUE ELSE s[i] \in Allowed /\ f[i + 1]
    <2>1. CASE i > Len(s)
      BY <2>1
    <2>2. CASE ~(i > Len(s))
      <3>1. i + 1 \in 1 .. Len(s) + 1 /\ i .. Len(s) = {i} \union (i + 1 .. Len(s))
        BY <2>2
      <3>2. f[i] = (\A j \in i .. Len(s) : s[j] \in Allowed)
        OBVIOUS
      <3>3. f[i + 1] = (\A j \in i + 1 .. Len(s) : s[j] \in Allowed)
        BY <3>1
      <3> QED BY <2>2, <3>1, <3>2, <3>3
    <2> QED BY <2>1, <2>2
  <1>2. f = [i \in 1 .. Len(s) + 1 |-> IF i > Len(s) THEN TRUE ELSE s[i] \in Allowed /\ f[i + 1]]
    BY <1>1, Zenon
  <1> QED BY <1>2, Zenon

\* The loop answers whether every code point is of the list.
LEMMA ScanIsAll ==
    ASSUME NEW s \in Seq(Class)
    PROVE  IsEmojiOnly(s) <=> s # <<>> /\ \A i \in DOMAIN s : s[i] \in Allowed
  <1> DEFINE scan[i \in 1 .. Len(s) + 1] ==
            IF i > Len(s) THEN TRUE ELSE s[i] \in Allowed /\ scan[i + 1]
  <1>1. IsEmojiOnly(s) <=> s # <<>> /\ scan[1]
    BY DEF IsEmojiOnly
  <1>2. scan = [i \in 1 .. Len(s) + 1 |->
            IF i > Len(s) THEN TRUE ELSE s[i] \in Allowed /\ scan[i + 1]]
    BY ScanExists, Zenon
  <1> HIDE DEF scan
  <1>3. Len(s) \in Nat /\ DOMAIN s = 1 .. Len(s)
    OBVIOUS
  <1>4. scan[Len(s) + 1] = TRUE
    <2>1. Len(s) + 1 \in 1 .. Len(s) + 1 /\ Len(s) + 1 > Len(s)
      BY <1>3
    <2> QED BY <1>2, <2>1, Zenon
  <1>5. ASSUME NEW i \in 1 .. Len(s)
        PROVE  scan[i] <=> s[i] \in Allowed /\ scan[i + 1]
    <2>1. i \in 1 .. Len(s) + 1 /\ ~(i > Len(s))
      BY <1>3
    <2> QED BY <1>2, <2>1, Zenon
  <1> DEFINE Rest(i) == \A j \in i .. Len(s) : s[j] \in Allowed
             Bad == {k \in Nat : k <= Len(s) /\ ~(scan[Len(s) + 1 - k] <=> Rest(Len(s) + 1 - k))}
  <1>6. Rest(Len(s) + 1)
    BY <1>3
  <1>7. ASSUME NEW i \in 1 .. Len(s)
        PROVE  Rest(i) <=> s[i] \in Allowed /\ Rest(i + 1)
    <2>1. i .. Len(s) = {i} \union (i + 1 .. Len(s))
      BY <1>3
    <2> QED BY <2>1
  <1> HIDE DEF Rest
  <1>8. Bad = {}
    <2>1. SUFFICES ASSUME Bad # {} PROVE FALSE
      OBVIOUS
    <2>2. Bad \in SUBSET Nat
      OBVIOUS
    <2> HIDE DEF Bad
    <2>3. PICK k \in Bad : \A y \in Bad : k <= y
      BY <2>1, <2>2, LeastNat, Zenon
    <2> USE DEF Bad
    <2>4. k \in Nat /\ k <= Len(s) /\ ~(scan[Len(s) + 1 - k] <=> Rest(Len(s) + 1 - k))
      BY <2>3, Zenon
    <2>5. CASE k = 0
      <3>1. Len(s) + 1 - k = Len(s) + 1
        BY <2>5, <1>3
      <3> QED BY <3>1, <2>4, <1>4, <1>6, Zenon
    <2>6. CASE k # 0
      <3> DEFINE i == Len(s) + 1 - k
      <3>1. i \in 1 .. Len(s) /\ Len(s) + 1 - (k - 1) = i + 1
        BY <2>6, <2>4, <1>3
      <3>2. k - 1 \in Nat /\ k - 1 <= Len(s) /\ ~(k <= k - 1)
        BY <2>6, <2>4, <1>3
      <3>3. k - 1 \notin Bad
        BY <3>2, <2>3, Zenon
      <3>4. scan[i + 1] <=> Rest(i + 1)
        BY <3>1, <3>2, <3>3, Zenon
      <3> HIDE DEF i
      <3>5. scan[i] <=> Rest(i)
        BY <3>1, <3>4, <1>5, <1>7, Zenon
      <3> QED BY <3>5, <2>4, Zenon DEF i
    <2> QED BY <2>5, <2>6
  <1>9. CASE s = <<>>
    BY <1>9, <1>1, Zenon
  <1>10. CASE s # <<>>
    <2>1. Len(s) \in Nat /\ Len(s) <= Len(s) /\ Len(s) + 1 - Len(s) = 1
      BY <1>3
    <2>2. scan[1] <=> Rest(1)
      BY <1>8, <2>1, Zenon
    <2>3. Rest(1) <=> \A i \in DOMAIN s : s[i] \in Allowed
      BY <1>3, Zenon DEF Rest
    <2> QED BY <1>10, <1>1, <2>2, <2>3, Zenon
  <1> QED BY <1>9, <1>10

\* isEmojiOnly accepts what the comments of its branches accept (main.go
\* 467-505), contents of any length, and nothing else but contents without
\* text in which a digit, # or * lacks its keycap.
THEOREM ScannerAgainstComments ==
    ASSUME NEW s \in Seq(Class)
    PROVE  IsEmojiOnly(s) <=> AsCommented(s) \/ (BareDigit(s) /\ ~HasText(s))
  <1>1. \A i \in DOMAIN s : s[i] \in Allowed <=> s[i] \notin {"letter", "invalid"}
    BY DEF Class, Allowed, EmojiRune
  <1>2. (\A i \in DOMAIN s : s[i] \in Allowed) <=> ~HasText(s)
    BY <1>1, Zenon DEF HasText
  <1>3. BareDigit(s) => s # <<>>
    BY DEF BareDigit
  <1> QED BY <1>2, <1>3, ScanIsAll, Zenon DEF AsCommented

\* "Only if followed by variation selector + keycap", says main.go 500: a digit
\* alone is accepted, as emoji_test.go 25 wants it.
THEOREM DigitPasses == IsEmojiOnly(<<"digit">>) /\ ~AsCommented(<<"digit">>)
  <1> DEFINE s == <<"digit">>
  <1>1. s \in Seq(Class) /\ s # <<>> /\ DOMAIN s = {1} /\ s[1] = "digit"
    BY DEF Class
  <1>2. \A i \in DOMAIN s : s[i] \in Allowed
    BY <1>1 DEF Allowed
  <1>3. BareDigit(s)
    BY <1>1 DEF BareDigit, Keycap
  <1> QED BY <1>1, <1>2, <1>3, ScanIsAll DEF AsCommented

-----------------------------------------------------------------------------
(* What requests and connections hold.                                     *)

\* A request's place, verb, argument and reading fit together.
RequestsOK ==
    \A q \in Request :
        /\ call[q].verb = "rename" => call[q].arg \in Name
        /\ call[q].verb = "patch" => call[q].arg \in BOOLEAN
        /\ call[q].verb = "transfer" => call[q].arg \in User
        /\ at[q] \in {"updated", "copy", "walk", "notify"} => call[q].verb = "rename"
        /\ at[q] \in {"patch", "reread"} => call[q].verb = "patch"
        /\ at[q] = "transfer" => call[q].verb = "transfer"
        /\ at[q] = "delete" => call[q].verb = "delete"
        /\ at[q] = "emit" => call[q].verb \in {"patch", "transfer", "delete"}
        /\ at[q] = "emit" /\ call[q].verb = "patch" => got[q] \in Room \union {None}
        /\ at[q] \notin {"up", "checked", "stored"}

\* A connection knows a users row when ensureUser has answered.
ConnsOK ==
    \A c \in Conn :
        /\ at[c] \in {"idle", "insert", "again", "ensured", "failed", "up", "checked", "stored"}
        /\ at[c] = "ensured" => got[c] \in Name \union {Unnamed}

Typed == TypeOK /\ RequestsOK /\ ConnsOK

\* The types hold at the start.
LEMMA TypedInit == Init => Typed
  <1> SUFFICES ASSUME Init PROVE Typed
    OBVIOUS
  <1>2. name \in Row /\ room \in Room
    BY DEF Init, Row
  <1>3. call \in [Request -> Call]
    BY DEF Init, NoCall, Call, AllVerbs
  <1>4. told \in [room : Room \union {None}, name : Row]
    BY <1>2 DEF Init
  <1>5. verbs \in Loads /\ cursor \in Request \union {None} /\ mixed \subseteq Kinds
        /\ feed \in Seq(Event) /\ Len(feed) <= FeedCap
        /\ crossed \subseteq {"room", "name", "post"} /\ untold \subseteq {"room", "name"}
    <2>1. <<>> \in Seq(Event) /\ Len(<<>>) = 0
      OBVIOUS
    <2>2. feed \in Seq(Event) /\ Len(feed) <= FeedCap
      BY <2>1, EventConstants DEF Init
    <2> QED BY <2>2, EventConstants, Zenon DEF Init
  <1>8. at \in [Goroutine -> Places] /\ got \in [Goroutine -> Row \union Room]
        /\ todo \in [Request -> SUBSET Conn] /\ cached \in [Conn -> Row] /\ draft \in [Conn -> Kinds]
        /\ \A c \in Conn : at[c] = "idle"
    BY DEF Init, Goroutine, Places, Row, Kinds
  <1>6. RequestsOK
    BY DEF Init, RequestsOK, NoCall, Goroutine
  <1>7. ConnsOK
    BY DEF Init, ConnsOK, Goroutine
  <1>9. TypeOK
    BY <1>2, <1>3, <1>4, <1>5, <1>8 DEF TypeOK
  <1> QED BY <1>6, <1>7, <1>9 DEF Typed

\* What Respond leaves in call and got has its type.
LEMMA RespondTyped ==
    ASSUME Typed, NEW g \in Goroutine, Respond(g)
    PROVE  call' \in [Request -> Call] /\ got' \in [Goroutine -> Row \union Room]
  BY DEF Typed, TypeOK, Respond, Goto, NoCall, Call, AllVerbs, Row

\* One lemma for each action.
LEMMA TypedEnsure ==
    ASSUME Typed, NEW g \in Goroutine, EnsureUser(g)
    PROVE  Typed'
  <1> USE EventConstants DEF Typed, Goroutine, EnsureUser, tables, places, conns, hub, Goto
  <1>1. TypeOK'
    BY DEF TypeOK, Row, Call, Places, AllVerbs
  <1>2. RequestsOK'
    BY DEF TypeOK, RequestsOK, Row, Call, Places, AllVerbs
  <1>3. ConnsOK'
    BY DEF TypeOK, ConnsOK, Row, Call, Places, AllVerbs
  <1> QED BY <1>1, <1>2, <1>3
\* InsertUser keeps the types.
LEMMA TypedInsert ==
    ASSUME Typed, NEW g \in Goroutine, InsertUser(g)
    PROVE  Typed'
  <1> USE EventConstants DEF Typed, Goroutine, InsertUser, tables, places, conns, hub, Goto
  <1>1. TypeOK'
    <2>1. verbs' \in Loads /\ name' \in Row /\ room' \in Room \union {None} /\ cursor' \in Request \union {None}
      BY DEF TypeOK, RequestsOK, Row
    <2>2. at' \in [Goroutine -> Places]
      BY DEF TypeOK, Places
    <2>3. call' \in [Request -> Call] /\ got' \in [Goroutine -> Row \union Room] /\ todo' \in [Request -> SUBSET Conn]
      BY DEF TypeOK, Row, Call, AllVerbs
    <2>4. cached' \in [Conn -> Row] /\ draft' \in [Conn -> Kinds]
      BY DEF TypeOK, RequestsOK, ConnsOK, Row
    <2>5. \A d \in Conn : at'[d] \in {"up", "checked", "stored"} => cached'[d] \in Name
      BY DEF TypeOK, RequestsOK, ConnsOK, Row
    <2>6. feed' \in Seq(Event) /\ Len(feed') <= FeedCap
      BY DEF TypeOK, RequestsOK, Event
    <2>7. told' \in [room : Room \union {None}, name : Row]
      BY DEF TypeOK, Row, Event
    <2>8. mixed' \subseteq Kinds /\ crossed' \subseteq {"room", "name", "post"} /\ untold' \subseteq {"room", "name"}
      BY DEF TypeOK
    <2> QED BY <2>1, <2>2, <2>3, <2>4, <2>5, <2>6, <2>7, <2>8 DEF TypeOK
  <1>2. RequestsOK'
    BY DEF TypeOK, RequestsOK, Row, Call, Places, AllVerbs
  <1>3. ConnsOK'
    BY DEF TypeOK, ConnsOK, Row, Call, Places, AllVerbs
  <1> QED BY <1>1, <1>2, <1>3

\* GetUserAgain keeps the types.
LEMMA TypedAgain ==
    ASSUME Typed, NEW g \in Goroutine, GetUserAgain(g)
    PROVE  Typed'
  <1> USE EventConstants DEF Typed, Goroutine, GetUserAgain, tables, places, conns, hub, Goto
  <1>1. TypeOK'
    BY DEF TypeOK, RequestsOK, ConnsOK, Row, Call, Places, AllVerbs
  <1>2. RequestsOK'
    BY DEF TypeOK, RequestsOK, Row, Call, Places, AllVerbs
  <1>3. ConnsOK'
    BY DEF TypeOK, ConnsOK, Row, Call, Places, AllVerbs
  <1> QED BY <1>1, <1>2, <1>3

\* GetMe keeps the types.
LEMMA TypedGetMe ==
    ASSUME Typed, NEW q \in Request, GetMe(q)
    PROVE  Typed'
  <1> USE EventConstants DEF Typed, Goroutine, GetMe, tables, places, conns, hub, Goto, Respond, NoCall, Asks
  <1>1. TypeOK'
    BY DEF TypeOK, RequestsOK, ConnsOK, Row, Call, Places, AllVerbs
  <1>2. RequestsOK'
    BY DEF TypeOK, RequestsOK, Row, Call, Places, AllVerbs
  <1>3. ConnsOK'
    BY DEF TypeOK, ConnsOK, Row, Call, Places, AllVerbs
  <1> QED BY <1>1, <1>2, <1>3

\* UpdateDisplayName keeps the types.
LEMMA TypedUpdate ==
    ASSUME Typed, NEW q \in Request, UpdateDisplayName(q)
    PROVE  Typed'
  <1> USE EventConstants DEF Typed, Goroutine, UpdateDisplayName, tables, places, conns, hub, Goto, Asks, Renaming
  <1>1. TypeOK'
    BY DEF TypeOK, RequestsOK, ConnsOK, Row, Call, Places, AllVerbs
  <1>2. RequestsOK'
    BY DEF TypeOK, RequestsOK, Row, Call, Places, AllVerbs
  <1>3. ConnsOK'
    BY DEF TypeOK, ConnsOK, Row, Call, Places, AllVerbs
  <1> QED BY <1>1, <1>2, <1>3

\* ReadBack keeps the types.
LEMMA TypedReadBack ==
    ASSUME Typed, NEW q \in Request, ReadBack(q)
    PROVE  Typed'
  <1> USE EventConstants DEF Typed, Goroutine, ReadBack, tables, places, conns, hub, Goto
  <1>1. TypeOK'
    BY DEF TypeOK, RequestsOK, ConnsOK, Row, Call, Places, AllVerbs
  <1>2. RequestsOK'
    BY DEF TypeOK, RequestsOK, Row, Call, Places, AllVerbs
  <1>3. ConnsOK'
    BY DEF TypeOK, ConnsOK, Row, Call, Places, AllVerbs
  <1> QED BY <1>1, <1>2, <1>3

\* CopyRegistry keeps the types.
LEMMA TypedCopy ==
    ASSUME Typed, NEW q \in Request, CopyRegistry(q)
    PROVE  Typed'
  <1> USE EventConstants DEF Typed, Goroutine, CopyRegistry, tables, places, conns, hub, Goto, Registered
  <1>1. TypeOK'
    BY DEF TypeOK, RequestsOK, ConnsOK, Row, Call, Places, AllVerbs
  <1>2. RequestsOK'
    BY DEF TypeOK, RequestsOK, Row, Call, Places, AllVerbs
  <1>3. ConnsOK'
    BY DEF TypeOK, ConnsOK, Row, Call, Places, AllVerbs
  <1> QED BY <1>1, <1>2, <1>3

\* SetDisplayName keeps the types.
LEMMA TypedSet ==
    ASSUME Typed, NEW q \in Request, NEW c \in Conn, SetDisplayName(q, c)
    PROVE  Typed'
  <1> USE EventConstants DEF Typed, Goroutine, SetDisplayName, tables, places, conns, hub, Goto, Registered
  <1>1. TypeOK'
    BY DEF TypeOK, RequestsOK, ConnsOK, Row, Call, Places, AllVerbs
  <1>2. RequestsOK'
    BY DEF TypeOK, RequestsOK, Row, Call, Places, AllVerbs
  <1>3. ConnsOK'
    BY DEF TypeOK, ConnsOK, Row, Call, Places, AllVerbs
  <1> QED BY <1>1, <1>2, <1>3

\* OpenRows keeps the types.
LEMMA TypedOpen ==
    ASSUME Typed, NEW q \in Request, OpenRows(q)
    PROVE  Typed'
  <1> USE EventConstants DEF Typed, Goroutine, OpenRows, tables, places, conns, hub, Goto, Respond, NoCall, Asks
  <1>1. TypeOK'
    <2>1. verbs' \in Loads /\ name' \in Row /\ room' \in Room \union {None} /\ cursor' \in Request \union {None}
      BY DEF TypeOK, RequestsOK, Row
    <2>2. at' \in [Goroutine -> Places]
      BY DEF TypeOK, Places
    <2>3. call' \in [Request -> Call] /\ got' \in [Goroutine -> Row \union Room] /\ todo' \in [Request -> SUBSET Conn]
      <3>1. CASE Respond(q)
        BY <3>1, RespondTyped DEF TypeOK
      <3>2. CASE UNCHANGED <<call, got>>
        BY <3>2 DEF TypeOK
      <3> QED BY <3>1, <3>2
    <2>4. cached' \in [Conn -> Row] /\ draft' \in [Conn -> Kinds]
      BY DEF TypeOK, RequestsOK, ConnsOK, Row
    <2>5. \A d \in Conn : at'[d] \in {"up", "checked", "stored"} => cached'[d] \in Name
      BY DEF TypeOK, RequestsOK, ConnsOK, Row
    <2>6. feed' \in Seq(Event) /\ Len(feed') <= FeedCap
      BY DEF TypeOK, RequestsOK, Event
    <2>7. told' \in [room : Room \union {None}, name : Row]
      BY DEF TypeOK, Row, Event
    <2>8. mixed' \subseteq Kinds /\ crossed' \subseteq {"room", "name", "post"} /\ untold' \subseteq {"room", "name"}
      BY DEF TypeOK
    <2> QED BY <2>1, <2>2, <2>3, <2>4, <2>5, <2>6, <2>7, <2>8 DEF TypeOK
  <1>2. RequestsOK'
    BY DEF TypeOK, RequestsOK, Row, Call, Places, AllVerbs
  <1>3. ConnsOK'
    BY DEF TypeOK, ConnsOK, Row, Call, Places, AllVerbs
  <1> QED BY <1>1, <1>2, <1>3

\* NotifyName keeps the types.
LEMMA TypedNotify ==
    ASSUME Typed, NEW q \in Request, NotifyName(q)
    PROVE  Typed'
  <1> USE EventConstants DEF Typed, Goroutine, NotifyName, tables, places, conns, hub, Goto, Respond, NoCall, Asks, Send
  <1>1. TypeOK'
    <2>1. verbs' \in Loads /\ name' \in Row /\ room' \in Room \union {None} /\ cursor' \in Request \union {None}
      BY DEF TypeOK, RequestsOK, Row
    <2>2. at' \in [Goroutine -> Places]
      BY DEF TypeOK, Places
    <2>3. call' \in [Request -> Call] /\ got' \in [Goroutine -> Row \union Room] /\ todo' \in [Request -> SUBSET Conn]
      BY DEF TypeOK, Row, Call, AllVerbs
    <2>4. cached' \in [Conn -> Row] /\ draft' \in [Conn -> Kinds]
      BY DEF TypeOK, RequestsOK, ConnsOK, Row
    <2>5. \A d \in Conn : at'[d] \in {"up", "checked", "stored"} => cached'[d] \in Name
      BY DEF TypeOK, RequestsOK, ConnsOK, Row
    <2>6. feed' \in Seq(Event) /\ Len(feed') <= FeedCap
      BY DEF TypeOK, RequestsOK, Event
    <2>7. told' \in [room : Room \union {None}, name : Row]
      BY DEF TypeOK, Row, Event
    <2>8. mixed' \subseteq Kinds /\ crossed' \subseteq {"room", "name", "post"} /\ untold' \subseteq {"room", "name"}
      BY DEF TypeOK
    <2> QED BY <2>1, <2>2, <2>3, <2>4, <2>5, <2>6, <2>7, <2>8 DEF TypeOK
  <1>2. RequestsOK'
    BY DEF TypeOK, RequestsOK, Row, Call, Places, AllVerbs
  <1>3. ConnsOK'
    BY DEF TypeOK, ConnsOK, Row, Call, Places, AllVerbs
  <1> QED BY <1>1, <1>2, <1>3

\* Register keeps the types.
LEMMA TypedRegister ==
    ASSUME Typed, NEW c \in Conn, Register(c)
    PROVE  Typed'
  <1> USE EventConstants DEF Typed, Goroutine, Register, tables, places, conns, hub, Goto, Respond, NoCall, Asks, Admits, Outdated
  <1>1. TypeOK'
    <2>1. verbs' \in Loads /\ name' \in Row /\ room' \in Room \union {None} /\ cursor' \in Request \union {None}
      BY DEF TypeOK, RequestsOK, Row
    <2>2. at' \in [Goroutine -> Places]
      BY DEF TypeOK, Places
    <2>3. call' \in [Request -> Call] /\ got' \in [Goroutine -> Row \union Room] /\ todo' \in [Request -> SUBSET Conn]
      BY DEF TypeOK, Row, Call, AllVerbs
    <2>4. cached' \in [Conn -> Row] /\ draft' \in [Conn -> Kinds]
      BY DEF TypeOK, RequestsOK, ConnsOK, Row
    <2>5. \A d \in Conn : at'[d] \in {"up", "checked", "stored"} => cached'[d] \in Name
      BY DEF TypeOK, RequestsOK, ConnsOK, Row
    <2>6. feed' \in Seq(Event) /\ Len(feed') <= FeedCap
      BY DEF TypeOK, RequestsOK, Event
    <2>7. told' \in [room : Room \union {None}, name : Row]
      BY DEF TypeOK, Row, Event
    <2>8. mixed' \subseteq Kinds /\ crossed' \subseteq {"room", "name", "post"} /\ untold' \subseteq {"room", "name"}
      BY DEF TypeOK
    <2> QED BY <2>1, <2>2, <2>3, <2>4, <2>5, <2>6, <2>7, <2>8 DEF TypeOK
  <1>2. RequestsOK'
    BY DEF TypeOK, RequestsOK, Row, Call, Places, AllVerbs
  <1>3. ConnsOK'
    BY DEF TypeOK, ConnsOK, Row, Call, Places, AllVerbs
  <1> QED BY <1>1, <1>2, <1>3

\* Disconnect keeps the types.
LEMMA TypedDisconnect ==
    ASSUME Typed, NEW c \in Conn, Disconnect(c)
    PROVE  Typed'
  <1> USE EventConstants DEF Typed, Goroutine, Disconnect, tables, places, conns, hub, Goto
  <1>1. TypeOK'
    BY DEF TypeOK, RequestsOK, ConnsOK, Row, Call, Places, AllVerbs
  <1>2. RequestsOK'
    BY DEF TypeOK, RequestsOK, Row, Call, Places, AllVerbs
  <1>3. ConnsOK'
    BY DEF TypeOK, ConnsOK, Row, Call, Places, AllVerbs
  <1> QED BY <1>1, <1>2, <1>3

\* CheckMessage keeps the types.
LEMMA TypedCheckMessage ==
    ASSUME Typed, NEW c \in Conn, CheckMessage(c)
    PROVE  Typed'
  <1> USE EventConstants DEF Typed, Goroutine, CheckMessage, tables, places, conns, hub, Goto
  <1>1. TypeOK'
    <2>1. verbs' \in Loads /\ name' \in Row /\ room' \in Room \union {None} /\ cursor' \in Request \union {None}
      BY DEF TypeOK, RequestsOK, Row
    <2>2. at' \in [Goroutine -> Places]
      BY DEF TypeOK, Places
    <2>3. call' \in [Request -> Call] /\ got' \in [Goroutine -> Row \union Room] /\ todo' \in [Request -> SUBSET Conn]
      BY DEF TypeOK, Row, Call, AllVerbs
    <2>4. cached' \in [Conn -> Row] /\ draft' \in [Conn -> Kinds]
      <3>1. PICK content \in Contents : draft' = [draft EXCEPT ![c] = Kind(content)]
        OBVIOUS
      <3>2. Kind(content) \in Kinds
        BY DEF Kind, Kinds
      <3> QED BY <3>1, <3>2 DEF TypeOK
    <2>5. \A d \in Conn : at'[d] \in {"up", "checked", "stored"} => cached'[d] \in Name
      BY DEF TypeOK, RequestsOK, ConnsOK, Row
    <2>6. feed' \in Seq(Event) /\ Len(feed') <= FeedCap
      BY DEF TypeOK, RequestsOK, Event
    <2>7. told' \in [room : Room \union {None}, name : Row]
      BY DEF TypeOK, Row, Event
    <2>8. mixed' \subseteq Kinds /\ crossed' \subseteq {"room", "name", "post"} /\ untold' \subseteq {"room", "name"}
      BY DEF TypeOK
    <2> QED BY <2>1, <2>2, <2>3, <2>4, <2>5, <2>6, <2>7, <2>8 DEF TypeOK
  <1>2. RequestsOK'
    BY DEF TypeOK, RequestsOK, Row, Call, Places, AllVerbs
  <1>3. ConnsOK'
    BY DEF TypeOK, ConnsOK, Row, Call, Places, AllVerbs
  <1> QED BY <1>1, <1>2, <1>3

\* InsertMessage keeps the types.
LEMMA TypedInsertMessage ==
    ASSUME Typed, NEW c \in Conn, InsertMessage(c)
    PROVE  Typed'
  <1> USE EventConstants DEF Typed, Goroutine, InsertMessage, tables, places, conns, hub, Goto
  <1>1. TypeOK'
    <2>1. verbs' \in Loads /\ name' \in Row /\ room' \in Room \union {None} /\ cursor' \in Request \union {None}
      BY DEF TypeOK, RequestsOK, Row
    <2>2. at' \in [Goroutine -> Places]
      BY DEF TypeOK, Places
    <2>3. call' \in [Request -> Call] /\ got' \in [Goroutine -> Row \union Room] /\ todo' \in [Request -> SUBSET Conn]
      BY DEF TypeOK, Row, Call, AllVerbs
    <2>4. cached' \in [Conn -> Row] /\ draft' \in [Conn -> Kinds]
      BY DEF TypeOK, Kinds
    <2>5. \A d \in Conn : at'[d] \in {"up", "checked", "stored"} => cached'[d] \in Name
      BY DEF TypeOK, RequestsOK, ConnsOK, Row
    <2>6. feed' \in Seq(Event) /\ Len(feed') <= FeedCap
      BY DEF TypeOK, RequestsOK, Event
    <2>7. told' \in [room : Room \union {None}, name : Row]
      BY DEF TypeOK, Row, Event
    <2>8. mixed' \subseteq Kinds /\ crossed' \subseteq {"room", "name", "post"} /\ untold' \subseteq {"room", "name"}
      <3>1. mixed' \subseteq mixed \union {draft[c]} /\ draft[c] \in Kinds
        BY DEF TypeOK
      <3> QED BY <3>1 DEF TypeOK
    <2> QED BY <2>1, <2>2, <2>3, <2>4, <2>5, <2>6, <2>7, <2>8 DEF TypeOK
  <1>2. RequestsOK'
    BY DEF TypeOK, RequestsOK, Row, Call, Places, AllVerbs
  <1>3. ConnsOK'
    BY DEF TypeOK, ConnsOK, Row, Call, Places, AllVerbs
  <1> QED BY <1>1, <1>2, <1>3

\* PublishMessage keeps the types.
LEMMA TypedPublishMessage ==
    ASSUME Typed, NEW c \in Conn, PublishMessage(c)
    PROVE  Typed'
  <1> USE EventConstants DEF Typed, Goroutine, PublishMessage, tables, places, conns, hub, Goto, Send
  <1>1. TypeOK'
    <2>1. verbs' \in Loads /\ name' \in Row /\ room' \in Room \union {None} /\ cursor' \in Request \union {None}
      BY DEF TypeOK, RequestsOK, Row
    <2>2. at' \in [Goroutine -> Places]
      BY DEF TypeOK, Places
    <2>3. call' \in [Request -> Call] /\ got' \in [Goroutine -> Row \union Room] /\ todo' \in [Request -> SUBSET Conn]
      BY DEF TypeOK, Row, Call, AllVerbs
    <2>4. cached' \in [Conn -> Row] /\ draft' \in [Conn -> Kinds]
      BY DEF TypeOK, RequestsOK, ConnsOK, Row
    <2>5. \A d \in Conn : at'[d] \in {"up", "checked", "stored"} => cached'[d] \in Name
      BY DEF TypeOK, RequestsOK, ConnsOK, Row
    <2>6. feed' \in Seq(Event) /\ Len(feed') <= FeedCap
      BY DEF TypeOK, RequestsOK, Event
    <2>7. told' \in [room : Room \union {None}, name : Row]
      BY DEF TypeOK, Row, Event
    <2>8. mixed' \subseteq Kinds /\ crossed' \subseteq {"room", "name", "post"} /\ untold' \subseteq {"room", "name"}
      BY DEF TypeOK
    <2> QED BY <2>1, <2>2, <2>3, <2>4, <2>5, <2>6, <2>7, <2>8 DEF TypeOK
  <1>2. RequestsOK'
    BY DEF TypeOK, RequestsOK, Row, Call, Places, AllVerbs
  <1>3. ConnsOK'
    BY DEF TypeOK, ConnsOK, Row, Call, Places, AllVerbs
  <1> QED BY <1>1, <1>2, <1>3

\* CheckOwner keeps the types.
LEMMA TypedCheckOwner ==
    ASSUME Typed, NEW q \in Request, CheckOwner(q)
    PROVE  Typed'
  <1> USE EventConstants DEF Typed, Goroutine, CheckOwner, tables, places, conns, hub, Goto
  <1>1. TypeOK'
    BY DEF TypeOK, RequestsOK, ConnsOK, Row, Call, Places, AllVerbs
  <1>2. RequestsOK'
    BY DEF TypeOK, RequestsOK, Row, Call, Places, AllVerbs
  <1>3. ConnsOK'
    BY DEF TypeOK, ConnsOK, Row, Call, Places, AllVerbs
  <1> QED BY <1>1, <1>2, <1>3

\* PatchRoom keeps the types.
LEMMA TypedPatch ==
    ASSUME Typed, NEW q \in Request, PatchRoom(q)
    PROVE  Typed'
  <1> USE EventConstants DEF Typed, Goroutine, PatchRoom, tables, places, conns, hub, Goto, Room
  <1>1. TypeOK'
    BY DEF TypeOK, RequestsOK, ConnsOK, Row, Call, Places, AllVerbs
  <1>2. RequestsOK'
    BY DEF TypeOK, RequestsOK, Row, Call, Places, AllVerbs
  <1>3. ConnsOK'
    BY DEF TypeOK, ConnsOK, Row, Call, Places, AllVerbs
  <1> QED BY <1>1, <1>2, <1>3

\* ReadUpdated keeps the types.
LEMMA TypedRead ==
    ASSUME Typed, NEW q \in Request, ReadUpdated(q)
    PROVE  Typed'
  <1> USE EventConstants DEF Typed, Goroutine, ReadUpdated, tables, places, conns, hub, Goto
  <1>1. TypeOK'
    <2>1. at' \in [Goroutine -> Places]
      BY DEF TypeOK, Places
    <2>2. got' \in [Goroutine -> Row \union Room]
      BY DEF TypeOK, Row
    <2>3. untold' \subseteq {"room", "name"}
      BY DEF TypeOK
    <2>4. \A d \in Conn : at'[d] \in {"up", "checked", "stored"} => cached'[d] \in Name
      BY DEF TypeOK, ConnsOK
    <2> QED BY <2>1, <2>2, <2>3, <2>4 DEF TypeOK
  <1>2. RequestsOK'
    BY DEF TypeOK, RequestsOK, Row, Call, Places, AllVerbs
  <1>3. ConnsOK'
    BY DEF TypeOK, ConnsOK, Row, Call, Places, AllVerbs
  <1> QED BY <1>1, <1>2, <1>3

\* SetRoomOwner keeps the types.
LEMMA TypedTransfer ==
    ASSUME Typed, NEW q \in Request, SetRoomOwner(q)
    PROVE  Typed'
  <1> USE EventConstants DEF Typed, Goroutine, SetRoomOwner, tables, places, conns, hub, Goto, Respond, NoCall, Asks, Room
  <1>1. TypeOK'
    <2>1. verbs' \in Loads /\ name' \in Row /\ room' \in Room \union {None} /\ cursor' \in Request \union {None}
      BY DEF TypeOK, RequestsOK, Row
    <2>2. at' \in [Goroutine -> Places]
      BY DEF TypeOK, Places
    <2>3. call' \in [Request -> Call] /\ got' \in [Goroutine -> Row \union Room] /\ todo' \in [Request -> SUBSET Conn]
      <3>1. CASE room = None
        BY <3>1, RespondTyped DEF TypeOK
      <3>2. CASE room # None
        BY <3>2 DEF TypeOK
      <3> QED BY <3>1, <3>2
    <2>4. cached' \in [Conn -> Row] /\ draft' \in [Conn -> Kinds]
      BY DEF TypeOK, RequestsOK, ConnsOK, Row
    <2>5. \A d \in Conn : at'[d] \in {"up", "checked", "stored"} => cached'[d] \in Name
      BY DEF TypeOK, RequestsOK, ConnsOK, Row
    <2>6. feed' \in Seq(Event) /\ Len(feed') <= FeedCap
      BY DEF TypeOK, RequestsOK, Event
    <2>7. told' \in [room : Room \union {None}, name : Row]
      BY DEF TypeOK, Row, Event
    <2>8. mixed' \subseteq Kinds /\ crossed' \subseteq {"room", "name", "post"} /\ untold' \subseteq {"room", "name"}
      BY DEF TypeOK
    <2> QED BY <2>1, <2>2, <2>3, <2>4, <2>5, <2>6, <2>7, <2>8 DEF TypeOK
  <1>2. RequestsOK'
    BY DEF TypeOK, RequestsOK, Row, Call, Places, AllVerbs
  <1>3. ConnsOK'
    BY DEF TypeOK, ConnsOK, Row, Call, Places, AllVerbs
  <1> QED BY <1>1, <1>2, <1>3

\* DeleteRoom keeps the types.
LEMMA TypedDelete ==
    ASSUME Typed, NEW q \in Request, DeleteRoom(q)
    PROVE  Typed'
  <1> USE EventConstants DEF Typed, Goroutine, DeleteRoom, tables, places, conns, hub, Goto
  <1>1. TypeOK'
    BY DEF TypeOK, RequestsOK, ConnsOK, Row, Call, Places, AllVerbs
  <1>2. RequestsOK'
    BY DEF TypeOK, RequestsOK, Row, Call, Places, AllVerbs
  <1>3. ConnsOK'
    BY DEF TypeOK, ConnsOK, Row, Call, Places, AllVerbs
  <1> QED BY <1>1, <1>2, <1>3

\* Fail keeps the types.
LEMMA TypedFail ==
    ASSUME Typed, NEW g \in Goroutine, Fail(g)
    PROVE  Typed'
  <1> USE EventConstants DEF Typed, Goroutine, Fail, tables, places, conns, hub, Goto, Respond, NoCall
  <1>1. TypeOK'
    <2>1. call' \in [Request -> Call] /\ got' \in [Goroutine -> Row \union Room]
      BY RespondTyped
    <2>2. at' \in [Goroutine -> Places]
      BY DEF TypeOK, Places
    <2>3. \A d \in Conn : at'[d] \in {"up", "checked", "stored"} => cached'[d] \in Name
      BY DEF TypeOK
    <2> QED BY <2>1, <2>2, <2>3 DEF TypeOK
  <1>2. RequestsOK'
    BY DEF TypeOK, RequestsOK
  <1>3. ConnsOK'
    BY DEF TypeOK, ConnsOK
  <1> QED BY <1>1, <1>2, <1>3

\* Send appends an event to a channel that has room.
LEMMA SendTyped ==
    ASSUME Typed, NEW event \in Event, Send(event)
    PROVE  feed' \in Seq(Event) /\ Len(feed') <= FeedCap
  BY EventConstants DEF Typed, TypeOK, Send

\* Emit keeps the types.
LEMMA TypedEmit ==
    ASSUME Typed, NEW q \in Request, Emit(q)
    PROVE  Typed'
  <1> USE EventConstants DEF Typed, Goroutine, Emit, tables, places, conns, hub, Goto, Respond, NoCall, Asks, Send
  <1>1. TypeOK'
    <2>1. verbs' \in Loads /\ name' \in Row /\ room' \in Room \union {None} /\ cursor' \in Request \union {None}
      BY DEF TypeOK, RequestsOK, Row
    <2>2. at' \in [Goroutine -> Places]
      BY DEF TypeOK, Places
    <2>3. call' \in [Request -> Call] /\ got' \in [Goroutine -> Row \union Room] /\ todo' \in [Request -> SUBSET Conn]
      BY DEF TypeOK, Row, Call, AllVerbs
    <2>4. cached' \in [Conn -> Row] /\ draft' \in [Conn -> Kinds]
      BY DEF TypeOK, RequestsOK, ConnsOK, Row
    <2>5. \A d \in Conn : at'[d] \in {"up", "checked", "stored"} => cached'[d] \in Name
      BY DEF TypeOK, RequestsOK, ConnsOK, Row
    <2>6. feed' \in Seq(Event) /\ Len(feed') <= FeedCap
      <3>1. call[q].verb \in {"patch", "transfer", "delete"}
        BY DEF RequestsOK
      <3>2. CASE call[q].verb = "patch"
        <4>1. got[q] # None => [type |-> "room_updated", room |-> got[q]] \in Event
          BY <3>2 DEF RequestsOK, Event
        <4>2. got[q] # None => Send([type |-> "room_updated", room |-> got[q]])
          BY <3>2 DEF Send
        <4>3. got[q] = None => feed' = feed
          BY <3>2
        <4> QED BY <4>1, <4>2, <4>3, SendTyped, Zenon DEF TypeOK
      <3>3. CASE call[q].verb = "transfer"
        <4>1. [type |-> "owner_changed", owner |-> call[q].arg] \in Event
          BY <3>3 DEF RequestsOK, Event
        <4>2. Send([type |-> "owner_changed", owner |-> call[q].arg])
          BY <3>3 DEF Send
        <4> QED BY <4>1, <4>2, SendTyped, Zenon
      <3>4. CASE call[q].verb = "delete"
        <4>1. [type |-> "room_deleted"] \in Event
          BY DEF Event
        <4>2. Send([type |-> "room_deleted"])
          BY <3>4 DEF Send
        <4> QED BY <4>1, <4>2, SendTyped, Zenon
      <3> QED BY <3>1, <3>2, <3>3, <3>4
    <2>7. told' \in [room : Room \union {None}, name : Row]
      BY DEF TypeOK, Row, Event
    <2>8. mixed' \subseteq Kinds /\ crossed' \subseteq {"room", "name", "post"} /\ untold' \subseteq {"room", "name"}
      BY DEF TypeOK
    <2> QED BY <2>1, <2>2, <2>3, <2>4, <2>5, <2>6, <2>7, <2>8 DEF TypeOK
  <1>2. RequestsOK'
    BY DEF TypeOK, RequestsOK, Row, Call, Places, AllVerbs
  <1>3. ConnsOK'
    BY DEF TypeOK, ConnsOK, Row, Call, Places, AllVerbs
  <1> QED BY <1>1, <1>2, <1>3

\* What the page makes of an event is of its type.
LEMMA ShownTyped ==
    ASSUME NEW event \in Event, told \in [room : Room \union {None}, name : Row]
    PROVE  Shown(event) \in [room : Room \union {None}, name : Row]
  BY DEF Shown, Event, Room, Row

\* Fanout keeps the types.
LEMMA TypedFanout ==
    ASSUME Typed, Fanout
    PROVE  Typed'
  <1> USE EventConstants DEF Typed, Goroutine, Fanout, tables, places, conns, hub, Goto, Shown
  <1>1. TypeOK'
    <2>1. verbs' \in Loads /\ name' \in Row /\ room' \in Room \union {None} /\ cursor' \in Request \union {None}
      BY DEF TypeOK, RequestsOK, Row
    <2>2. at' \in [Goroutine -> Places]
      BY DEF TypeOK, Places
    <2>3. call' \in [Request -> Call] /\ got' \in [Goroutine -> Row \union Room] /\ todo' \in [Request -> SUBSET Conn]
      BY DEF TypeOK, Row, Call, AllVerbs
    <2>4. cached' \in [Conn -> Row] /\ draft' \in [Conn -> Kinds]
      BY DEF TypeOK, RequestsOK, ConnsOK, Row
    <2>5. \A d \in Conn : at'[d] \in {"up", "checked", "stored"} => cached'[d] \in Name
      BY DEF TypeOK, RequestsOK, ConnsOK, Row
    <2>6. feed' \in Seq(Event) /\ Len(feed') <= FeedCap
      BY DEF TypeOK, RequestsOK, Event
    <2>7. told' \in [room : Room \union {None}, name : Row]
      <3>1. Head(feed) \in Event
        BY DEF TypeOK
      <3> QED BY <3>1, ShownTyped DEF TypeOK
    <2>8. mixed' \subseteq Kinds /\ crossed' \subseteq {"room", "name", "post"} /\ untold' \subseteq {"room", "name"}
      BY DEF TypeOK
    <2> QED BY <2>1, <2>2, <2>3, <2>4, <2>5, <2>6, <2>7, <2>8 DEF TypeOK
  <1>2. RequestsOK'
    BY DEF TypeOK, RequestsOK, Row, Call, Places, AllVerbs
  <1>3. ConnsOK'
    BY DEF TypeOK, ConnsOK, Row, Call, Places, AllVerbs
  <1> QED BY <1>1, <1>2, <1>3

-----------------------------------------------------------------------------
(* What waits in the hub and what the page will show.                      *)

\* What an event says of a field of the page, and what the page shows.
Sets(event, field) ==
    CASE field = "owner" -> event.type \in {"room_updated", "owner_changed"}
      [] field = "emoji" -> event.type = "room_updated"
      [] field = "name" -> event.type = "name_changed"

Value(event, field) ==
    CASE field = "owner" -> IF event.type = "room_updated" THEN event.room.owner ELSE event.owner
      [] field = "emoji" -> event.room.emoji
      [] field = "name" -> event.name

Page(field) ==
    CASE field = "owner" -> told.room.owner
      [] field = "emoji" -> told.room.emoji
      [] field = "name" -> told.name

Later(i) == {k \in 1 .. Len(feed) : i < k}

\* When the hub has handed out what waits in feed, the page's field is value.
Arrives(field, value) ==
    /\ \A i \in 1 .. Len(feed) :
          Sets(feed[i], field) /\ (\A k \in Later(i) : ~Sets(feed[k], field))
          => Value(feed[i], field) = value
    /\ (\A i \in 1 .. Len(feed) : ~Sets(feed[i], field)) => Page(field) = value

\* An event that does not set the field comes behind.
LEMMA AppendOther ==
    ASSUME Typed, NEW event \in Event, feed' = Append(feed, event), told' = told,
           NEW field \in {"owner", "emoji", "name"}, NEW value,
           Arrives(field, value), ~Sets(event, field)
    PROVE  Arrives(field, value)'
  <1>1. feed \in Seq(Event) /\ Len(feed) \in Nat
    BY DEF Typed, TypeOK
  <1>2. Len(feed') = Len(feed) + 1 /\ feed'[Len(feed) + 1] = event
        /\ \A i \in 1 .. Len(feed) : feed'[i] = feed[i]
    BY <1>1
  <1>3. Page(field)' = Page(field)
    BY DEF Page
  <1>4. ASSUME NEW i \in 1 .. Len(feed'), Sets(feed'[i], field), \A k \in Later(i)' : ~Sets(feed'[k], field)
        PROVE  Value(feed'[i], field) = value
    <2>1. i \in 1 .. Len(feed) /\ feed'[i] = feed[i]
      <3>1. i # Len(feed) + 1
        BY <1>2, <1>4, Zenon
      <3> QED BY <1>1, <1>2, <1>4, <3>1
    <2>2. ASSUME NEW k \in Later(i) PROVE ~Sets(feed[k], field)
      <3>1. k \in Later(i)' /\ feed'[k] = feed[k]
        BY <1>1, <1>2, <2>2 DEF Later
      <3> QED BY <3>1, <1>4, Zenon
    <2> QED BY <2>1, <2>2, <1>4, Zenon DEF Arrives
  <1>5. ASSUME \A i \in 1 .. Len(feed') : ~Sets(feed'[i], field)
        PROVE  Page(field)' = value
    <2>1. ASSUME NEW i \in 1 .. Len(feed) PROVE ~Sets(feed[i], field)
      <3>1. i \in 1 .. Len(feed') /\ feed'[i] = feed[i]
        BY <1>1, <1>2
      <3> QED BY <3>1, <1>5, Zenon
    <2> QED BY <2>1, <1>3, Zenon DEF Arrives
  <1> QED BY <1>4, <1>5, Zenon DEF Arrives

\* An event that sets the field comes behind: its value arrives.
LEMMA AppendSame ==
    ASSUME Typed, NEW event \in Event, feed' = Append(feed, event),
           NEW field \in {"owner", "emoji", "name"},
           Sets(event, field)
    PROVE  Arrives(field, Value(event, field))'
  <1>1. feed \in Seq(Event) /\ Len(feed) \in Nat
    BY DEF Typed, TypeOK
  <1>2. Len(feed') = Len(feed) + 1 /\ feed'[Len(feed) + 1] = event
    BY <1>1
  <1>3. Len(feed) + 1 \in 1 .. Len(feed')
    BY <1>1, <1>2
  <1>4. ASSUME NEW i \in 1 .. Len(feed'), \A k \in Later(i)' : ~Sets(feed'[k], field)
        PROVE  feed'[i] = event
    <2>1. Len(feed) + 1 \notin Later(i)'
      BY <1>2, <1>4, Zenon
    <2>2. i = Len(feed) + 1
      BY <1>1, <1>2, <2>1 DEF Later
    <2> QED BY <2>2, <1>2
  <1> QED BY <1>2, <1>3, <1>4, Zenon DEF Arrives

\* The hub hands out the first event.
LEMMA FanoutKeeps ==
    ASSUME Typed, Fanout, NEW field \in {"owner", "emoji", "name"}, NEW value,
           Arrives(field, value),
           field = "name" \/ (told.room # None /\ Head(feed).type # "room_deleted")
    PROVE  Arrives(field, value)'
  <1>1. feed \in Seq(Event) /\ Len(feed) \in Nat \ {0} /\ Head(feed) = feed[1] /\ feed[1] \in Event
        /\ 1 \in 1 .. Len(feed)
    BY DEF Typed, TypeOK, Fanout
  <1>2. Len(feed') = Len(feed) - 1 /\ \A i \in 1 .. Len(feed) - 1 : feed'[i] = feed[i + 1]
    BY <1>1 DEF Fanout
  <1>3. ASSUME NEW i \in 1 .. Len(feed'), Sets(feed'[i], field), \A k \in Later(i)' : ~Sets(feed'[k], field)
        PROVE  Value(feed'[i], field) = value
    <2>1. i + 1 \in 1 .. Len(feed) /\ feed'[i] = feed[i + 1]
      BY <1>1, <1>2, <1>3
    <2>2. ASSUME NEW k \in Later(i + 1) PROVE ~Sets(feed[k], field)
      <3>1. k - 1 \in Later(i)' /\ feed'[k - 1] = feed[k]
        <4>1. k \in Nat /\ i \in Nat /\ i + 1 < k /\ k <= Len(feed)
          BY <1>1, <1>2, <2>2 DEF Later
        <4>2. k - 1 \in 1 .. Len(feed) - 1 /\ (k - 1) + 1 = k /\ i < k - 1
          BY <4>1, <1>1
        <4>3. feed'[k - 1] = feed[(k - 1) + 1]
          BY <4>2, <1>2, Zenon
        <4> QED BY <4>2, <4>3, <1>2 DEF Later
      <3> QED BY <3>1, <1>3, Zenon
    <2> QED BY <2>1, <2>2, <1>3, Zenon DEF Arrives
  <1>4. ASSUME \A i \in 1 .. Len(feed') : ~Sets(feed'[i], field)
        PROVE  Page(field)' = value
    <2>1. ASSUME NEW i \in 1 .. Len(feed), i # 1 PROVE ~Sets(feed[i], field)
      <3>1. i - 1 \in 1 .. Len(feed) - 1 /\ (i - 1) + 1 = i
        BY <1>1, <2>1
      <3>2. i - 1 \in 1 .. Len(feed') /\ feed'[i - 1] = feed[i]
        BY <3>1, <1>2
      <3> QED BY <3>2, <1>4, Zenon
    <2>2. told' = Shown(feed[1])
      BY <1>1 DEF Fanout
    <2>3. told \in [room : Room \union {None}, name : Row]
      BY DEF Typed, TypeOK
    <2>4. CASE Sets(feed[1], field)
      <3>1. 1 \notin Later(1) /\ \A k \in Later(1) : k \in 1 .. Len(feed) /\ k # 1
        BY <1>1 DEF Later
      <3>2. Value(feed[1], field) = value
        BY <1>1, <2>1, <2>4, <3>1, Zenon DEF Arrives
      <3>3. Page(field)' = Value(feed[1], field)
        BY <1>1, <2>2, <2>3, <2>4 DEF Page, Value, Sets, Shown, Event, Room
      <3> QED BY <3>2, <3>3
    <2>5. CASE ~Sets(feed[1], field)
      <3>1. Page(field) = value
        BY <2>1, <2>5, Zenon DEF Arrives
      <3>2. Page(field)' = Page(field)
        BY <1>1, <2>2, <2>3, <2>5 DEF Page, Sets, Shown, Event, Room
      <3> QED BY <3>1, <3>2
    <2> QED BY <2>4, <2>5
  <1> QED BY <1>3, <1>4, Zenon DEF Arrives

-----------------------------------------------------------------------------
(* The room: an event on its way, or the row on the page.                  *)

\* What has been marked as crossed stays so, and what a step keeps untold.
Marked == crossed \subseteq crossed'
Kept(what) == what \in untold => what \in untold'

\* A request that has written the row and has yet to tell of it.
RoomPending(q) == at[q] \in {"reread", "emit"}

\* A deleted room is about to leave the page, another one stays there.
Gone ==
    /\ room = None =>
          \/ told.room = None
          \/ \E i \in 1 .. Len(feed) : feed[i].type = "room_deleted"
          \/ \E q \in Request : at[q] = "emit" /\ call[q].verb = "delete"
    /\ room # None =>
          /\ told.room # None
          /\ \A i \in 1 .. Len(feed) : feed[i].type # "room_deleted"
          /\ \A q \in Request : ~(at[q] = "emit" /\ call[q].verb = "delete")

\* A request that has read or written the row and has yet to tell.
Holding(q) == at[q] = "emit" /\ call[q].verb \in {"patch", "transfer"}

\* One that will tell: an edit whose row could not be read again will not.
Tells(q) == Holding(q) /\ (call[q].verb = "patch" => got[q] # None)

\* What it has to tell is the row.
Fresh ==
    \A q \in Request : Tells(q) =>
        IF call[q].verb = "patch" THEN got[q] = room ELSE call[q].arg = room.owner

\* The row's owner and flag will be shown, or somebody has yet to tell.
OwnerComes ==
    \/ Arrives("owner", room.owner)
    \/ \E q \in Request : at[q] = "reread" \/ Tells(q)

EmojiComes ==
    \/ Arrives("emoji", room.emoji)
    \/ \E q \in Request : at[q] = "reread" \/ (Tells(q) /\ call[q].verb = "patch")

RoomInv ==
    /\ Gone
    /\ "room" \notin crossed /\ room # None =>
          Fresh /\ ("room" \notin untold => OwnerComes /\ EmojiComes)

\* The page shows the row at the start.
LEMMA RoomInit == Init => RoomInv
  <1> SUFFICES ASSUME Init PROVE RoomInv
    OBVIOUS
  <1>1. Len(feed) = 0 /\ told.room = room
    BY DEF Init
  <1>2. 1 .. Len(feed) = {}
    BY <1>1
  <1>3. \A q \in Request : at[q] = "idle"
    BY DEF Init, Goroutine
  <1>4. Arrives("owner", room.owner) /\ Arrives("emoji", room.emoji)
    BY <1>1, <1>2, Zenon DEF Arrives, Page
  <1>5. room # None
    BY EventConstants DEF Init
  <1>6. Gone
    BY <1>1, <1>2, <1>3, <1>5 DEF Gone
  <1>7. Fresh
    BY <1>3 DEF Fresh, Tells, Holding
  <1> QED BY <1>4, <1>6, <1>7 DEF RoomInv, OwnerComes, EmojiComes

\* What touches neither the row nor what is on its way to the pages.
LEMMA RoomFrame ==
    ASSUME Typed, RoomInv, UNCHANGED <<room, feed, told>>, Marked, Kept("room"),
           \A p \in Request : \/ at'[p] = at[p] /\ call'[p] = call[p] /\ got'[p] = got[p]
                              \/ ~RoomPending(p) /\ ~RoomPending(p)'
    PROVE  RoomInv'
  <1>1. \A p \in Request : Tells(p)' <=> Tells(p)
    BY DEF Tells, Holding, RoomPending
  <1>2. \A p \in Request : (at'[p] = "reread") <=> (at[p] = "reread")
    BY DEF RoomPending
  <1>3. \A p \in Request : (at'[p] = "emit" /\ call'[p].verb = "delete") <=> (at[p] = "emit" /\ call[p].verb = "delete")
    BY DEF RoomPending
  <1>4. \A p \in Request : Tells(p) => call'[p] = call[p] /\ got'[p] = got[p]
    BY DEF Tells, Holding, RoomPending
  <1>5. \A field \in {"owner", "emoji"} : \A value : Arrives(field, value)' <=> Arrives(field, value)
    BY DEF Arrives, Later, Page
  <1>6. Gone'
    BY <1>3, Zenon DEF RoomInv, Gone
  <1>7. Fresh => Fresh'
    BY <1>1, <1>4 DEF Fresh
  <1>8. (OwnerComes => OwnerComes') /\ (EmojiComes => EmojiComes')
    BY <1>1, <1>2, <1>4, <1>5 DEF OwnerComes, EmojiComes
  <1> QED BY <1>6, <1>7, <1>8 DEF RoomInv, Marked, Kept

\* An event that has nothing to do with the row.
LEMMA RoomOther ==
    ASSUME Typed, RoomInv, UNCHANGED <<room, told>>, Marked, Kept("room"),
           NEW event \in Event, feed' = Append(feed, event),
           event.type \notin {"room_updated", "owner_changed", "room_deleted"},
           \A p \in Request : \/ at'[p] = at[p] /\ call'[p] = call[p] /\ got'[p] = got[p]
                              \/ ~RoomPending(p) /\ ~RoomPending(p)'
    PROVE  RoomInv'
  <1>1. \A p \in Request : Tells(p)' <=> Tells(p)
    BY DEF Tells, Holding, RoomPending
  <1>2. \A p \in Request : (at'[p] = "reread") <=> (at[p] = "reread")
    BY DEF RoomPending
  <1>3. \A p \in Request : (at'[p] = "emit" /\ call'[p].verb = "delete") <=> (at[p] = "emit" /\ call[p].verb = "delete")
    BY DEF RoomPending
  <1>4. \A p \in Request : Tells(p) => call'[p] = call[p] /\ got'[p] = got[p]
    BY DEF Tells, Holding, RoomPending
  <1>5. \A field \in {"owner", "emoji"} : \A value : Arrives(field, value) => Arrives(field, value)'
    BY AppendOther DEF Sets
  <1>6. Gone'
    <2>1. feed \in Seq(Event)
      BY DEF Typed, TypeOK
    <2>2. Len(feed') = Len(feed) + 1 /\ feed'[Len(feed) + 1] = event /\ \A i \in 1 .. Len(feed) : feed'[i] = feed[i]
      BY <2>1
    <2>3. (\E i \in 1 .. Len(feed) : feed[i].type = "room_deleted") => \E i \in 1 .. Len(feed') : feed'[i].type = "room_deleted"
      BY <2>1, <2>2
    <2>4. (\A i \in 1 .. Len(feed) : feed[i].type # "room_deleted") => \A i \in 1 .. Len(feed') : feed'[i].type # "room_deleted"
      BY <2>1, <2>2
    <2> QED BY <1>3, <2>3, <2>4, Zenon DEF RoomInv, Gone
  <1>7. Fresh => Fresh'
    BY <1>1, <1>4 DEF Fresh
  <1>8. (OwnerComes => OwnerComes') /\ (EmojiComes => EmojiComes')
    BY <1>1, <1>2, <1>4, <1>5 DEF OwnerComes, EmojiComes
  <1> QED BY <1>6, <1>7, <1>8 DEF RoomInv, Marked, Kept

\* The actions that touch the row or tell of it.
LEMMA RoomPatch ==
    ASSUME Typed, RoomInv, NEW q \in Request, PatchRoom(q)
    PROVE  RoomInv'
  <1> USE DEF PatchRoom, Goto, hub
  <1>1. at' = [at EXCEPT ![q] = "reread"] /\ at[q] = "patch" /\ q \in Goroutine /\ at \in [Goroutine -> Places]
    BY DEF Goroutine, Typed, TypeOK
  <1>2. at'[q] = "reread" /\ \A p \in Request \ {q} : at'[p] = at[p]
    BY <1>1 DEF Goroutine
  <1>3. (room' = None) <=> (room = None)
    BY EventConstants DEF Typed, TypeOK, RequestsOK, Room
  <1>4. Gone'
    BY <1>1, <1>2, <1>3 DEF RoomInv, Gone
  <1>5. ASSUME "room" \notin crossed' PROVE Fresh'
    <2>1. \A p \in Request \ {q} : ~Holding(p)
      BY <1>5 DEF Overtakes, Holding
    <2>2. \A p \in Request : ~Holding(p)'
      BY <1>2, <2>1 DEF Holding
    <2> QED BY <2>2 DEF Fresh, Tells
  <1> QED BY <1>2, <1>4, <1>5 DEF RoomInv, OwnerComes, EmojiComes

\* The row an edit has read is the row, or a write has overtaken it; if it
\* could not be read the edit is marked as untold.
LEMMA RoomRead ==
    ASSUME Typed, RoomInv, NEW q \in Request, ReadUpdated(q)
    PROVE  RoomInv'
  <1> USE DEF ReadUpdated, Goto, hub
  <1>1. /\ at' = [at EXCEPT ![q] = "emit"] /\ at[q] = "reread" /\ q \in Goroutine
        /\ at \in [Goroutine -> Places] /\ got \in [Goroutine -> Row \union Room]
        /\ call[q].verb = "patch"
    BY DEF Goroutine, Typed, TypeOK, RequestsOK
  <1>2. at'[q] = "emit" /\ \A p \in Request \ {q} : at'[p] = at[p] /\ got'[p] = got[p]
    BY <1>1 DEF Goroutine
  <1>3. UNCHANGED <<room, feed, told, call, crossed>>
    BY DEF tables
  <1>4. Gone'
    BY <1>1, <1>2, <1>3 DEF RoomInv, Gone
  <1>5. got'[q] \in {room, None} /\ ("room" \notin untold' => got'[q] = room)
    BY <1>1
  <1>6. Fresh => Fresh'
    BY <1>1, <1>2, <1>3, <1>5 DEF Fresh, Tells, Holding
  <1>7. ASSUME "room" \notin untold', room # None PROVE OwnerComes' /\ EmojiComes'
    <2>1. Tells(q)'
      BY <1>1, <1>2, <1>3, <1>5, <1>7 DEF Tells, Holding
    <2> QED BY <1>1, <1>3, <2>1 DEF OwnerComes, EmojiComes
  <1> QED BY <1>3, <1>4, <1>6, <1>7 DEF RoomInv

\* Who has written a new owner is the one who will tell it.
LEMMA RoomTransfer ==
    ASSUME Typed, RoomInv, NEW q \in Request, SetRoomOwner(q), room # None
    PROVE  RoomInv'
  <1> USE DEF SetRoomOwner, Goto, hub
  <1>1. at' = [at EXCEPT ![q] = "emit"] /\ at[q] = "transfer" /\ q \in Goroutine /\ at \in [Goroutine -> Places]
        /\ call[q].verb = "transfer"
    BY DEF Goroutine, Typed, TypeOK, RequestsOK
  <1>2. at'[q] = "emit" /\ \A p \in Request \ {q} : at'[p] = at[p]
    BY <1>1 DEF Goroutine
  <1>3. UNCHANGED <<feed, told, call, got>> /\ crossed \subseteq crossed' /\ untold' = untold
    BY DEF Typed
  <1>4. room' # None /\ room'.owner = call[q].arg /\ room'.emoji = room.emoji
    BY EventConstants DEF Typed, TypeOK, Room, RequestsOK
  <1>5. Gone'
    BY <1>1, <1>2, <1>3, <1>4 DEF RoomInv, Gone
  <1>6. ASSUME "room" \notin crossed'
        PROVE  Fresh' /\ ("room" \notin untold => OwnerComes' /\ EmojiComes')
    <2>1. \A p \in Request \ {q} : ~Holding(p)
      BY <1>6 DEF Overtakes, Holding
    <2>2. Fresh'
      BY <1>1, <1>2, <1>3, <1>4, <2>1 DEF Fresh, Tells, Holding
    <2>3. OwnerComes'
      BY <1>1, <1>2, <1>3 DEF OwnerComes, Tells, Holding
    <2>4. "room" \notin untold => EmojiComes
      BY <1>3, <1>6 DEF RoomInv
    <2>5. ASSUME "room" \notin untold PROVE EmojiComes'
      <3>1. CASE \E p \in Request : at[p] = "reread"
        BY <3>1, <1>1, <1>2 DEF EmojiComes
      <3>2. CASE Arrives("emoji", room.emoji)
        <4>1. Arrives("emoji", room.emoji)'
          BY <3>2, <1>3, <1>4 DEF Arrives, Later, Page
        <4> QED BY <4>1 DEF EmojiComes
      <3>3. \A p \in Request : ~(Tells(p) /\ call[p].verb = "patch")
        BY <1>1, <2>1 DEF Tells, Holding
      <3> QED BY <2>4, <2>5, <3>1, <3>2, <3>3 DEF EmojiComes
    <2> QED BY <2>2, <2>3, <2>5
  <1> QED BY <1>3, <1>5, <1>6 DEF RoomInv

\* Who has deleted the room is the one who will tell it.
LEMMA RoomDelete ==
    ASSUME Typed, RoomInv, NEW q \in Request, DeleteRoom(q)
    PROVE  RoomInv'
  <1>1. at' = [at EXCEPT ![q] = "emit"] /\ q \in Goroutine /\ at \in [Goroutine -> Places]
        /\ call[q].verb = "delete" /\ room' = None /\ call' = call
    BY DEF Goroutine, Typed, TypeOK, RequestsOK, DeleteRoom, Goto
  <1> QED BY <1>1 DEF RoomInv, Gone

\* An event in the channel arrives in its sender's place.
LEMMA RoomEmit ==
    ASSUME Typed, RoomInv, NEW q \in Request, Emit(q)
    PROVE  RoomInv'
  <1> USE DEF Goto, hub
  <1>1. at[q] = "emit" /\ at' = [at EXCEPT ![q] = "idle"] /\ got' = [got EXCEPT ![q] = None]
        /\ call' = [call EXCEPT ![q] = NoCall] /\ q \in Goroutine
        /\ at \in [Goroutine -> Places] /\ call \in [Request -> Call] /\ got \in [Goroutine -> Row \union Room]
        /\ call[q].verb \in {"patch", "transfer", "delete"}
        /\ UNCHANGED <<room, told, crossed, untold>>
    BY DEF Emit, Respond, Goroutine, Typed, TypeOK, RequestsOK, tables
  <1>2. at'[q] = "idle" /\ \A p \in Request \ {q} : at'[p] = at[p] /\ call'[p] = call[p] /\ got'[p] = got[p]
    BY <1>1 DEF Goroutine
  <1>3. feed \in Seq(Event)
    BY DEF Typed, TypeOK
  <1>4. Fresh => Fresh'
    BY <1>1, <1>2 DEF Fresh, Tells, Holding
  <1>5. CASE call[q].verb = "patch"
    <2>1. CASE got[q] = None
      <3>1. feed' = feed
        BY <1>5, <2>1 DEF Emit, Asks
      <3>2. Gone'
        BY <1>1, <1>2, <1>5, <3>1 DEF RoomInv, Gone
      <3>3. \A p \in Request : (at[p] = "reread" => at'[p] = "reread") /\ (Tells(p) => Tells(p)' /\ call'[p] = call[p])
        BY <1>1, <1>2, <1>5, <2>1 DEF Tells, Holding
      <3>4. \A field \in {"owner", "emoji"} : \A value : Arrives(field, value)' <=> Arrives(field, value)
        BY <1>1, <3>1 DEF Arrives, Later, Page
      <3>5. (OwnerComes => OwnerComes') /\ (EmojiComes => EmojiComes')
        BY <1>1, <3>3, <3>4 DEF OwnerComes, EmojiComes
      <3> QED BY <1>1, <1>4, <3>2, <3>5 DEF RoomInv
    <2>2. CASE got[q] # None
      <3> DEFINE event == [type |-> "room_updated", room |-> got[q]]
      <3>1. feed' = Append(feed, event)
        BY <1>5, <2>2 DEF Emit, Asks, Send
      <3>2. event \in Event
        BY <1>1, <1>5, <2>2 DEF Event, Typed, RequestsOK
      <3>3. Gone'
        <4>1. Len(feed') = Len(feed) + 1 /\ feed'[Len(feed) + 1] = event /\ \A i \in 1 .. Len(feed) : feed'[i] = feed[i]
          BY <1>3, <3>1
        <4>2. \A i \in 1 .. Len(feed) : i \in 1 .. Len(feed')
          BY <1>3, <4>1
        <4>3. \A i \in 1 .. Len(feed') : i \in 1 .. Len(feed) \/ feed'[i].type = "room_updated"
          BY <1>3, <4>1
        <4> QED BY <1>1, <1>2, <1>5, <4>1, <4>2, <4>3 DEF RoomInv, Gone
      <3>4. ASSUME "room" \notin crossed', room' # None PROVE Fresh' /\ OwnerComes' /\ EmojiComes'
        <4>1. got[q] = room /\ room' = room
          BY <1>1, <1>5, <2>2, <3>4 DEF RoomInv, Fresh, Tells, Holding
        <4>2. PICK e \in Event : e = event
          BY <3>2
        <4>3. Sets(e, "owner") /\ Value(e, "owner") = room.owner
              /\ Sets(e, "emoji") /\ Value(e, "emoji") = room.emoji
          BY <4>1, <4>2 DEF Sets, Value
        <4>4. Arrives("owner", Value(e, "owner"))' /\ Arrives("emoji", Value(e, "emoji"))'
          BY <3>1, <4>2, <4>3, AppendSame
        <4>5. Arrives("owner", room.owner)' /\ Arrives("emoji", room.emoji)'
          BY <4>1, <4>3, <4>4, Zenon DEF Arrives
        <4> QED BY <1>1, <1>4, <3>4, <4>5 DEF RoomInv, OwnerComes, EmojiComes
      <3> QED BY <3>3, <3>4 DEF RoomInv
    <2> QED BY <2>1, <2>2
  <1>6. CASE call[q].verb = "transfer"
    <2> DEFINE event == [type |-> "owner_changed", owner |-> call[q].arg]
    <2>1. feed' = Append(feed, event)
      BY <1>6 DEF Emit, Asks, Send
    <2>2. event \in Event
      BY <1>1, <1>6 DEF Event, Typed, RequestsOK
    <2>3. Gone'
      <3>1. Len(feed') = Len(feed) + 1 /\ feed'[Len(feed) + 1] = event /\ \A i \in 1 .. Len(feed) : feed'[i] = feed[i]
        BY <1>3, <2>1
      <3>2. \A i \in 1 .. Len(feed) : i \in 1 .. Len(feed')
        BY <1>3, <3>1
      <3>3. \A i \in 1 .. Len(feed') : i \in 1 .. Len(feed) \/ feed'[i].type = "owner_changed"
        BY <1>3, <3>1
      <3> QED BY <1>1, <1>2, <1>6, <3>1, <3>2, <3>3 DEF RoomInv, Gone
    <2>4. ASSUME "room" \notin crossed', room' # None
          PROVE  Fresh' /\ ("room" \notin untold => OwnerComes' /\ EmojiComes')
      <3>1. Fresh /\ ("room" \notin untold => EmojiComes) /\ call[q].arg = room.owner /\ room' = room
        BY <1>1, <1>6, <2>4 DEF RoomInv, Fresh, Tells, Holding
      <3>2. PICK e \in Event : e = event
        BY <2>2
      <3>3. Sets(e, "owner") /\ Value(e, "owner") = room.owner /\ ~Sets(e, "emoji")
        BY <3>1, <3>2 DEF Sets, Value
      <3>4. Arrives("owner", room.owner)'
        <4>1. Arrives("owner", Value(e, "owner"))'
          BY <2>1, <3>2, <3>3, AppendSame
        <4> QED BY <3>1, <3>3, <4>1, Zenon DEF Arrives
      <3>5. Arrives("emoji", room.emoji) => Arrives("emoji", room.emoji)'
        <4>1. \A v : Arrives("emoji", v) => Arrives("emoji", v)'
          BY <1>1, <2>1, <3>2, <3>3, AppendOther
        <4> QED BY <3>1, <4>1, Zenon DEF Arrives
      <3>6. "room" \notin untold => EmojiComes'
        BY <1>1, <1>2, <1>6, <3>1, <3>5 DEF EmojiComes, Tells, Holding
      <3> QED BY <1>4, <3>1, <3>4, <3>6 DEF OwnerComes
    <2> QED BY <1>1, <2>3, <2>4 DEF RoomInv
  <1>7. CASE call[q].verb = "delete"
    <2>1. room = None
      BY <1>1, <1>7 DEF RoomInv, Gone
    <2>2. feed' = Append(feed, [type |-> "room_deleted"])
      BY <1>7 DEF Emit, Asks, Send
    <2>3. Len(feed) + 1 \in 1 .. Len(feed') /\ feed'[Len(feed) + 1].type = "room_deleted"
      BY <1>3, <2>2
    <2> QED BY <1>1, <2>1, <2>3 DEF RoomInv, Gone
  <1> QED BY <1>1, <1>5, <1>6, <1>7

\* Handing out an event leaves what arrives in the end as it was.
LEMMA RoomDelivered ==
    ASSUME Typed, RoomInv, Fanout
    PROVE  RoomInv'
  <1>1. UNCHANGED <<room, at, call, got, crossed, untold>>
    BY DEF Fanout, tables, places
  <1>2. feed \in Seq(Event) /\ Len(feed) \in Nat \ {0} /\ Head(feed) = feed[1] /\ feed[1] \in Event
        /\ 1 \in 1 .. Len(feed)
    BY DEF Typed, TypeOK, Fanout
  <1>3. Len(feed') = Len(feed) - 1 /\ \A i \in 1 .. Len(feed) - 1 : feed'[i] = feed[i + 1]
    BY <1>2 DEF Fanout
  <1>4. told \in [room : Room \union {None}, name : Row] /\ told' = Shown(feed[1])
    BY <1>2 DEF Typed, TypeOK, Fanout
  <1>5. (told.room = None \/ feed[1].type = "room_deleted") => told'.room = None
    BY <1>2, <1>4 DEF Shown, Event
  <1>6. (told.room # None /\ feed[1].type # "room_deleted") => told'.room # None
    BY <1>2, <1>4, EventConstants DEF Shown, Event, Room
  <1>7. \A i \in 1 .. Len(feed') : i + 1 \in 1 .. Len(feed) /\ feed'[i] = feed[i + 1]
    BY <1>2, <1>3
  <1>8. \A i \in 1 .. Len(feed) : i # 1 => i - 1 \in 1 .. Len(feed') /\ feed'[i - 1] = feed[i]
    BY <1>2, <1>3
  <1>9. Gone'
    <2>1. CASE room = None
      <3>1. CASE told.room = None
        BY <1>1, <1>5, <2>1, <3>1 DEF Gone
      <3>2. CASE \E i \in 1 .. Len(feed) : feed[i].type = "room_deleted"
        <4>1. PICK i \in 1 .. Len(feed) : feed[i].type = "room_deleted"
          BY <3>2
        <4>2. CASE i = 1
          BY <1>1, <1>5, <2>1, <4>1, <4>2 DEF Gone
        <4>3. CASE i # 1
          BY <1>1, <1>8, <2>1, <4>1, <4>3 DEF Gone
        <4> QED BY <4>2, <4>3
      <3>3. CASE \E q \in Request : at[q] = "emit" /\ call[q].verb = "delete"
        BY <1>1, <2>1, <3>3 DEF Gone
      <3> QED BY <2>1, <3>1, <3>2, <3>3 DEF RoomInv, Gone
    <2>2. CASE room # None
      <3>1. told.room # None /\ feed[1].type # "room_deleted"
        BY <1>2, <2>2 DEF RoomInv, Gone
      <3>2. \A i \in 1 .. Len(feed') : feed'[i].type # "room_deleted"
        BY <1>7, <2>2 DEF RoomInv, Gone
      <3> QED BY <1>1, <1>6, <2>2, <3>1, <3>2 DEF RoomInv, Gone
    <2> QED BY <2>1, <2>2
  <1>10. ASSUME "room" \notin crossed', room' # None
         PROVE  Fresh' /\ ("room" \notin untold' => OwnerComes' /\ EmojiComes')
    <2>1. Fresh /\ ("room" \notin untold => OwnerComes /\ EmojiComes) /\ told.room # None /\ Head(feed).type # "room_deleted"
      BY <1>1, <1>2, <1>10 DEF RoomInv, Gone
    <2>2. Fresh'
      BY <1>1, <2>1 DEF Fresh, Tells, Holding
    <2>3. \A field \in {"owner", "emoji"} : \A value : Arrives(field, value) => Arrives(field, value)'
      BY <2>1, FanoutKeeps
    <2> room' = room
      BY <1>1
    <2>4. Arrives("owner", room.owner) => Arrives("owner", room.owner)'
      BY <2>3, Zenon DEF Arrives
    <2>5. Arrives("emoji", room.emoji) => Arrives("emoji", room.emoji)'
      BY <2>3, Zenon DEF Arrives
    <2> QED BY <1>1, <2>1, <2>2, <2>4, <2>5 DEF OwnerComes, EmojiComes, Tells, Holding
  <1> QED BY <1>9, <1>10 DEF RoomInv

\* The actions that do neither.
LEMMA RoomEnsure ==
    ASSUME Typed, RoomInv, NEW g \in Goroutine, EnsureUser(g)
    PROVE  RoomInv'
  <1> USE DEF EnsureUser, Goto, Goroutine, tables, hub, conns
  <1>1. UNCHANGED <<room, feed, told>> /\ Marked /\ Kept("room")
    BY DEF Marked, Kept
  <1>2. \A p \in Request : \/ at'[p] = at[p] /\ call'[p] = call[p] /\ got'[p] = got[p]
                           \/ ~RoomPending(p) /\ ~RoomPending(p)'
    BY EventConstants DEF RoomPending, Typed, TypeOK
  <1> QED BY <1>1, <1>2, RoomFrame

\* InsertUser touches neither the row nor what is told of it.
LEMMA RoomInsert ==
    ASSUME Typed, RoomInv, NEW g \in Goroutine, InsertUser(g)
    PROVE  RoomInv'
  <1> USE DEF InsertUser, Goto, Goroutine, tables, hub, conns
  <1>1. UNCHANGED <<room, feed, told>> /\ Marked /\ Kept("room")
    BY DEF Marked, Kept
  <1>2. \A p \in Request : \/ at'[p] = at[p] /\ call'[p] = call[p] /\ got'[p] = got[p]
                           \/ ~RoomPending(p) /\ ~RoomPending(p)'
    BY EventConstants DEF RoomPending, Typed, TypeOK
  <1> QED BY <1>1, <1>2, RoomFrame

\* GetUserAgain touches neither the row nor what is told of it.
LEMMA RoomAgain ==
    ASSUME Typed, RoomInv, NEW g \in Goroutine, GetUserAgain(g)
    PROVE  RoomInv'
  <1> USE DEF GetUserAgain, Goto, Goroutine, tables, hub, conns
  <1>1. UNCHANGED <<room, feed, told>> /\ Marked /\ Kept("room")
    BY DEF Marked, Kept
  <1>2. \A p \in Request : \/ at'[p] = at[p] /\ call'[p] = call[p] /\ got'[p] = got[p]
                           \/ ~RoomPending(p) /\ ~RoomPending(p)'
    BY EventConstants DEF RoomPending, Typed, TypeOK
  <1> QED BY <1>1, <1>2, RoomFrame

\* GetMe touches neither the row nor what is told of it.
LEMMA RoomGetMe ==
    ASSUME Typed, RoomInv, NEW q \in Request, GetMe(q)
    PROVE  RoomInv'
  <1> USE DEF GetMe, Respond, Goto, Goroutine, tables, hub, conns
  <1>1. UNCHANGED <<room, feed, told>> /\ Marked /\ Kept("room")
    BY DEF Marked, Kept
  <1>2. \A p \in Request : \/ at'[p] = at[p] /\ call'[p] = call[p] /\ got'[p] = got[p]
                           \/ ~RoomPending(p) /\ ~RoomPending(p)'
    BY EventConstants DEF RoomPending, Typed, TypeOK
  <1> QED BY <1>1, <1>2, RoomFrame

\* UpdateDisplayName touches neither the row nor what is told of it.
LEMMA RoomUpdate ==
    ASSUME Typed, RoomInv, NEW q \in Request, UpdateDisplayName(q)
    PROVE  RoomInv'
  <1> USE DEF UpdateDisplayName, Goto, Goroutine, tables, hub, conns
  <1>1. UNCHANGED <<room, feed, told>> /\ Marked /\ Kept("room")
    BY DEF Marked, Kept
  <1>2. \A p \in Request : \/ at'[p] = at[p] /\ call'[p] = call[p] /\ got'[p] = got[p]
                           \/ ~RoomPending(p) /\ ~RoomPending(p)'
    BY EventConstants DEF RoomPending, Typed, TypeOK
  <1> QED BY <1>1, <1>2, RoomFrame

\* ReadBack touches neither the row nor what is told of it.
LEMMA RoomReadBack ==
    ASSUME Typed, RoomInv, NEW q \in Request, ReadBack(q)
    PROVE  RoomInv'
  <1> USE DEF ReadBack, Goto, Goroutine, tables, hub, conns
  <1>1. UNCHANGED <<room, feed, told>> /\ Marked /\ Kept("room")
    BY DEF Marked, Kept
  <1>2. \A p \in Request : \/ at'[p] = at[p] /\ call'[p] = call[p] /\ got'[p] = got[p]
                           \/ ~RoomPending(p) /\ ~RoomPending(p)'
    BY EventConstants DEF RoomPending, Typed, TypeOK
  <1> QED BY <1>1, <1>2, RoomFrame

\* CopyRegistry touches neither the row nor what is told of it.
LEMMA RoomCopy ==
    ASSUME Typed, RoomInv, NEW q \in Request, CopyRegistry(q)
    PROVE  RoomInv'
  <1> USE DEF CopyRegistry, Goto, Goroutine, tables, hub, conns
  <1>1. UNCHANGED <<room, feed, told>> /\ Marked /\ Kept("room")
    BY DEF Marked, Kept
  <1>2. \A p \in Request : \/ at'[p] = at[p] /\ call'[p] = call[p] /\ got'[p] = got[p]
                           \/ ~RoomPending(p) /\ ~RoomPending(p)'
    BY EventConstants DEF RoomPending, Typed, TypeOK
  <1> QED BY <1>1, <1>2, RoomFrame

\* SetDisplayName touches neither the row nor what is told of it.
LEMMA RoomSet ==
    ASSUME Typed, RoomInv, NEW q \in Request, NEW c \in Conn, SetDisplayName(q, c)
    PROVE  RoomInv'
  <1> USE DEF SetDisplayName, Goto, Goroutine, tables, hub, conns
  <1>1. UNCHANGED <<room, feed, told>> /\ Marked /\ Kept("room")
    BY DEF Marked, Kept
  <1>2. \A p \in Request : \/ at'[p] = at[p] /\ call'[p] = call[p] /\ got'[p] = got[p]
                           \/ ~RoomPending(p) /\ ~RoomPending(p)'
    BY EventConstants DEF RoomPending, Typed, TypeOK
  <1> QED BY <1>1, <1>2, RoomFrame

\* OpenRows touches neither the row nor what is told of it.
LEMMA RoomOpen ==
    ASSUME Typed, RoomInv, NEW q \in Request, OpenRows(q)
    PROVE  RoomInv'
  <1> USE DEF OpenRows, Respond, Goto, Goroutine, tables, hub, conns
  <1>1. UNCHANGED <<room, feed, told>> /\ Marked /\ Kept("room")
    BY DEF Marked, Kept
  <1>2. \A p \in Request : \/ at'[p] = at[p] /\ call'[p] = call[p] /\ got'[p] = got[p]
                           \/ ~RoomPending(p) /\ ~RoomPending(p)'
    BY EventConstants DEF RoomPending, Typed, TypeOK
  <1> QED BY <1>1, <1>2, RoomFrame

\* Register touches neither the row nor what is told of it.
LEMMA RoomRegister ==
    ASSUME Typed, RoomInv, NEW c \in Conn, Register(c)
    PROVE  RoomInv'
  <1> USE DEF Register, Respond, Goto, Goroutine, tables, hub, conns
  <1>1. UNCHANGED <<room, feed, told>> /\ Marked /\ Kept("room")
    BY DEF Marked, Kept
  <1>2. \A p \in Request : \/ at'[p] = at[p] /\ call'[p] = call[p] /\ got'[p] = got[p]
                           \/ ~RoomPending(p) /\ ~RoomPending(p)'
    BY EventConstants DEF RoomPending, Typed, TypeOK
  <1> QED BY <1>1, <1>2, RoomFrame

\* Disconnect touches neither the row nor what is told of it.
LEMMA RoomDisconnect ==
    ASSUME Typed, RoomInv, NEW c \in Conn, Disconnect(c)
    PROVE  RoomInv'
  <1> USE DEF Disconnect, Goto, Goroutine, tables, hub, conns
  <1>1. UNCHANGED <<room, feed, told>> /\ Marked /\ Kept("room")
    BY DEF Marked, Kept
  <1>2. \A p \in Request : \/ at'[p] = at[p] /\ call'[p] = call[p] /\ got'[p] = got[p]
                           \/ ~RoomPending(p) /\ ~RoomPending(p)'
    BY EventConstants DEF RoomPending, Typed, TypeOK
  <1> QED BY <1>1, <1>2, RoomFrame

\* CheckMessage touches neither the row nor what is told of it.
LEMMA RoomCheckMessage ==
    ASSUME Typed, RoomInv, NEW c \in Conn, CheckMessage(c)
    PROVE  RoomInv'
  <1> USE DEF CheckMessage, Goto, Goroutine, tables, hub, conns
  <1>1. UNCHANGED <<room, feed, told>> /\ Marked /\ Kept("room")
    BY DEF Marked, Kept
  <1>2. \A p \in Request : \/ at'[p] = at[p] /\ call'[p] = call[p] /\ got'[p] = got[p]
                           \/ ~RoomPending(p) /\ ~RoomPending(p)'
    BY EventConstants DEF RoomPending, Typed, TypeOK
  <1> QED BY <1>1, <1>2, RoomFrame

\* InsertMessage touches neither the row nor what is told of it.
LEMMA RoomInsertMessage ==
    ASSUME Typed, RoomInv, NEW c \in Conn, InsertMessage(c)
    PROVE  RoomInv'
  <1> USE DEF InsertMessage, Goto, Goroutine, tables, hub, conns
  <1>1. UNCHANGED <<room, feed, told>> /\ Marked /\ Kept("room")
    BY DEF Marked, Kept
  <1>2. \A p \in Request : \/ at'[p] = at[p] /\ call'[p] = call[p] /\ got'[p] = got[p]
                           \/ ~RoomPending(p) /\ ~RoomPending(p)'
    BY EventConstants DEF RoomPending, Typed, TypeOK
  <1> QED BY <1>1, <1>2, RoomFrame

\* CheckOwner touches neither the row nor what is told of it.
LEMMA RoomCheckOwner ==
    ASSUME Typed, RoomInv, NEW q \in Request, CheckOwner(q)
    PROVE  RoomInv'
  <1> USE DEF CheckOwner, Goto, Goroutine, tables, hub, conns
  <1>1. UNCHANGED <<room, feed, told>> /\ Marked /\ Kept("room")
    BY DEF Marked, Kept
  <1>2. \A p \in Request : \/ at'[p] = at[p] /\ call'[p] = call[p] /\ got'[p] = got[p]
                           \/ ~RoomPending(p) /\ ~RoomPending(p)'
    BY EventConstants DEF RoomPending, Typed, TypeOK
  <1> QED BY <1>1, <1>2, RoomFrame

\* A failed statement touches neither the row nor what is told of it.
LEMMA RoomFail ==
    ASSUME Typed, RoomInv, NEW g \in Goroutine, Fail(g)
    PROVE  RoomInv'
  <1> USE DEF Fail, Respond, Goto, Goroutine, tables, hub, conns
  <1>1. UNCHANGED <<room, feed, told>> /\ Marked /\ Kept("room")
    BY DEF Marked, Kept
  <1>2. \A p \in Request : \/ at'[p] = at[p] /\ call'[p] = call[p] /\ got'[p] = got[p]
                           \/ ~RoomPending(p) /\ ~RoomPending(p)'
    BY EventConstants DEF RoomPending, Typed, TypeOK
  <1> QED BY <1>1, <1>2, RoomFrame

\* A transfer of a room that is gone writes nothing.
LEMMA RoomLateTransfer ==
    ASSUME Typed, RoomInv, NEW q \in Request, SetRoomOwner(q), room = None
    PROVE  RoomInv'
  <1> USE DEF SetRoomOwner, Respond, Goto, Goroutine, tables, hub, conns
  <1>1. UNCHANGED <<room, feed, told>> /\ Marked /\ Kept("room")
    BY DEF Marked, Kept
  <1>2. \A p \in Request : \/ at'[p] = at[p] /\ call'[p] = call[p] /\ got'[p] = got[p]
                           \/ ~RoomPending(p) /\ ~RoomPending(p)'
    BY EventConstants DEF RoomPending, Typed, TypeOK
  <1> QED BY <1>1, <1>2, RoomFrame

\* The event of a rename sets nothing of the row.
LEMMA RoomNotify ==
    ASSUME Typed, RoomInv, NEW q \in Request, NotifyName(q)
    PROVE  RoomInv'
  <1> USE DEF NotifyName, Respond, Goto, Goroutine, tables, hub, conns
  <1>1. UNCHANGED <<room, told>> /\ Marked /\ Kept("room")
    BY DEF Marked, Kept
  <1>2. \A p \in Request : \/ at'[p] = at[p] /\ call'[p] = call[p] /\ got'[p] = got[p]
                           \/ ~RoomPending(p) /\ ~RoomPending(p)'
    BY EventConstants DEF RoomPending, Typed, TypeOK
  <1>3. [type |-> "name_changed", name |-> call[q].arg] \in Event
    BY DEF Event, Typed, RequestsOK
  <1>4. PICK event \in Event : event = [type |-> "name_changed", name |-> call[q].arg]
    BY <1>3
  <1>5. feed' = Append(feed, event) /\ event.type \notin {"room_updated", "owner_changed", "room_deleted"}
    BY <1>4 DEF Send
  <1> QED BY <1>1, <1>2, <1>5, RoomOther

\* A message sets nothing of the row.
LEMMA RoomPublish ==
    ASSUME Typed, RoomInv, NEW c \in Conn, PublishMessage(c)
    PROVE  RoomInv'
  <1> USE DEF PublishMessage, Goto, Goroutine, tables, hub, conns
  <1>1. UNCHANGED <<room, told>> /\ Marked /\ Kept("room")
    BY DEF Marked, Kept
  <1>2. \A p \in Request : \/ at'[p] = at[p] /\ call'[p] = call[p] /\ got'[p] = got[p]
                           \/ ~RoomPending(p) /\ ~RoomPending(p)'
    BY EventConstants DEF RoomPending, Typed, TypeOK
  <1>3. [type |-> "msg"] \in Event
    BY DEF Event, Typed, RequestsOK
  <1>4. PICK event \in Event : event = [type |-> "msg"]
    BY <1>3
  <1>5. feed' = Append(feed, event) /\ event.type \notin {"room_updated", "owner_changed", "room_deleted"}
    BY <1>4 DEF Send
  <1> QED BY <1>1, <1>2, <1>5, RoomOther

-----------------------------------------------------------------------------
(* The author's name: a rename on its way, or the row everywhere.          *)

\* A rename has yet to reach the connection.
OnItsWay(c) ==
    \E q \in Request : Renaming(q) /\ (at[q] \in {"updated", "copy"} \/ (at[q] = "walk" /\ c \in todo[q]))

\* Renames one at a time; the row has the name of the one that goes on.
OneRename == \A p, q \in Request : Renaming(p) /\ Renaming(q) => p = q
RenameIsRow == \A q \in Request : Renaming(q) => call[q].arg = name
\* The row's name is kept by every connection, or on its way to it; it will be
\* shown, or the rename has yet to tell.
CacheComes == \A c \in Registered : cached[c] = name \/ OnItsWay(c)
NameComes ==
    "name" \notin untold /\ name \in Name /\ room # None
    => Arrives("name", name) \/ \E q \in Request : Renaming(q)

NameInv == "name" \notin crossed => OneRename /\ RenameIsRow /\ CacheComes /\ NameComes

\* Nobody has another name than the row at the start.
LEMMA NameInit == Init => NameInv
  <1> SUFFICES ASSUME Init PROVE NameInv
    OBVIOUS
  <1>1. Len(feed) = 0 /\ told.name = name
    BY DEF Init
  <1>2. 1 .. Len(feed) = {}
    BY <1>1
  <1>3. \A g \in Goroutine : at[g] = "idle"
    BY DEF Init
  <1>4. Arrives("name", name)
    BY <1>1, <1>2, Zenon DEF Arrives, Page
  <1>5. \A q \in Request : ~Renaming(q)
    BY <1>3 DEF Renaming, Goroutine
  <1>6. Registered = {}
    BY <1>3 DEF Registered, Goroutine
  <1> QED BY <1>4, <1>5, <1>6 DEF NameInv, OneRename, RenameIsRow, CacheComes, NameComes

\* What spreads no name and registers nobody.
LEMMA NameFrame ==
    ASSUME Typed, NameInv, UNCHANGED <<name, todo, told>>, Marked, Kept("name"), Registered' \subseteq Registered,
           \A c \in Registered' : cached'[c] = cached[c],
           room' # None => room # None,
           feed' = feed \/ \E event \in Event : event.type # "name_changed" /\ feed' = Append(feed, event),
           \A q \in Request : \/ at'[q] = at[q] /\ call'[q] = call[q]
                              \/ ~Renaming(q) /\ ~Renaming(q)'
    PROVE  NameInv'
  <1>1. \A q \in Request : Renaming(q)' <=> Renaming(q)
    BY DEF Renaming
  <1>2. \A q \in Request : Renaming(q) => call'[q] = call[q] /\ at'[q] = at[q]
    OBVIOUS
  <1>3. \A v : Arrives("name", v) => Arrives("name", v)'
    <2>1. CASE feed' = feed
      BY <2>1 DEF Arrives, Later, Page
    <2>2. CASE feed' # feed
      <3>1. PICK event \in Event : event.type # "name_changed" /\ feed' = Append(feed, event)
        BY <2>2
      <3>2. ~Sets(event, "name")
        BY <3>1 DEF Sets
      <3> QED BY <3>1, <3>2, AppendOther
    <2> QED BY <2>1, <2>2
  <1>4. OneRename => OneRename'
    BY <1>1 DEF OneRename
  <1>5. RenameIsRow => RenameIsRow'
    BY <1>1, <1>2 DEF RenameIsRow
  <1>6. CacheComes => CacheComes'
    BY <1>1, <1>2 DEF CacheComes, OnItsWay
  <1>7. NameComes => NameComes'
    <2> name' = name
      OBVIOUS
    <2>1. Arrives("name", name) => Arrives("name", name)'
      BY <1>3, Zenon DEF Arrives
    <2> QED BY <1>1, <2>1 DEF NameComes, Kept
  <1> QED BY <1>4, <1>5, <1>6, <1>7 DEF NameInv, Marked

\* The actions that change a name or spread it.
LEMMA NameInsert ==
    ASSUME Typed, NameInv, NEW g \in Goroutine, InsertUser(g), name = None
    PROVE  NameInv'
  <1>1. /\ name' = Unnamed
        /\ at' = [at EXCEPT ![g] = "ensured"] /\ at[g] = "insert" /\ at \in [Goroutine -> Places]
        /\ UNCHANGED <<room, call, cached, todo, crossed>>
    BY DEF InsertUser, Goto, conns, Typed, TypeOK
  <1>2. \A q \in Request : Renaming(q)' <=> Renaming(q)
    BY <1>1 DEF Renaming, Goroutine
  <1>3. Registered' = Registered
    BY <1>1 DEF Registered, Goroutine
  <1>4. ASSUME "name" \notin crossed PROVE \A q \in Request : ~Renaming(q)
    BY <1>4, EventConstants DEF NameInv, RenameIsRow, Typed, RequestsOK, Renaming
  <1>5. ASSUME "name" \notin crossed PROVE Registered = {}
    <2>1. \A c \in Registered : cached[c] = name
      BY <1>4, <1>5 DEF NameInv, CacheComes, OnItsWay
    <2>2. \A c \in Registered : cached[c] \in Name
      BY DEF Registered, Typed, TypeOK
    <2> QED BY <2>1, <2>2, EventConstants
  <1>6. name' \notin Name
    BY <1>1, EventConstants
  <1> QED BY <1>1, <1>2, <1>3, <1>4, <1>5, <1>6 DEF NameInv, OneRename, RenameIsRow, CacheComes, NameComes

\* A new name has a request that has yet to spread it.
LEMMA NameUpdate ==
    ASSUME Typed, NameInv, NEW q \in Request, UpdateDisplayName(q)
    PROVE  NameInv'
  <1>1. /\ name' = call[q].arg /\ call[q].verb = "rename"
        /\ at' = [at EXCEPT ![q] = "updated"] /\ at[q] = "ensured" /\ at \in [Goroutine -> Places]
        /\ q \in Goroutine
        /\ UNCHANGED <<room, call, cached, todo>>
    BY DEF UpdateDisplayName, Goto, conns, Typed, TypeOK, Asks, Goroutine
  <1>2. at'[q] = "updated" /\ \A p \in Request \ {q} : at'[p] = at[p]
    BY <1>1 DEF Goroutine
  <1>3. Renaming(q)' /\ \A p \in Request \ {q} : Renaming(p)' <=> Renaming(p)
    BY <1>1, <1>2 DEF Renaming
  <1>4. ASSUME "name" \notin crossed' PROVE \A p \in Request : ~Renaming(p)
    BY <1>4 DEF UpdateDisplayName
  <1> QED BY <1>1, <1>2, <1>3, <1>4 DEF NameInv, OneRename, RenameIsRow, CacheComes, NameComes, OnItsWay

\* Reading the row back changes no name.
LEMMA NameReadBack ==
    ASSUME Typed, NameInv, NEW q \in Request, ReadBack(q)
    PROVE  NameInv'
  <1>1. /\ at' = [at EXCEPT ![q] = "copy"] /\ at[q] = "updated" /\ at \in [Goroutine -> Places] /\ q \in Goroutine
        /\ UNCHANGED <<room, name, call, cached, todo, crossed, untold, feed, told>>
    BY DEF ReadBack, Goto, conns, hub, tables, Typed, TypeOK, Goroutine
  <1>2. at'[q] = "copy" /\ \A p \in Request \ {q} : at'[p] = at[p]
    BY <1>1 DEF Goroutine
  <1>3. \A p \in Request : Renaming(p)' <=> Renaming(p)
    BY <1>1, <1>2 DEF Renaming
  <1>4. Registered' = Registered
    BY <1>1, EventConstants DEF Registered, Goroutine
  <1>5. \A c \in Conn : OnItsWay(c) => OnItsWay(c)'
    BY <1>1, <1>2, <1>3 DEF OnItsWay
  <1>6. \A v : Arrives("name", v) => Arrives("name", v)'
    BY <1>1 DEF Arrives, Later, Page
  <1>7. NameComes => NameComes'
    <2> name' = name
      BY <1>1
    <2>1. Arrives("name", name) => Arrives("name", name)'
      BY <1>6, Zenon DEF Arrives
    <2> QED BY <1>1, <1>3, <2>1 DEF NameComes
  <1> QED BY <1>1, <1>3, <1>4, <1>5, <1>7 DEF NameInv, OneRename, RenameIsRow, CacheComes, Registered

\* Who is registered by now will be visited with the new name.
LEMMA NameCopy ==
    ASSUME Typed, NameInv, NEW q \in Request, CopyRegistry(q)
    PROVE  NameInv'
  <1>1. /\ at' = [at EXCEPT ![q] = "walk"] /\ at[q] = "copy" /\ at \in [Goroutine -> Places] /\ q \in Goroutine
        /\ todo' = [todo EXCEPT ![q] = Registered] /\ todo \in [Request -> SUBSET Conn]
        /\ UNCHANGED <<room, name, call, cached, crossed, untold, feed, told>>
    BY DEF CopyRegistry, Goto, conns, hub, tables, Typed, TypeOK, Goroutine
  <1>2. at'[q] = "walk" /\ todo'[q] = Registered /\ \A p \in Request \ {q} : at'[p] = at[p] /\ todo'[p] = todo[p]
    BY <1>1 DEF Goroutine
  <1>3. Renaming(q)' /\ \A p \in Request : Renaming(p)' <=> Renaming(p)
    BY <1>1, <1>2 DEF Renaming, Typed, RequestsOK
  <1>4. Registered' = Registered
    BY <1>1, EventConstants DEF Registered, Goroutine
  <1>5. \A c \in Registered : OnItsWay(c)'
    BY <1>1, <1>2, <1>3 DEF OnItsWay
  <1>6. \A v : Arrives("name", v) => Arrives("name", v)'
    BY <1>1 DEF Arrives, Later, Page
  <1>7. NameComes => NameComes'
    <2> name' = name
      BY <1>1
    <2>1. Arrives("name", name) => Arrives("name", name)'
      BY <1>6, Zenon DEF Arrives
    <2> QED BY <1>1, <1>3, <2>1 DEF NameComes
  <1> QED BY <1>1, <1>3, <1>4, <1>5, <1>7 DEF NameInv, OneRename, RenameIsRow, CacheComes

\* A visited connection has the new name.
LEMMA NameSet ==
    ASSUME Typed, NameInv, NEW q \in Request, NEW c \in Conn, SetDisplayName(q, c)
    PROVE  NameInv'
  <1>1. /\ at[q] = "walk" /\ c \in todo[q]
        /\ cached' = [cached EXCEPT ![c] = IF c \in Registered THEN call[q].arg ELSE @]
        /\ todo' = [todo EXCEPT ![q] = @ \ {c}] /\ todo \in [Request -> SUBSET Conn] /\ cached \in [Conn -> Row]
        /\ UNCHANGED <<room, name, call, at, crossed, untold, feed, told>>
    BY DEF SetDisplayName, hub, tables, Typed, TypeOK
  <1>2. Renaming(q) /\ \A p \in Request : Renaming(p)' <=> Renaming(p)
    BY <1>1 DEF Renaming, Typed, RequestsOK
  <1>3. Registered' = Registered
    BY <1>1 DEF Registered
  <1>4. RenameIsRow /\ CacheComes => CacheComes'
    <2> SUFFICES ASSUME RenameIsRow, CacheComes, NEW d \in Registered PROVE cached'[d] = name' \/ OnItsWay(d)'
      BY <1>3 DEF CacheComes
    <2>1. CASE d = c
      BY <1>1, <1>2, <2>1 DEF RenameIsRow, Registered
    <2>2. CASE d # c
      <3>1. cached'[d] = cached[d] /\ d \in Conn
        BY <1>1, <2>2 DEF Registered
      <3>2. OnItsWay(d) => OnItsWay(d)'
        BY <1>1, <1>2, <2>2 DEF OnItsWay
      <3> QED BY <1>1, <3>1, <3>2 DEF CacheComes
    <2> QED BY <2>1, <2>2
  <1>5. \A v : Arrives("name", v) => Arrives("name", v)'
    BY <1>1 DEF Arrives, Later, Page
  <1>6. NameComes => NameComes'
    <2> name' = name
      BY <1>1
    <2>1. Arrives("name", name) => Arrives("name", name)'
      BY <1>5, Zenon DEF Arrives
    <2> QED BY <1>1, <1>2, <2>1 DEF NameComes
  <1> QED BY <1>1, <1>2, <1>4, <1>6 DEF NameInv, OneRename, RenameIsRow

\* The room is still to be told, unless it is gone or could not be read.
LEMMA NameOpen ==
    ASSUME Typed, NameInv, NEW q \in Request, OpenRows(q)
    PROVE  NameInv'
  <1>1. /\ at[q] = "walk" /\ todo[q] = {} /\ q \in Goroutine /\ at \in [Goroutine -> Places]
        /\ UNCHANGED <<room, name, cached, todo, crossed, feed, told>>
        /\ call \in [Request -> Call]
        /\ \/ /\ room = None \/ "name" \in untold'
              /\ at' = [at EXCEPT ![q] = "idle"] /\ call' = [call EXCEPT ![q] = NoCall]
           \/ room # None /\ at' = [at EXCEPT ![q] = "notify"] /\ call' = call
    BY DEF OpenRows, Respond, Goto, hub, conns, tables, Typed, TypeOK, Goroutine
  <1>2. \A p \in Request \ {q} : at'[p] = at[p] /\ call'[p] = call[p]
    BY <1>1 DEF Goroutine
  <1>3. /\ Renaming(q)
        /\ \/ (room = None \/ "name" \in untold') /\ ~Renaming(q)'
           \/ Renaming(q)' /\ call'[q] = call[q]
        /\ \A p \in Request \ {q} : Renaming(p)' <=> Renaming(p)
    BY <1>1, <1>2 DEF Renaming, Typed, RequestsOK, Goroutine
  <1>4. Registered' = Registered
    BY <1>1, EventConstants DEF Registered, Goroutine
  <1>5. OneRename /\ CacheComes => CacheComes'
    <2>1. OneRename => \A c \in Conn : ~OnItsWay(c)
      BY <1>1, <1>3 DEF OneRename, OnItsWay
    <2> QED BY <1>1, <1>4, <2>1 DEF CacheComes, Registered
  <1>6. NameComes'
    BY <1>1, <1>3 DEF NameComes
  <1> QED BY <1>1, <1>2, <1>3, <1>5, <1>6 DEF NameInv, OneRename, RenameIsRow

\* The name in the channel arrives in its sender's place.
LEMMA NameNotify ==
    ASSUME Typed, NameInv, NEW q \in Request, NotifyName(q)
    PROVE  NameInv'
  <1> DEFINE event == [type |-> "name_changed", name |-> call[q].arg]
  <1>1. /\ at[q] = "notify" /\ q \in Goroutine /\ at \in [Goroutine -> Places] /\ call \in [Request -> Call]
        /\ UNCHANGED <<room, name, cached, todo, crossed, untold, told>>
        /\ at' = [at EXCEPT ![q] = "idle"] /\ call' = [call EXCEPT ![q] = NoCall]
        /\ feed' = Append(feed, event)
    BY DEF NotifyName, Respond, Goto, Send, conns, Typed, TypeOK, Goroutine
  <1>2. at'[q] = "idle" /\ \A p \in Request \ {q} : at'[p] = at[p] /\ call'[p] = call[p]
    BY <1>1 DEF Goroutine
  <1>3. Renaming(q) /\ ~Renaming(q)' /\ \A p \in Request \ {q} : Renaming(p)' <=> Renaming(p)
    BY <1>1, <1>2 DEF Renaming, Typed, RequestsOK
  <1>4. Registered' = Registered
    BY <1>1, EventConstants DEF Registered, Goroutine
  <1>5. OneRename /\ CacheComes => CacheComes'
    <2>1. OneRename => \A c \in Conn : ~OnItsWay(c)
      BY <1>1, <1>3 DEF OneRename, OnItsWay
    <2> QED BY <1>1, <1>4, <2>1 DEF CacheComes, Registered
  <1>6. RenameIsRow => NameComes'
    <2> SUFFICES ASSUME RenameIsRow PROVE Arrives("name", name)'
      BY DEF NameComes
    <2>1. event \in Event
      BY <1>3 DEF Event, Renaming, Typed, RequestsOK
    <2>2. PICK e \in Event : e = event
      BY <2>1
    <2>3. Sets(e, "name") /\ Value(e, "name") = name
      BY <1>3, <2>2 DEF Sets, Value, RenameIsRow
    <2>4. Arrives("name", Value(e, "name"))'
      BY <1>1, <2>2, <2>3, AppendSame
    <2>5. name' = name
      BY <1>1
    <2> QED BY <2>3, <2>4, <2>5, Zenon DEF Arrives
  <1> QED BY <1>1, <1>2, <1>3, <1>5, <1>6 DEF NameInv, OneRename, RenameIsRow

\* A connection comes up with the name of the row, or a rename has yet to visit it.
LEMMA NameRegister ==
    ASSUME Typed, NameInv, NEW c \in Conn, Register(c)
    PROVE  NameInv'
  <1>1. /\ UNCHANGED <<room, name, todo, feed, told, call, untold>> /\ at[c] = "ensured" /\ c \in Goroutine
        /\ at \in [Goroutine -> Places] /\ cached \in [Conn -> Row] /\ crossed \subseteq crossed'
        /\ \/ at' = [at EXCEPT ![c] = "up"] /\ cached' = [cached EXCEPT ![c] = got[c]]
              /\ (Outdated(c) => "name" \in crossed')
           \/ at' = [at EXCEPT ![c] = "idle"] /\ UNCHANGED cached
    BY EventConstants DEF Register, Respond, Goto, hub, tables, Typed, TypeOK, Goroutine
  <1>2. \A q \in Request : at'[q] = at[q] /\ (Renaming(q)' <=> Renaming(q))
    BY <1>1, EventConstants DEF Renaming, Goroutine
  <1>3. \A d \in Conn : OnItsWay(d) => OnItsWay(d)'
    BY <1>1, <1>2 DEF OnItsWay
  <1>4. ASSUME NEW d \in Registered', "name" \notin crossed', CacheComes
        PROVE  cached'[d] = name' \/ OnItsWay(d)'
    <2>1. CASE d = c
      <3>1. cached'[c] = got[c] /\ ~Outdated(c)
        BY <1>1, <1>4, <2>1 DEF Registered
      <3>2. CASE got[c] = name
        BY <1>1, <2>1, <3>1, <3>2
      <3>3. CASE \E q \in Request : at[q] \in {"updated", "copy"}
        BY <1>1, <1>2, <2>1, <3>3 DEF OnItsWay, Renaming, Typed, RequestsOK
      <3> QED BY <3>1, <3>2, <3>3 DEF Outdated
    <2>2. CASE d # c
      <3>1. d \in Registered /\ cached'[d] = cached[d]
        BY <1>1, <2>2 DEF Registered, Goroutine
      <3> QED BY <1>1, <1>3, <1>4, <3>1 DEF CacheComes, Registered
    <2> QED BY <2>1, <2>2
  <1>5. \A v : Arrives("name", v) => Arrives("name", v)'
    BY <1>1 DEF Arrives, Later, Page
  <1>6. NameComes => NameComes'
    <2> name' = name
      BY <1>1
    <2>1. Arrives("name", name) => Arrives("name", name)'
      BY <1>5, Zenon DEF Arrives
    <2> QED BY <1>1, <1>2, <2>1 DEF NameComes
  <1> QED BY <1>1, <1>2, <1>4, <1>6 DEF NameInv, OneRename, RenameIsRow, CacheComes

\* Handing out an event leaves the name that arrives in the end as it was.
LEMMA NameDelivered ==
    ASSUME Typed, NameInv, Fanout
    PROVE  NameInv'
  <1>1. UNCHANGED <<room, name, at, call, todo, cached, crossed, untold>>
    BY DEF Fanout, tables, places, conns
  <1>2. \A v : Arrives("name", v) => Arrives("name", v)'
    BY FanoutKeeps
  <1>3. NameComes => NameComes'
    <2> name' = name
      BY <1>1
    <2>1. Arrives("name", name) => Arrives("name", name)'
      BY <1>2, Zenon DEF Arrives
    <2> QED BY <1>1, <2>1 DEF NameComes, Renaming
  <1> QED BY <1>1, <1>3 DEF NameInv, OneRename, RenameIsRow, CacheComes, Registered, OnItsWay, Renaming

\* The actions that do neither.
LEMMA NameEnsure ==
    ASSUME Typed, NameInv, NEW g \in Goroutine, EnsureUser(g)
    PROVE  NameInv'
  <1> USE DEF EnsureUser, Goto, Goroutine, tables, hub, conns
  <1>1. UNCHANGED <<name, todo, told, feed>> /\ Marked /\ Kept("name") /\ (room' # None => room # None)
    BY DEF Marked, Kept
  <1>2. \A p \in Request : \/ at'[p] = at[p] /\ call'[p] = call[p]
                           \/ ~Renaming(p) /\ ~Renaming(p)'
    BY EventConstants DEF Renaming, Typed, TypeOK, RequestsOK
  <1>3. Registered' \subseteq Registered /\ \A d \in Registered' : cached'[d] = cached[d]
    BY EventConstants DEF Registered, Typed, TypeOK
  <1> QED BY <1>1, <1>2, <1>3, NameFrame

\* An INSERT that finds the row changes no name.
LEMMA NameLateInsert ==
    ASSUME Typed, NameInv, NEW g \in Goroutine, InsertUser(g), name # None
    PROVE  NameInv'
  <1> USE DEF InsertUser, Goto, Goroutine, tables, hub, conns
  <1>1. UNCHANGED <<name, todo, told, feed>> /\ Marked /\ Kept("name") /\ (room' # None => room # None)
    BY DEF Marked, Kept
  <1>2. \A p \in Request : \/ at'[p] = at[p] /\ call'[p] = call[p]
                           \/ ~Renaming(p) /\ ~Renaming(p)'
    BY EventConstants DEF Renaming, Typed, TypeOK, RequestsOK
  <1>3. Registered' \subseteq Registered /\ \A d \in Registered' : cached'[d] = cached[d]
    BY EventConstants DEF Registered, Typed, TypeOK
  <1> QED BY <1>1, <1>2, <1>3, NameFrame

\* GetUserAgain touches no name and nobody who spreads one.
LEMMA NameAgain ==
    ASSUME Typed, NameInv, NEW g \in Goroutine, GetUserAgain(g)
    PROVE  NameInv'
  <1> USE DEF GetUserAgain, Goto, Goroutine, tables, hub, conns
  <1>1. UNCHANGED <<name, todo, told, feed>> /\ Marked /\ Kept("name") /\ (room' # None => room # None)
    BY DEF Marked, Kept
  <1>2. \A p \in Request : \/ at'[p] = at[p] /\ call'[p] = call[p]
                           \/ ~Renaming(p) /\ ~Renaming(p)'
    BY EventConstants DEF Renaming, Typed, TypeOK, RequestsOK
  <1>3. Registered' \subseteq Registered /\ \A d \in Registered' : cached'[d] = cached[d]
    BY EventConstants DEF Registered, Typed, TypeOK
  <1> QED BY <1>1, <1>2, <1>3, NameFrame

\* GetMe touches no name and nobody who spreads one.
LEMMA NameGetMe ==
    ASSUME Typed, NameInv, NEW q \in Request, GetMe(q)
    PROVE  NameInv'
  <1> USE DEF GetMe, Respond, Goto, Goroutine, tables, hub, conns
  <1>1. UNCHANGED <<name, todo, told, feed>> /\ Marked /\ Kept("name") /\ (room' # None => room # None)
    BY DEF Marked, Kept
  <1>2. \A p \in Request : \/ at'[p] = at[p] /\ call'[p] = call[p]
                           \/ ~Renaming(p) /\ ~Renaming(p)'
    BY EventConstants DEF Renaming, Typed, TypeOK, RequestsOK
  <1>3. Registered' \subseteq Registered /\ \A d \in Registered' : cached'[d] = cached[d]
    BY EventConstants DEF Registered, Typed, TypeOK
  <1> QED BY <1>1, <1>2, <1>3, NameFrame

\* Disconnect touches no name and nobody who spreads one.
LEMMA NameDisconnect ==
    ASSUME Typed, NameInv, NEW c \in Conn, Disconnect(c)
    PROVE  NameInv'
  <1> USE DEF Disconnect, Goto, Goroutine, tables, hub, conns
  <1>1. UNCHANGED <<name, todo, told, feed>> /\ Marked /\ Kept("name") /\ (room' # None => room # None)
    BY DEF Marked, Kept
  <1>2. \A p \in Request : \/ at'[p] = at[p] /\ call'[p] = call[p]
                           \/ ~Renaming(p) /\ ~Renaming(p)'
    BY EventConstants DEF Renaming, Typed, TypeOK, RequestsOK
  <1>3. Registered' \subseteq Registered /\ \A d \in Registered' : cached'[d] = cached[d]
    BY EventConstants DEF Registered, Typed, TypeOK
  <1> QED BY <1>1, <1>2, <1>3, NameFrame

\* CheckMessage touches no name and nobody who spreads one.
LEMMA NameCheckMessage ==
    ASSUME Typed, NameInv, NEW c \in Conn, CheckMessage(c)
    PROVE  NameInv'
  <1> USE DEF CheckMessage, Goto, Goroutine, tables, hub, conns
  <1>1. UNCHANGED <<name, todo, told, feed>> /\ Marked /\ Kept("name") /\ (room' # None => room # None)
    BY DEF Marked, Kept
  <1>2. \A p \in Request : \/ at'[p] = at[p] /\ call'[p] = call[p]
                           \/ ~Renaming(p) /\ ~Renaming(p)'
    BY EventConstants DEF Renaming, Typed, TypeOK, RequestsOK
  <1>3. Registered' \subseteq Registered /\ \A d \in Registered' : cached'[d] = cached[d]
    BY EventConstants DEF Registered, Typed, TypeOK
  <1> QED BY <1>1, <1>2, <1>3, NameFrame

\* InsertMessage touches no name and nobody who spreads one.
LEMMA NameInsertMessage ==
    ASSUME Typed, NameInv, NEW c \in Conn, InsertMessage(c)
    PROVE  NameInv'
  <1> USE DEF InsertMessage, Goto, Goroutine, tables, hub, conns
  <1>1. UNCHANGED <<name, todo, told, feed>> /\ Marked /\ Kept("name") /\ (room' # None => room # None)
    BY DEF Marked, Kept
  <1>2. \A p \in Request : \/ at'[p] = at[p] /\ call'[p] = call[p]
                           \/ ~Renaming(p) /\ ~Renaming(p)'
    BY EventConstants DEF Renaming, Typed, TypeOK, RequestsOK
  <1>3. Registered' \subseteq Registered /\ \A d \in Registered' : cached'[d] = cached[d]
    BY EventConstants DEF Registered, Typed, TypeOK
  <1> QED BY <1>1, <1>2, <1>3, NameFrame

\* CheckOwner touches no name and nobody who spreads one.
LEMMA NameCheckOwner ==
    ASSUME Typed, NameInv, NEW q \in Request, CheckOwner(q)
    PROVE  NameInv'
  <1> USE DEF CheckOwner, Goto, Goroutine, tables, hub, conns
  <1>1. UNCHANGED <<name, todo, told, feed>> /\ Marked /\ Kept("name") /\ (room' # None => room # None)
    BY DEF Marked, Kept
  <1>2. \A p \in Request : \/ at'[p] = at[p] /\ call'[p] = call[p]
                           \/ ~Renaming(p) /\ ~Renaming(p)'
    BY EventConstants DEF Renaming, Typed, TypeOK, RequestsOK
  <1>3. Registered' \subseteq Registered /\ \A d \in Registered' : cached'[d] = cached[d]
    BY EventConstants DEF Registered, Typed, TypeOK
  <1> QED BY <1>1, <1>2, <1>3, NameFrame

\* A failed statement touches no name and nobody who spreads one.
LEMMA NameFail ==
    ASSUME Typed, NameInv, NEW g \in Goroutine, Fail(g)
    PROVE  NameInv'
  <1> USE DEF Fail, Respond, Goto, Goroutine, tables, hub, conns
  <1>1. UNCHANGED <<name, todo, told, feed>> /\ Marked /\ Kept("name") /\ (room' # None => room # None)
    BY DEF Marked, Kept
  <1>2. \A p \in Request : \/ at'[p] = at[p] /\ call'[p] = call[p]
                           \/ ~Renaming(p) /\ ~Renaming(p)'
    BY EventConstants DEF Renaming, Typed, TypeOK, RequestsOK
  <1>3. Registered' \subseteq Registered /\ \A d \in Registered' : cached'[d] = cached[d]
    BY EventConstants DEF Registered, Typed, TypeOK
  <1> QED BY <1>1, <1>2, <1>3, NameFrame

\* An edit of the room changes no name.
LEMMA NamePatch ==
    ASSUME Typed, NameInv, NEW q \in Request, PatchRoom(q)
    PROVE  NameInv'
  <1> USE DEF PatchRoom, Goto, Goroutine, tables, hub, conns
  <1>1. UNCHANGED <<name, todo, told, feed>> /\ Marked /\ Kept("name") /\ (room' # None => room # None)
    BY DEF Marked, Kept
  <1>2. \A p \in Request : \/ at'[p] = at[p] /\ call'[p] = call[p]
                           \/ ~Renaming(p) /\ ~Renaming(p)'
    BY EventConstants DEF Renaming, Typed, TypeOK, RequestsOK
  <1>3. Registered' \subseteq Registered /\ \A d \in Registered' : cached'[d] = cached[d]
    BY EventConstants DEF Registered, Typed, TypeOK
  <1> QED BY <1>1, <1>2, <1>3, NameFrame

\* ReadUpdated touches no name and nobody who spreads one.
LEMMA NameRead ==
    ASSUME Typed, NameInv, NEW q \in Request, ReadUpdated(q)
    PROVE  NameInv'
  <1> USE DEF ReadUpdated, Goto, Goroutine, tables, hub, conns
  <1>1. UNCHANGED <<name, todo, told, feed>> /\ Marked /\ Kept("name") /\ (room' # None => room # None)
    BY DEF Marked, Kept
  <1>2. \A p \in Request : \/ at'[p] = at[p] /\ call'[p] = call[p]
                           \/ ~Renaming(p) /\ ~Renaming(p)'
    BY EventConstants DEF Renaming, Typed, TypeOK, RequestsOK
  <1>3. Registered' \subseteq Registered /\ \A d \in Registered' : cached'[d] = cached[d]
    BY EventConstants DEF Registered, Typed, TypeOK
  <1> QED BY <1>1, <1>2, <1>3, NameFrame

\* A transfer changes no name.
LEMMA NameTransfer ==
    ASSUME Typed, NameInv, NEW q \in Request, SetRoomOwner(q)
    PROVE  NameInv'
  <1> USE DEF SetRoomOwner, Respond, Goto, Goroutine, tables, hub, conns
  <1>1. UNCHANGED <<name, todo, told, feed>> /\ Marked /\ Kept("name") /\ (room' # None => room # None)
    BY DEF Marked, Kept
  <1>2. \A p \in Request : \/ at'[p] = at[p] /\ call'[p] = call[p]
                           \/ ~Renaming(p) /\ ~Renaming(p)'
    BY EventConstants DEF Renaming, Typed, TypeOK, RequestsOK
  <1>3. Registered' \subseteq Registered /\ \A d \in Registered' : cached'[d] = cached[d]
    BY EventConstants DEF Registered, Typed, TypeOK
  <1> QED BY <1>1, <1>2, <1>3, NameFrame

\* A room that is gone needs to be told no name.
LEMMA NameDelete ==
    ASSUME Typed, NameInv, NEW q \in Request, DeleteRoom(q)
    PROVE  NameInv'
  <1> USE DEF DeleteRoom, Goto, Goroutine, tables, hub, conns
  <1>1. UNCHANGED <<name, todo, told, feed>> /\ Marked /\ Kept("name") /\ (room' # None => room # None)
    BY DEF Marked, Kept
  <1>2. \A p \in Request : \/ at'[p] = at[p] /\ call'[p] = call[p]
                           \/ ~Renaming(p) /\ ~Renaming(p)'
    BY EventConstants DEF Renaming, Typed, TypeOK, RequestsOK
  <1>3. Registered' \subseteq Registered /\ \A d \in Registered' : cached'[d] = cached[d]
    BY EventConstants DEF Registered, Typed, TypeOK
  <1> QED BY <1>1, <1>2, <1>3, NameFrame

\* PublishMessage touches no name and nobody who spreads one.
LEMMA NamePublish ==
    ASSUME Typed, NameInv, NEW c \in Conn, PublishMessage(c)
    PROVE  NameInv'
  <1> USE DEF PublishMessage, Goto, Goroutine, tables, hub, conns
  <1>1. UNCHANGED <<name, todo, told, cached, room>> /\ Marked /\ Kept("name")
    BY DEF Marked, Kept
  <1>2. \A p \in Request : \/ at'[p] = at[p] /\ call'[p] = call[p]
                           \/ ~Renaming(p) /\ ~Renaming(p)'
    BY EventConstants DEF Renaming, Typed, TypeOK, RequestsOK
  <1>3. Registered' \subseteq Registered
    BY EventConstants DEF Registered, Typed, TypeOK
  <1>4. [type |-> "msg"] \in Event
    BY DEF Event
  <1>5. feed' = Append(feed, [type |-> "msg"])
    BY DEF Send
  <1> QED BY <1>1, <1>2, <1>3, <1>4, <1>5, NameFrame

\* An event of the room's row sets no name.
LEMMA NameEmit ==
    ASSUME Typed, NameInv, NEW q \in Request, Emit(q)
    PROVE  NameInv'
  <1> USE DEF Emit, Respond, Goto, Goroutine, tables, hub, conns
  <1>1. UNCHANGED <<name, todo, told, cached, room>> /\ Marked /\ Kept("name")
    BY DEF Marked, Kept
  <1>2. \A p \in Request : \/ at'[p] = at[p] /\ call'[p] = call[p]
                           \/ ~Renaming(p) /\ ~Renaming(p)'
    BY EventConstants DEF Renaming, Typed, TypeOK, RequestsOK
  <1>3. Registered' \subseteq Registered
    BY EventConstants DEF Registered, Typed, TypeOK
  <1>4. CASE call[q].verb = "patch"
    <2>1. got[q] \in Room \union {None}
      BY <1>4 DEF Typed, RequestsOK
    <2>2. CASE got[q] = None
      <3>1. feed' = feed /\ \A c \in Registered' : cached'[c] = cached[c]
        BY <1>1, <1>4, <2>2 DEF Asks
      <3> QED BY <1>1, <1>2, <1>3, <3>1, NameFrame
    <2>3. CASE got[q] \in Room
      <3>1. feed' = Append(feed, [type |-> "room_updated", room |-> got[q]])
        BY <1>4, <2>3, EventConstants DEF Asks, Send
      <3>2. [type |-> "room_updated", room |-> got[q]] \in Event
        BY <2>3 DEF Event
      <3> QED BY <1>1, <1>2, <1>3, <3>1, <3>2, NameFrame
    <2> QED BY <2>1, <2>2, <2>3
  <1>5. CASE call[q].verb = "transfer"
    <2>1. feed' = Append(feed, [type |-> "owner_changed", owner |-> call[q].arg])
      BY <1>5 DEF Asks, Send
    <2>2. [type |-> "owner_changed", owner |-> call[q].arg] \in Event
      BY <1>5 DEF Event, Typed, RequestsOK
    <2> QED BY <1>1, <1>2, <1>3, <2>1, <2>2, NameFrame
  <1>6. CASE call[q].verb = "delete"
    <2>1. feed' = Append(feed, [type |-> "room_deleted"])
      BY <1>6 DEF Asks, Send
    <2>2. [type |-> "room_deleted"] \in Event
      BY DEF Event
    <2> QED BY <1>1, <1>2, <1>3, <2>1, <2>2, NameFrame
  <1> QED BY <1>4, <1>5, <1>6 DEF Typed, RequestsOK

-----------------------------------------------------------------------------
(* Posts, and the theorems.                                                *)

\* A text that waits for its INSERT in a room that is emoji-only by now was
\* checked before.
PostInv ==
    /\ EmojiRoomKept
    /\ \A c \in Conn : at[c] = "checked" /\ draft[c] = "text" /\ room # None /\ room.emoji
                       => "post" \in crossed

\* The check is the scan, and the scan lets no text through.
LEMMA PostCheck ==
    ASSUME Typed, PostInv, NEW c \in Conn, CheckMessage(c)
    PROVE  PostInv'
  <1>1. PICK content \in Contents : Accepts(content) /\ draft' = [draft EXCEPT ![c] = Kind(content)]
    BY DEF CheckMessage
  <1>2. content \in Seq(Class)
    <2>1. {"block", "digit", "selector", "mark"} \subseteq Class
      BY DEF Class
    <2>2. CASE content = <<"digit", "selector", "mark">>
      BY <2>1, <2>2
    <2>3. CASE content # <<"digit", "selector", "mark">>
      <3>3. content \in Beside
        BY <2>3, Zenon DEF Contents
      <3>1. PICK class \in Class : content \in Around(class)
        BY <3>3 DEF Beside
      <3>2. <<class>> \in Seq(Class) /\ <<class, "block">> \in Seq(Class) /\ <<"block", class>> \in Seq(Class)
        BY <2>1
      <3> QED BY <3>1, <3>2, Zenon DEF Around
    <2> QED BY <2>2, <2>3
  <1>3. IsEmojiOnly(content) => Kind(content) # "text"
    <2>1. IsEmojiOnly(content) => ~HasText(content)
      BY <1>2, ScannerAgainstComments DEF AsCommented
    <2> QED BY <2>1 DEF Kind
  <1>4. room.emoji => draft'[c] # "text"
    BY <1>1, <1>3 DEF Typed, TypeOK, Accepts
  <1>5. \A d \in Conn \ {c} : at'[d] = at[d] /\ draft'[d] = draft[d]
    BY <1>1 DEF CheckMessage, Goto, Typed, TypeOK, Goroutine
  <1>6. UNCHANGED <<room, mixed, crossed>>
    BY DEF CheckMessage, tables
  <1> QED BY <1>4, <1>5, <1>6 DEF PostInv, EmojiRoomKept

\* A text enters an emoji-only room only past a check older than the flag.
LEMMA PostInsert ==
    ASSUME Typed, PostInv, NEW c \in Conn, InsertMessage(c)
    PROVE  PostInv'
  <1>1. UNCHANGED <<room, crossed>> /\ at[c] = "checked" /\ at'[c] # "checked"
    BY DEF InsertMessage, tables, Goto, Typed, TypeOK, Goroutine
  <1>2. "text" \in mixed' => "text" \in mixed \/ (room # None /\ room.emoji /\ draft[c] = "text")
    BY DEF InsertMessage
  <1>3. \A d \in Conn \ {c} : at'[d] = at[d] /\ draft'[d] = draft[d]
    BY DEF InsertMessage, Goto, Typed, TypeOK, Goroutine
  <1> QED BY <1>1, <1>2, <1>3 DEF PostInv, EmojiRoomKept

\* Setting the flag is remembered when a text waits for its INSERT.
LEMMA PostPatch ==
    ASSUME Typed, PostInv, NEW q \in Request, PatchRoom(q)
    PROVE  PostInv'
  <1>1. UNCHANGED <<draft, mixed>> /\ Marked /\ \A c \in Conn : at'[c] = at[c]
    BY EventConstants DEF PatchRoom, conns, Marked, Goto, Typed, TypeOK, Goroutine
  <1>2. room' # None /\ room'.emoji /\ Drafted # {} => "post" \in crossed'
    BY DEF PatchRoom, Typed, TypeOK, Room
  <1> QED BY <1>1, <1>2 DEF PostInv, EmojiRoomKept, Drafted, Marked

\* What neither checks a text nor changes the flag.
LEMMA PostFrame ==
    ASSUME PostInv, UNCHANGED <<mixed, draft>>, Marked,
           room' # None => room # None /\ room'.emoji = room.emoji,
           \A c \in Conn : at'[c] = "checked" => at[c] = "checked"
    PROVE  PostInv'
  BY DEF PostInv, EmojiRoomKept, Marked

-----------------------------------------------------------------------------

\* The invariant.
Inv == Typed /\ RoomInv /\ NameInv /\ PostInv

\* The four parts hold at the start.
LEMMA InvInit == Init => Inv
  <1>1. Init => PostInv
    BY DEF Init, PostInv, EmojiRoomKept, Goroutine
  <1> QED BY <1>1, TypedInit, RoomInit, NameInit DEF Inv

\* Every action keeps the four parts.
LEMMA InvStep == Inv /\ [Next]_vars => Inv'
  <1> SUFFICES ASSUME Inv, [Next]_vars PROVE Inv'
    OBVIOUS
  <1> USE DEF Inv
  <1>1. ASSUME NEW g \in Goroutine, EnsureUser(g) PROVE Inv'
    <2>1. UNCHANGED <<mixed, draft>> /\ Marked /\ (room' # None => room # None /\ room'.emoji = room.emoji)
          /\ \A d \in Conn : at'[d] = "checked" => at[d] = "checked"
      BY <1>1, EventConstants DEF EnsureUser, Goto, Goroutine, Marked, tables, conns, Typed, TypeOK, RequestsOK, Room
    <2>2. PostInv'
      BY <2>1, PostFrame
    <2> QED BY <1>1, <2>2, TypedEnsure, RoomEnsure, NameEnsure
  <1>2. ASSUME NEW g \in Goroutine, InsertUser(g) PROVE Inv'
    <2>1. UNCHANGED <<mixed, draft>> /\ Marked /\ (room' # None => room # None /\ room'.emoji = room.emoji)
          /\ \A d \in Conn : at'[d] = "checked" => at[d] = "checked"
      BY <1>2, EventConstants DEF InsertUser, Goto, Goroutine, Marked, tables, conns, Typed, TypeOK, RequestsOK, Room
    <2>2. PostInv'
      BY <2>1, PostFrame
    <2> QED BY <1>2, <2>2, TypedInsert, RoomInsert, NameInsert, NameLateInsert
  <1>3. ASSUME NEW g \in Goroutine, GetUserAgain(g) PROVE Inv'
    <2>1. UNCHANGED <<mixed, draft>> /\ Marked /\ (room' # None => room # None /\ room'.emoji = room.emoji)
          /\ \A d \in Conn : at'[d] = "checked" => at[d] = "checked"
      BY <1>3, EventConstants DEF GetUserAgain, Goto, Goroutine, Marked, tables, conns, Typed, TypeOK, RequestsOK, Room
    <2>2. PostInv'
      BY <2>1, PostFrame
    <2> QED BY <1>3, <2>2, TypedAgain, RoomAgain, NameAgain
  <1>4. ASSUME NEW q \in Request, CheckOwner(q) PROVE Inv'
    <2>1. UNCHANGED <<mixed, draft>> /\ Marked /\ (room' # None => room # None /\ room'.emoji = room.emoji)
          /\ \A d \in Conn : at'[d] = "checked" => at[d] = "checked"
      BY <1>4, EventConstants DEF CheckOwner, Goto, Goroutine, Marked, tables, conns, Typed, TypeOK, RequestsOK, Room
    <2>2. PostInv'
      BY <2>1, PostFrame
    <2> QED BY <1>4, <2>2, TypedCheckOwner, RoomCheckOwner, NameCheckOwner
  <1>5. ASSUME NEW q \in Request, GetMe(q) PROVE Inv'
    <2>1. UNCHANGED <<mixed, draft>> /\ Marked /\ (room' # None => room # None /\ room'.emoji = room.emoji)
          /\ \A d \in Conn : at'[d] = "checked" => at[d] = "checked"
      BY <1>5, EventConstants DEF GetMe, Respond, Goto, Goroutine, Marked, tables, conns, Typed, TypeOK, RequestsOK, Room
    <2>2. PostInv'
      BY <2>1, PostFrame
    <2> QED BY <1>5, <2>2, TypedGetMe, RoomGetMe, NameGetMe
  <1>6. ASSUME NEW q \in Request, UpdateDisplayName(q) PROVE Inv'
    <2>1. UNCHANGED <<mixed, draft>> /\ Marked /\ (room' # None => room # None /\ room'.emoji = room.emoji)
          /\ \A d \in Conn : at'[d] = "checked" => at[d] = "checked"
      BY <1>6, EventConstants DEF UpdateDisplayName, Goto, Goroutine, Marked, tables, conns, Typed, TypeOK, RequestsOK, Room
    <2>2. PostInv'
      BY <2>1, PostFrame
    <2> QED BY <1>6, <2>2, TypedUpdate, RoomUpdate, NameUpdate
  <1>7. ASSUME NEW q \in Request, ReadBack(q) PROVE Inv'
    <2>1. UNCHANGED <<mixed, draft>> /\ Marked /\ (room' # None => room # None /\ room'.emoji = room.emoji)
          /\ \A d \in Conn : at'[d] = "checked" => at[d] = "checked"
      BY <1>7, EventConstants DEF ReadBack, Goto, Goroutine, Marked, tables, conns, Typed, TypeOK, RequestsOK, Room
    <2>2. PostInv'
      BY <2>1, PostFrame
    <2> QED BY <1>7, <2>2, TypedReadBack, RoomReadBack, NameReadBack
  <1>8. ASSUME NEW q \in Request, CopyRegistry(q) PROVE Inv'
    <2>1. UNCHANGED <<mixed, draft>> /\ Marked /\ (room' # None => room # None /\ room'.emoji = room.emoji)
          /\ \A d \in Conn : at'[d] = "checked" => at[d] = "checked"
      BY <1>8, EventConstants DEF CopyRegistry, Goto, Goroutine, Marked, tables, conns, Typed, TypeOK, RequestsOK, Room
    <2>2. PostInv'
      BY <2>1, PostFrame
    <2> QED BY <1>8, <2>2, TypedCopy, RoomCopy, NameCopy
  <1>9. ASSUME NEW q \in Request, NEW c \in Conn, SetDisplayName(q, c) PROVE Inv'
    <2>1. UNCHANGED <<mixed, draft>> /\ Marked /\ (room' # None => room # None /\ room'.emoji = room.emoji)
          /\ \A d \in Conn : at'[d] = "checked" => at[d] = "checked"
      BY <1>9, EventConstants DEF SetDisplayName, Goto, Goroutine, Marked, tables, conns, Typed, TypeOK, RequestsOK, Room
    <2>2. PostInv'
      BY <2>1, PostFrame
    <2> QED BY <1>9, <2>2, TypedSet, RoomSet, NameSet
  <1>10. ASSUME NEW q \in Request, OpenRows(q) PROVE Inv'
    <2>1. UNCHANGED <<mixed, draft>> /\ Marked /\ (room' # None => room # None /\ room'.emoji = room.emoji)
          /\ \A d \in Conn : at'[d] = "checked" => at[d] = "checked"
      BY <1>10, EventConstants DEF OpenRows, Respond, Goto, Goroutine, Marked, tables, conns, Typed, TypeOK, RequestsOK, Room
    <2>2. PostInv'
      BY <2>1, PostFrame
    <2> QED BY <1>10, <2>2, TypedOpen, RoomOpen, NameOpen
  <1>11. ASSUME NEW q \in Request, NotifyName(q) PROVE Inv'
    <2>1. UNCHANGED <<mixed, draft>> /\ Marked /\ (room' # None => room # None /\ room'.emoji = room.emoji)
          /\ \A d \in Conn : at'[d] = "checked" => at[d] = "checked"
      BY <1>11, EventConstants DEF NotifyName, Respond, Goto, Goroutine, Marked, tables, conns, Typed, TypeOK, RequestsOK, Room
    <2>2. PostInv'
      BY <2>1, PostFrame
    <2> QED BY <1>11, <2>2, TypedNotify, RoomNotify, NameNotify
  <1>12. ASSUME NEW q \in Request, PatchRoom(q) PROVE Inv'
    BY <1>12, TypedPatch, RoomPatch, NamePatch, PostPatch
  <1>13. ASSUME NEW q \in Request, ReadUpdated(q) PROVE Inv'
    <2>1. UNCHANGED <<mixed, draft>> /\ Marked /\ (room' # None => room # None /\ room'.emoji = room.emoji)
          /\ \A d \in Conn : at'[d] = "checked" => at[d] = "checked"
      BY <1>13, EventConstants DEF ReadUpdated, Goto, Goroutine, Marked, tables, conns, Typed, TypeOK, RequestsOK, Room
    <2>2. PostInv'
      BY <2>1, PostFrame
    <2> QED BY <1>13, <2>2, TypedRead, RoomRead, NameRead
  <1>14. ASSUME NEW q \in Request, SetRoomOwner(q) PROVE Inv'
    <2>1. UNCHANGED <<mixed, draft>> /\ Marked /\ (room' # None => room # None /\ room'.emoji = room.emoji)
          /\ \A d \in Conn : at'[d] = "checked" => at[d] = "checked"
      BY <1>14, EventConstants DEF SetRoomOwner, Respond, Goto, Goroutine, Marked, tables, conns, Typed, TypeOK, RequestsOK, Room
    <2>2. PostInv'
      BY <2>1, PostFrame
    <2> QED BY <1>14, <2>2, TypedTransfer, RoomTransfer, RoomLateTransfer, NameTransfer
  <1>15. ASSUME NEW q \in Request, DeleteRoom(q) PROVE Inv'
    <2>1. UNCHANGED <<mixed, draft>> /\ Marked /\ (room' # None => room # None /\ room'.emoji = room.emoji)
          /\ \A d \in Conn : at'[d] = "checked" => at[d] = "checked"
      BY <1>15, EventConstants DEF DeleteRoom, Goto, Goroutine, Marked, tables, conns, Typed, TypeOK, RequestsOK, Room
    <2>2. PostInv'
      BY <2>1, PostFrame
    <2> QED BY <1>15, <2>2, TypedDelete, RoomDelete, NameDelete
  <1>16. ASSUME NEW q \in Request, Emit(q) PROVE Inv'
    <2>1. UNCHANGED <<mixed, draft>> /\ Marked /\ (room' # None => room # None /\ room'.emoji = room.emoji)
          /\ \A d \in Conn : at'[d] = "checked" => at[d] = "checked"
      BY <1>16, EventConstants DEF Emit, Respond, Goto, Goroutine, Marked, tables, conns, Typed, TypeOK, RequestsOK, Room
    <2>2. PostInv'
      BY <2>1, PostFrame
    <2> QED BY <1>16, <2>2, TypedEmit, RoomEmit, NameEmit
  <1>17. ASSUME NEW c \in Conn, Register(c) PROVE Inv'
    <2>1. UNCHANGED <<mixed, draft>> /\ Marked /\ (room' # None => room # None /\ room'.emoji = room.emoji)
          /\ \A d \in Conn : at'[d] = "checked" => at[d] = "checked"
      BY <1>17, EventConstants DEF Register, Respond, Goto, Goroutine, Marked, tables, conns, Typed, TypeOK, RequestsOK, Room
    <2>2. PostInv'
      BY <2>1, PostFrame
    <2> QED BY <1>17, <2>2, TypedRegister, RoomRegister, NameRegister
  <1>18. ASSUME NEW c \in Conn, Disconnect(c) PROVE Inv'
    <2>1. UNCHANGED <<mixed, draft>> /\ Marked /\ (room' # None => room # None /\ room'.emoji = room.emoji)
          /\ \A d \in Conn : at'[d] = "checked" => at[d] = "checked"
      BY <1>18, EventConstants DEF Disconnect, Goto, Goroutine, Marked, tables, conns, Typed, TypeOK, RequestsOK, Room
    <2>2. PostInv'
      BY <2>1, PostFrame
    <2> QED BY <1>18, <2>2, TypedDisconnect, RoomDisconnect, NameDisconnect
  <1>19. ASSUME NEW c \in Conn, CheckMessage(c) PROVE Inv'
    BY <1>19, TypedCheckMessage, RoomCheckMessage, NameCheckMessage, PostCheck
  <1>20. ASSUME NEW c \in Conn, InsertMessage(c) PROVE Inv'
    BY <1>20, TypedInsertMessage, RoomInsertMessage, NameInsertMessage, PostInsert
  <1>21. ASSUME NEW c \in Conn, PublishMessage(c) PROVE Inv'
    <2>1. UNCHANGED <<mixed, draft>> /\ Marked /\ (room' # None => room # None /\ room'.emoji = room.emoji)
          /\ \A d \in Conn : at'[d] = "checked" => at[d] = "checked"
      BY <1>21, EventConstants DEF PublishMessage, Goto, Goroutine, Marked, tables, conns, Typed, TypeOK, RequestsOK, Room
    <2>2. PostInv'
      BY <2>1, PostFrame
    <2> QED BY <1>21, <2>2, TypedPublishMessage, RoomPublish, NamePublish
  <1>22. CASE Fanout
    <2>1. UNCHANGED <<mixed, draft, room, crossed, at>>
      BY <1>22 DEF Fanout, tables, places, conns
    <2>2. PostInv'
      BY <2>1, PostFrame DEF Marked
    <2> QED BY <1>22, <2>2, TypedFanout, RoomDelivered, NameDelivered
  <1>23. CASE UNCHANGED vars
    <2>1. UNCHANGED <<verbs, name, room, cursor, at, call, got, todo, cached, draft, feed, told,
                   mixed, crossed, untold>>
      BY <1>23 DEF vars
    <2>2. Typed'
      BY <2>1 DEF Typed, TypeOK, RequestsOK, ConnsOK
    <2>3. RoomInv'
      BY <2>1, RoomFrame DEF Marked, Kept
    <2>4. NameInv'
      BY <2>1, NameFrame DEF Marked, Kept, Registered
    <2>5. PostInv'
      BY <2>1, PostFrame DEF Marked
    <2> QED BY <2>2, <2>3, <2>4, <2>5
  <1>24. ASSUME NEW g \in Goroutine, Fail(g) PROVE Inv'
    <2>1. UNCHANGED <<mixed, draft>> /\ Marked /\ (room' # None => room # None /\ room'.emoji = room.emoji)
          /\ \A d \in Conn : at'[d] = "checked" => at[d] = "checked"
      BY <1>24, EventConstants DEF Fail, Respond, Goto, Goroutine, Marked, tables, conns, Typed, TypeOK
    <2>2. PostInv'
      BY <2>1, PostFrame
    <2> QED BY <1>24, <2>2, TypedFail, RoomFail, NameFail
  <1>25. CASE Next
    <2>1. ASSUME NEW q \in Request, CheckOwner(q) \/ Serve(q) PROVE Inv'
      BY <2>1, <1>4, <1>5, <1>6, <1>7, <1>8, <1>9, <1>10, <1>11, <1>12, <1>13, <1>14, <1>15, <1>16 DEF Serve
    <2>2. ASSUME NEW c \in Conn, Disconnect(c) \/ CheckMessage(c) \/ Receive(c) PROVE Inv'
      BY <2>2, <1>17, <1>18, <1>19, <1>20, <1>21 DEF Receive
    <2> HIDE DEF Inv
    <2> QED BY <1>25, <1>1, <1>2, <1>3, <1>22, <1>24, <2>1, <2>2 DEF Next, Identify
  <1> QED BY <1>23, <1>25

\* The invariant holds in every reachable state.
LEMMA Always == Spec => []Inv
  BY InvInit, InvStep, PTL DEF Spec

\* No goroutine and no table leaves its domain, and whoever is connected has a
\* display name (main.go 788-800).
THEOREM TypeCorrect == Spec => []TypeOK
  <1>1. Inv => TypeOK
    BY DEF Inv, Typed
  <1> QED BY <1>1, Always, PTL

\* Whatever else goes through the hub, the pages end with the row, unless
\* writes overlapped (handlers.go 231-236, 275-283) or the last edit could not
\* read its row again (235): nothing else leaves an old row on them.
THEOREM RoomShownIsRowHolds == Spec => []RoomShownIsRow
  <1>1. Inv => RoomShownIsRow
    <2> SUFFICES ASSUME Inv, Quiet, "room" \notin crossed, "room" \notin untold PROVE told.room = room
      BY DEF RoomShownIsRow
    <2>1. /\ feed = <<>> /\ \A q \in Request : at[q] \notin {"reread", "emit"}
          /\ told \in [room : Room \union {None}, name : Row] /\ room \in Room \union {None}
      BY DEF Quiet, Goroutine, Inv, Typed, TypeOK
    <2>2. 1 .. Len(feed) = {}
      BY <2>1
    <2>3. CASE room = None
      BY <2>1, <2>2, <2>3 DEF Inv, RoomInv, Gone
    <2>4. CASE room # None
      <3>1. Arrives("owner", room.owner) /\ Arrives("emoji", room.emoji) /\ told.room # None
        BY <2>1, <2>4 DEF Inv, RoomInv, Gone, OwnerComes, EmojiComes, Tells, Holding
      <3>2. told.room.owner = room.owner /\ told.room.emoji = room.emoji
        BY <2>2, <3>1 DEF Arrives, Page
      <3>3. told.room \in Room /\ room \in Room
        BY <2>1, <2>4, <3>1
      <3> QED BY <3>2, <3>3 DEF Room
    <2> QED BY <2>3, <2>4
  <1> QED BY <1>1, Always, PTL

\* A rename reaches every connection, unless it met another one or a connection
\* that had read the name before; and then the room too, unless its rooms could
\* not be read (notify.go 79-88, 165-189).
THEOREM NamesAgreeHolds == Spec => []NamesAgree
  <1>1. Inv => NamesAgree
    <2> SUFFICES ASSUME Inv, Quiet, "name" \notin crossed
                 PROVE  /\ \A c \in Conn : at[c] = "up" => cached[c] = name
                        /\ "name" \notin untold /\ name \in Name /\ room # None => told.name = name
      BY DEF NamesAgree
    <2>1. feed = <<>> /\ \A q \in Request : ~Renaming(q)
      BY DEF Quiet, Goroutine, Renaming
    <2>2. 1 .. Len(feed) = {}
      BY <2>1
    <2>3. \A c \in Conn : at[c] = "up" => cached[c] = name
      BY <2>1 DEF Inv, NameInv, CacheComes, OnItsWay, Registered
    <2>4. "name" \notin untold /\ name \in Name /\ room # None => told.name = name
      BY <2>1, <2>2 DEF Inv, NameInv, NameComes, Arrives, Page
    <2> QED BY <2>3, <2>4
  <1> QED BY <1>1, Always, PTL

\* A content with a letter in it gets into an emoji-only room only past a check
\* that is older than the flag, for any number of connections (main.go 370-389);
\* of bare digits nothing is said, DigitPasses tells why.
THEOREM EmojiRoomKeptHolds == Spec => []EmojiRoomKept
  <1>1. Inv => EmojiRoomKept
    BY DEF Inv, PostInv
  <1> QED BY <1>1, Always, PTL

-----------------------------------------------------------------------------
(* Nobody is left waiting.  SomebodyGoesOn says it with ENABLED; here it is *)
(* said with what the steps ask for.                                        *)

\* A user's row is not removed, ensureUser finds it the second time, and the
\* open cursor belongs to the request that is telling the rooms.
WayOpen ==
    /\ \A g \in Goroutine : at[g] # "failed" /\ (at[g] = "again" => name # None)
    /\ \A q \in Request :
          /\ at[q] \in {"insert", "again", "ensured"} => call[q].verb \in {"me", "rename"}
          /\ at[q] = "notify" <=> cursor = q

\* A step that moves one goroutine to a place that is none of these, and keeps
\* the users row and the cursor, keeps the way open.
LEMMA WayOpenFrame ==
    ASSUME Typed, WayOpen, NEW g \in Goroutine, NEW place,
           at' = [at EXCEPT ![g] = place], at[g] # "notify",
           place \notin {"insert", "again", "ensured", "failed", "notify"},
           name # None => name' # None, cursor' = cursor,
           \A q \in Request \ {g} : call'[q] = call[q]
    PROVE  WayOpen'
  <1> USE EventConstants DEF Goroutine
  <1>1. \A h \in Goroutine : at'[h] = IF h = g THEN place ELSE at[h]
    BY DEF Typed, TypeOK
  <1> QED BY <1>1 DEF WayOpen

\* The steps of ensureUser keep the way open: the second of two first requests
\* finds the row the first one has put in.
LEMMA WayOpenIdentify ==
    ASSUME Typed, WayOpen, NEW g \in Goroutine, EnsureUser(g) \/ Identify(g)
    PROVE  WayOpen'
  <1> USE EventConstants DEF Goroutine, Typed, TypeOK, WayOpen, tables, Goto
  <1>1. CASE EnsureUser(g)
    <2>1. /\ at' = [at EXCEPT ![g] = IF name = None THEN "insert" ELSE "ensured"]
          /\ at[g] = "idle" /\ UNCHANGED <<name, cursor>>
      BY <1>1 DEF EnsureUser
    <2>2. \A q \in Request : IF q = g THEN call'[q].verb \in {"me", "rename"}
                                     ELSE call'[q] = call[q]
      BY <1>1 DEF EnsureUser
    <2> QED BY <2>1, <2>2
  <1>2. CASE InsertUser(g)
    <2>1. /\ at[g] = "insert" /\ UNCHANGED <<cursor, call>> /\ name' # None
          /\ at' = [at EXCEPT ![g] = IF name = None THEN "ensured" ELSE "again"]
      BY <1>2 DEF InsertUser, IsUniqueViolation
    <2> QED BY <2>1
  <1>3. CASE GetUserAgain(g)
    <2>1. /\ at[g] = "again" /\ UNCHANGED <<cursor, call, name>>
          /\ at' = [at EXCEPT ![g] = "ensured"]
      BY <1>3 DEF GetUserAgain
    <2> QED BY <2>1
  <1> QED BY <1>1, <1>2, <1>3 DEF Identify

\* So do the requests: a cursor is opened on the way to telling the rooms and
\* closed by it.
LEMMA WayOpenRequest ==
    ASSUME Typed, WayOpen, NEW q \in Request, CheckOwner(q) \/ Serve(q)
    PROVE  WayOpen'
  <1> USE EventConstants DEF Goroutine, Goto
  <1>t. /\ at \in [Goroutine -> Places] /\ call \in [Request -> Call]
        /\ cursor \in Request \union {None}
    BY DEF Typed, TypeOK
  <1>1. CASE CheckOwner(q)
    <2>1. PICK verb \in {"patch", "transfer", "delete"} : at' = [at EXCEPT ![q] = verb]
      BY <1>1 DEF CheckOwner
    <2>2. /\ at[q] = "idle" /\ UNCHANGED <<name, cursor>>
          /\ \A p \in Request \ {q} : call'[p] = call[p]
      BY <1>1, <1>t DEF CheckOwner, tables
    <2> QED BY <2>1, <2>2, WayOpenFrame
  <1>2. CASE GetMe(q)
    BY <1>2, <1>t, WayOpenFrame DEF GetMe, Respond, tables
  <1>3. CASE UpdateDisplayName(q)
    <2>1. name' # None
      BY <1>3 DEF UpdateDisplayName, Asks, Typed, RequestsOK
    <2> QED BY <1>3, <2>1, WayOpenFrame DEF UpdateDisplayName
  <1>4. CASE ReadBack(q) \/ CopyRegistry(q) \/ ReadUpdated(q)
    BY <1>4, WayOpenFrame DEF ReadBack, CopyRegistry, ReadUpdated, tables
  <1>5. ASSUME NEW c \in Conn, SetDisplayName(q, c) PROVE WayOpen'
    BY <1>5 DEF SetDisplayName, tables, WayOpen
  <1>6. CASE OpenRows(q)
    <2>1. CASE Respond(q) /\ UNCHANGED cursor
      BY <1>6, <2>1, <1>t, WayOpenFrame DEF OpenRows, Respond
    <2>2. CASE ~(Respond(q) /\ UNCHANGED cursor)
      <3>1. /\ at[q] = "walk" /\ cursor = None /\ cursor' = q
            /\ at' = [at EXCEPT ![q] = "notify"] /\ UNCHANGED <<call, name>>
        BY <1>6, <2>2, Zenon DEF OpenRows, Statement
      <3> QED BY <3>1, <1>t DEF WayOpen
    <2> QED BY <2>1, <2>2
  <1>7. CASE NotifyName(q)
    <2>1. /\ at[q] = "notify" /\ cursor' = None /\ at' = [at EXCEPT ![q] = "idle"]
          /\ name' = name /\ \A p \in Request \ {q} : call'[p] = call[p]
      BY <1>7, <1>t DEF NotifyName, Respond
    <2>2. cursor = q /\ \A p \in Request \ {q} : at[p] # "notify"
      BY <2>1 DEF WayOpen
    <2> QED BY <2>1, <2>2, <1>t DEF WayOpen
  <1>8. CASE PatchRoom(q) \/ DeleteRoom(q)
    BY <1>8, WayOpenFrame DEF PatchRoom, DeleteRoom
  <1>9. CASE SetRoomOwner(q)
    <2>1. CASE room = None
      BY <1>9, <2>1, <1>t, WayOpenFrame DEF SetRoomOwner, Respond
    <2>2. CASE room # None
      BY <1>9, <2>2, WayOpenFrame DEF SetRoomOwner
    <2> QED BY <2>1, <2>2
  <1>10. CASE Emit(q)
    BY <1>10, <1>t, WayOpenFrame DEF Emit, Respond, tables
  <1> QED BY <1>1, <1>2, <1>3, <1>4, <1>5, <1>6, <1>7, <1>8, <1>9, <1>10 DEF Serve

\* Every step keeps the way open.
LEMMA WayOpenStep ==
    ASSUME Typed, WayOpen, [Next]_vars
    PROVE  WayOpen'
  <1> USE EventConstants DEF Goroutine, Goto
  <1>t. at \in [Goroutine -> Places] /\ call \in [Request -> Call]
    BY DEF Typed, TypeOK
  <1>1. ASSUME NEW c \in Conn, Disconnect(c) \/ CheckMessage(c) \/ PublishMessage(c)
        PROVE  WayOpen'
    BY <1>1, WayOpenFrame DEF Disconnect, CheckMessage, PublishMessage, tables
  <1>2. ASSUME NEW c \in Conn, Register(c) PROVE WayOpen'
    <2>1. CASE Admits(c)
      BY <1>2, <2>1, WayOpenFrame DEF Register, tables
    <2>2. CASE ~Admits(c)
      BY <1>2, <2>2, WayOpenFrame DEF Register, Respond, tables
    <2> QED BY <2>1, <2>2
  <1>3. ASSUME NEW c \in Conn, InsertMessage(c) PROVE WayOpen'
    <2>1. PICK place \in {"stored", "up"} : at' = [at EXCEPT ![c] = place]
      BY <1>3 DEF InsertMessage
    <2> QED BY <1>3, <2>1, WayOpenFrame DEF InsertMessage, tables
  <1>4. CASE Fanout \/ UNCHANGED vars
    BY <1>4 DEF Fanout, vars, tables, places, WayOpen
  <1>5. ASSUME NEW g \in Goroutine, Fail(g) PROVE WayOpen'
    <2>1. at' = [at EXCEPT ![g] = "idle"] /\ at[g] # "notify" /\ UNCHANGED <<name, cursor>>
      BY <1>5 DEF Fail, Respond, tables
    <2>2. \A q \in Request \ {g} : call'[q] = call[q]
      BY <1>5, <1>t DEF Fail, Respond
    <2> QED BY <2>1, <2>2, WayOpenFrame
  <1> QED BY <1>1, <1>2, <1>3, <1>4, <1>5, WayOpenIdentify, WayOpenRequest DEF Next, Receive

\* The way is open in every behaviour.
LEMMA AlwaysOpen == Spec => []WayOpen
  <1>1. Init => WayOpen
    BY EventConstants DEF Init, WayOpen, Goroutine
  <1>2. Inv => Typed
    BY DEF Inv
  <1> QED BY Always, <1>1, <1>2, WayOpenStep, PTL DEF Spec

\* However many requests are a user's first ones, none of them makes ensureUser
\* fail for another: the insert that meets a row finds it the second time, and
\* only a failed statement is answered with an error.
THEOREM FirstRequestsSucceed == Spec => [](\A g \in Goroutine : at[g] # "failed")
  <1>1. WayOpen => \A g \in Goroutine : at[g] # "failed"
    BY DEF WayOpen
  <1> QED BY AlwaysOpen, <1>1, PTL

\* The conditions under which a step of Serve is open to a request.
ServeOpen(q) ==
    \/ at[q] = "ensured" /\ (Asks(q, "me") \/ (Asks(q, "rename") /\ Statement))
    \/ at[q] \in {"updated", "patch", "reread", "transfer", "delete"} /\ Statement
    \/ at[q] = "copy"
    \/ at[q] = "walk" /\ (todo[q] # {} \/ Statement)
    \/ at[q] \in {"notify", "emit"} /\ Len(feed) < FeedCap

\* The conditions under which a step of Receive is open to a connection.
ReceiveOpen(c) ==
    \/ at[c] = "ensured"
    \/ at[c] = "checked" /\ Statement
    \/ at[c] = "stored" /\ Len(feed) < FeedCap

\* Something has been begun and a step is open, the hub's included: neither the
\* open cursor nor a full channel is waited for by whoever has to free it.
StepOpen ==
    (\E g \in Goroutine : at[g] \notin {"idle", "up"})
    => \/ feed # <<>>
       \/ \E g \in Goroutine : at[g] \in {"insert", "again"} /\ Statement
       \/ \E q \in Request : ServeOpen(q)
       \/ \E c \in Conn : ReceiveOpen(c)

\* Nobody is left with nobody who can go on, for any number of requests and
\* connections and any capacity.
THEOREM StepsOpen == Spec => []StepOpen
  <1>1. Typed /\ WayOpen => StepOpen
    <2> SUFFICES ASSUME Typed, WayOpen, NEW g \in Goroutine, at[g] \notin {"idle", "up"},
                        feed = <<>>
                 PROVE  \/ \E h \in Goroutine : at[h] \in {"insert", "again"} /\ Statement
                        \/ \E q \in Request : ServeOpen(q)
                        \/ \E c \in Conn : ReceiveOpen(c)
      BY DEF StepOpen
    <2>1. Len(feed) < FeedCap
      BY EventConstants
    <2>2. CASE cursor # None
      <3>1. cursor \in Request /\ at[cursor] = "notify"
        BY <2>2 DEF Typed, TypeOK, WayOpen
      <3> QED BY <2>1, <3>1 DEF ServeOpen
    <2>3. CASE cursor = None
      <3>1. Statement /\ at[g] \in Places \ {"idle", "up", "failed"}
        BY <2>3 DEF Statement, Typed, TypeOK, WayOpen
      <3>2. CASE g \in Conn
        BY <2>1, <3>1, <3>2 DEF ReceiveOpen, Typed, ConnsOK
      <3>3. CASE g \in Request
        <4>1. at[g] \notin {"checked", "stored"}
          BY <3>3 DEF Typed, RequestsOK
        <4>2. at[g] = "ensured" => Asks(g, "me") \/ Asks(g, "rename")
          BY <3>3 DEF WayOpen, Asks
        <4> QED BY <2>1, <3>1, <3>3, <4>1, <4>2 DEF ServeOpen, Places
      <3> QED BY <3>2, <3>3 DEF Goroutine
    <2> QED BY <2>2, <2>3
  <1>2. Inv => Typed
    BY DEF Inv
  <1> QED BY Always, AlwaysOpen, <1>1, <1>2, PTL
=============================================================================
