# A TLA+ model of experimental-chat-server

The repository holds three chat servers: `server-go` (accounts, many rooms per
connection, REST plus one WebSocket per client), and the older, single-room
`server-kotlin` and `server-elixir`. `server-go` is the largest and the one with the
interesting concurrency, and most of the modules are about it; of the other two the part
that keeps state, the hub and the presence of a room, is modelled. Everything below is
read from the source under `src/`; comments and tests are quoted only where the code
contradicts them.

## 1. Inventory

| Part | State it keeps | Operations | Hard behaviour | What makes it correct |
|---|---|---|---|---|
| Hub manager, room hubs (`server-go/main.go` 111-304) | `sync.Map` room → `*RoomHub`; per hub `clients`, an idle timer, the `broadcast` buffer, `done` | `attachClient`, `tryRegister`, `run` (register, unregister, broadcast, idle) | attach against idle teardown, slow clients, publishers holding a dead hub | one hub per room; ordered delivery without gaps; nobody blocks on a dead hub; idle hubs go |
| Connections (`main.go` 308-454, 782-842; `client_registry.go`) | `Client.send`, `Client.hubs`, `hubsMu`, the registry | `handleWebSocket`, `readPump`, `writePump` | coming up and going down while REST requests walk the registry | a member's open connection is in its rooms' hubs; the snapshot is first; exit is clean |
| REST to WS bridge (`notify.go`) | none of its own | `attachUserToRoom`, `detachUserFromRoom`, `notifyUser`, `notifyRoom`, `emit*` | a walk over a copied set, several walks at once | connections follow memberships |
| Users and their names (`handlers.go` 12-70, `repo.go` 13-75, `notify.go` 165-189) | table `users`, `Client.displayName` | `ensureUser`, `handlePutMe`, `updateUserDisplayName`, `emitNameChanged` | two first requests, a cursor open across sends, connections that come up meanwhile | every connection and page shows the name of the row |
| Rooms, members, invites (`handlers.go`, `repo.go`) | tables `rooms`, `room_members`, `invites` | create, patch, transfer, leave, delete, hide, join, invite | check, then write, with other requests in between; failing statements | one owner, who is a member; cap; no orphan rows; private rooms by invite only |
| Messages (`main.go` 360-419, `repo.go` 318-355) | table `messages` | `handleIncomingMsg`, `listMessages` | order of ids against order of delivery; stale membership and emoji checks | history and live stream agree |
| Sessions, middleware (`main.go` 640-780) | signed cookie | sign, verify, issue | none concurrent | verify accepts what sign made |
| Emoji validation (three languages) | none | `isEmojiOnly` | rune sequences | accepts what its comments say |
| Schema, `initDB` | one SQLite connection, foreign keys; MySQL as the other choice | start-up | cascades | stands under Membership |
| Browser client (`server-go/static/app.js`) | `rooms`, `messages`, active room, socket, reconnect timer | event handlers, `selectRoom`, reconnect | answers of `fetch` racing with live events, two sockets | shows the open room's messages without gaps |
| Kotlin hub (`RoomHubManager.kt`, `ChatWebSocketHandler.kt`) | map of hubs, sessions, idle task | register, unregister, broadcast | lookup and registration are two steps, removal by key | as the Go hub |
| Elixir presence (`room_presence.ex`, `chat_handler.ex`) | one GenServer per room, monitors, idle timer | join, leave, DOWN, idle_check | lookup against stop | counts match the connected processes |
| Kotlin and Elixir REST, repositories, their shared client `app.js` | tables `rooms`, `messages` | create, delete, list | two-statement delete | no message without a room |

How they interact: a REST request writes the database, then walks the client registry
and the hub map (calls into shared state, in the request's goroutine); a connection's
read loop writes the database and publishes to a hub (channel); a hub's loop hands frames
to every connection's `send` channel and closes the sockets of slow ones, which ends
their read loops. The only locks are `hubsMu`, the registry's and `sync.Map`'s own.

`PROJECT.json` lists every component with its status and every hazard at its line.

## 2. Modules

| Module | Models | Role |
|---|---|---|
| `RoomFanout` | what a room promises its subscribers | abstract specification |
| `RoomHub` | the hubs of one room and everyone who touches them | detailed; refines `RoomFanout` |
| `GroupRooms` | what the tables promise about group rooms | abstract specification |
| `Membership` | REST handlers over the tables | requests as check and write steps; refines `GroupRooms` |
| `WsSession` | one user's connections and the REST to WS bridge, for one room | uses the hub as `RoomFanout` gives it |
| `RoomEvents` | what members are told of a room's row and of a user's name; the checks of a message | users, the open cursor, the hub's channel |
| `EmojiOnly` | `isEmojiOnly` | pure; used by `RoomEvents` |
| `RoomView` | a message from its INSERT to the page | history and live stream together |
| `ClientLink` | the browser page's connection | sockets, back-off, button, nickname saves |
| `KotlinHub` | the hub map of the Kotlin server | one room |
| `RoomRoster` | what the Elixir server promises about who is online | abstract specification |
| `ElixirPresence` | the presence process of the Elixir server | one room; refines `RoomRoster` |
| `RoomHubProofs`, `MembershipProofs`, `WsSessionProofs`, `RoomEventsProofs`, `RoomViewProofs`, `ClientLinkProofs`, `KotlinHubProofs`, `ElixirPresenceProofs` | | theorems |
| `MC*` | | TLC instances |

Definitions whose comment says that they are a mutant of another one belong to the checks
(section 3), not to the models.

### RoomFanout and RoomHub

`RoomHub` models ONE key of `HubManager.hubs`. `current` is the map entry; a hub goes
through `installed` (LoadOrStore done, goroutine not started), `running`, `removed`
(CompareAndDelete done) and `done` (channel closed). `attachClient` is `BeginAttach`,
`Load`, `LoadOrStore`, `StartRun`, then `Register` or `RegisterDone`: one action per
access to shared state, so every interleaving of the fast path, the slow path, the lost
create race and the retry is there. An unbuffered channel is a rendezvous: `Register` and
`Unregister` are the send and the receiving case of `run` in one step. `broadcast` is
buffered, so `Publish` does not need `run` and also succeeds on a dead hub while its
buffer has room, as in the code. `Deliver` is a whole pass of the broadcast loop: no
other case of `run` can interleave, and `send` channels are touched concurrently only by
`writePump`, which makes room and so could only have helped earlier, and by whoever else
puts frames into them: the snapshot, an error, a notification, another room's hub. The model
keeps this room's events in `send` and lets the others be there or not: any set of clients
that includes those whose channel this room's events fill may be found full (`Deliver`), and
`RoomFanout`'s subscribers may be dropped at any fan-out for the same reason.

Addresses: a hub identity may be used again for a new hub once nothing refers to the old
one (`Unreferenced`), which is what the garbage collector allows. Two addresses
therefore see any number of hubs: one dead and still referred to, one current. The proofs
are for any number.

Which room it is, the lobby or a group room, is chosen at the start (`RoomIDs`).
Abstracted: `c.hubs[room]` is recorded in the same step as the registration
(`WsSession` has the two apart); `Client` identities are reused for the user's next
connection; an unregister sent for a connection that is still open (a leave) and one
sent by an exiting `readPump` are the same action. The idle timer is a Boolean, `armed`:
a running timer may fire at any moment, which covers every duration.

### Membership

Each REST request is one or two steps: `Check` reads and decides, a write action does
what was decided, in whatever state the tables are by then. SQLite is opened with
`SetMaxOpenConns(1)`, so a statement or a transaction is one step. Reads that precede the
last read of a handler are merged into it; the module's header says why they could not
have answered differently. `FaultyDB` lets any statement fail, including the member count
whose error `handleLeaveRoom` ignores. The foreign keys of `createSQLiteTables` are part
of `DeleteRoom` (cascades) and of `Admits` and `CreateInvite` (refusals).

`GroupRooms` takes requests and steps away: one book, an entry per room with owner, members,
visibility, flag and invites, and seven operations on it. `Entries` is the refinement mapping:
the rooms there are, with the rows that refer to them (a hidden flag and the role beside
`owner_id` are not in the book; `NoOrphanRows` and `OwnerColumnAgrees` are about them). The
book has two specifications. `Spec` is what every interleaving keeps to: places, invites and
the target's membership are looked at inside the writing transaction or cannot change for the
worse. `StrictSpec` adds what `handleLeaveRoom` looks at before it writes (an owner does not
walk out, and closes a room as its last member), which holds only if two races are not lost.

### WsSession

One user, one group room. `handleWebSocket` is `RegisterClient`, `ReadRooms`,
`PushSnapshot`, `AttachRoom`, `RecordHub`; the exit of `readPump` is `TakeHubs`,
`LeaveHub`, `Forget`, `CloseSend`. The user's requests create, join, leave and delete the
room. A walk of the bridge copies the registry (`NextWalk`) and visits the copy in any
order; `attachUserToRoom` is `CheckAttached`, `Subscribe`, `Record` because it locks,
unlocks, registers and locks again; `detachUserFromRoom` is `TakeEntry`, `Unsubscribe`;
`notifyUser` is `Tell`, which drops the frame when there is no room. A deletion is told
through the hub alone (`AnnounceDeletion`, `HubSendsDeletion`) and detaches nobody. Reads
fail where the code goes on without them: the snapshot, the joiner's row, the room's row
(`Faults`). Panics are part of the model: an assignment to the map `readPump` has set to
nil leaves `hubsMu` locked and ends the request (net/http recovers it); a send on a closed
channel ends the request when a walk does it and the process when the hub does it, after
which no action is enabled.

A client's view is one Boolean per connection, `lists`: whether a client that has read
everything put into its channel lists the room. A connection is a `*Client`, which lives
once. `early`, `missed`, `failed` and `crossed` are history variables: they say what a
property has to exclude, and nothing reads them.

The hub is used at the level of `RoomFanout`: subscribing and unsubscribing are one step
and a fan-out reaches all subscribers at once. `RoomHub`'s refinement is what justifies
that.

### RoomEvents and EmojiOnly

One user, the author, and the row of one room. A request renames the author
(`EnsureUser`, `InsertUser`, `GetUserAgain`, `UpdateDisplayName`, `ReadBack`,
`CopyRegistry`, `SetDisplayName`, `OpenRows`, `NotifyName`), only identifies itself
(`GetMe`), or, as the owner, edits, transfers or deletes the room (`CheckOwner`, the write,
for an edit `ReadUpdated`, `Emit`). `cursor` is the request whose result rows are open: no
other statement runs, since it holds the only connection. `FaultyDB` lets any statement fail:
most handlers then answer with an error and have changed nothing (`Fail`), but
`handlePatchRoom` ignores the error of its second `getRoom` and sends a room without an id,
for which there is no hub (`ReadUpdated`, `Emit`), and `emitNameChanged` returns without a
word when it cannot read the rooms (`OpenRows`). A connection of the author keeps
the name `ensureUser` gave it (`Register`), and posts: `CheckMessage`, `InsertMessage`,
`PublishMessage` are three steps, so the membership and the emoji flag are stale at the
INSERT, as they are in the code. `feed` is the hub's channel, `Fanout` its loop together
with what the page makes of the event (`Shown`).

What a property excludes is a history variable again (`crossed`): a write while another
request holds an older reading of the same row, two renames at once, a connection that
registers with a name that is older than a rename whose walk it missed, a flag set while a
text is between its check and its INSERT. `untold` says that the last edit's or the last
rename's read failed, so that nobody was told.

`EmojiOnly` is the loop of `isEmojiOnly` as a recursive function over classes of code
points; the tables of code points are what makes the classes and are not repeated. Beside it
stands what the comments of the loop's branches say (`AsCommented`): no text, and digits, `#`
and `*` "only if followed by variation selector + keycap". The two differ, so a content is of
one of three kinds: `emoji`, `text` (a letter, or what cannot be decoded) and `digits` (no
text, but a digit that is no keycap).

### RoomView

`InsertMessage` and `PublishMessage` are two steps of `handleIncomingMsg`, so ids and
delivery may differ in order; `LoseMessage` is its `h == nil`. `Connect` is the snapshot,
`AttachClient` one round of the loop after it. `SelectRoom`, `ListMessages`, `ShowHistory`
are `selectRoom` before its fetch, the server's answer, and the rest, with any frames in
between and several calls at once. Two gaps the code has show up as what `NothingMissed`
must assume: a history read after the snapshot but before the room is attached may miss
messages, and a reconnect does not read the history of the open room again. An answer that
comes after another `selectRoom` is appended to the wrong room's page; the model has that
step too.

### ClientLink

`static/app.js` as callbacks: `init` up to its awaits (`Boot*`), `saveNickname` before and
after its PUT, `onopen`, `onclose`, the reconnect timer and `manualReconnect`. `timers`
counts the running `setTimeout(connectWS)`, since the code overwrites
`state.reconnectTimer` and never clears one. A nickname saved while a timer runs makes a
second socket, as in the code: every live message then comes twice, and the `onclose` of
either sets `state.ws` to null. What survives that are the two invariants, which also make
`state.ws.close()` in `manualReconnect` unreachable.

### KotlinHub and ElixirPresence

`KotlinHub` is one room's entry of `RoomHubManager.hubs` with the hub objects it has named.
`afterConnectionEstablished` is `RoomExists`, `GetOrCreate`, `Register`; a failed send
(`SendFails`) takes a session out of the hub without its monitor; the idle check is `IdleDue`
(the scheduler has begun it, so `cancel(false)` no longer stops it) and `IdleCheck` (it has
the monitor). `raced` and `dropped` are history variables.

`ElixirPresence` is the GenServer of one room with its mailbox. `ensure_started` and `join`
are two steps, and so are a cast and its handling. A monitor's `DOWN` is appended after
whatever the process has sent; `demonitor` with `:flush` takes it out again (`Flush`). An
`idle_check` that is in the mailbox is not undone by cancelling its timer. `RoomRoster` is
what is left when processes, mailboxes and timers are taken away: one set of those online,
every change of it announced with its new size in the same step, and nobody taken out between
the answer to its join and its own goodbye or end. `online` is the registered process's
`members`, or nobody; a process that stops and its successor are invisible there.

## 3. Checks

Passing runs:

| Run | Instance | Shows |
|---|---|---|
| `hub_safety` | group room; 2 clients, 2 hubs, 2 senders, 2 messages, caps 2 and 1 | `OneHub`, `AttachedServed`, `IdleTimerArmed`, and `RefinesFanout` (two distinct messages make reordering visible) |
| `hub_live` | lobby or group room; 1 client, 2 hubs, 2 senders, caps 1 | `LobbyPermanent`, `CallsReturn`, `EmptyHubReclaimed`: a client and two publishers against teardown |
| `membership` | 4 users, 2 requests, cap 3, faulty database | `OwnerColumnAgrees`, `MembersWithinCap`, `NoOrphanRows`, `PrivateByInvite`, `RefinesBook` |
| `ws_bridge` | 1 connection, 2 requests of all four verbs, all reads may fail, cap 1 | `JoinReachesLive`, `LeaveDetaches`, `ListAgrees`, `ClosedLeavesHub`, `RequestsProceed` |
| `room_events` | 2 owners, 2 names, 2 requests, 1 connection, a channel of 1, three mixes of requests, faulty database | `RoomShownIsRow`, `NamesAgree`, `EmojiRoomKept`, `SomebodyGoesOn` |
| `room_view` | 2 rooms, 2 senders, 2 history requests, 2 messages, limit 1 | `NothingMissed`, `BadgeClears` |
| `client_link` | 3 sockets, 5 back-offs, 2 saves at once | `NeverStranded`, `ButtonOnlyOffline`, `Reconnects` |
| `kotlin_hub` | 3 sessions, 3 hub objects | `SplitOnlyByRace`, `CheckToCome` |
| `elixir_presence` | 3 connections, 2 processes | `JoinedIsCounted`, `GhostsAreDropped`, `CountIsRight`, `EmptyIsTimed`, `RefinesRoster`, `JoinsReturn` |

Each of them also checks its module's `TypeOK`, except `hub_live` (`hub_safety` has it) and
`membership` and `elixir_presence`, whose `TypeOK` is a theorem. `OwnerColumnAgrees` is about
roles the owner column does not name, a second owner for one; an owner without a member row it
cannot see, and that is what the run `owner_is_member` is about.

Runs that end in a violation, each of a sentence the repository's comments, messages or
documents state (`findings` in `PROJECT.json` quotes it):

| Run | The sentence | What happens |
|---|---|---|
| `owner_is_member` | "owner must transfer before leaving" | a leave checked before a transfer to the leaver removes the new owner's row |
| `ws_hub_panic` | "concurrent add/remove during iteration is safe" | `detachUserFromRoom` and `readPump` together leave a closed channel in the hub, which panics at its next fan-out |
| `kotlin_one_hub` | a hub per room, cleaned up when idle | a session finds a hub, the idle check removes it from the map, the session registers with it |

More behaviours of the models go against a comment, a message or an expectation and have
no run of their own, because a property that is checked already names them as its exception
or because they are one step long. Where to see them:

- the owner leaves as the last member, somebody joins between the count and the delete, and
  the room goes with the joiner (`Membership`; `handlers.go` 317-322);
- a former owner's second transfer, or edit, goes through (`Check`, `Check`,
  `SetRoomOwner`, `SetRoomOwner`; `handlers.go` 210 and 259);
- a connection that read its rooms before a leave and attaches after the leave's walk stays
  in the hub (`ReadRooms`, `LeaveCommit`, `TakeEntry`, `AttachRoom`; `notify.go` 63-77); a late
  detach takes a rejoined member out (`crossed` in `WsSession`);
- a connection's `RecordHub` between `TakeEntry` and `Unsubscribe` of a detach leaves it deaf,
  in `c.hubs` and not in the hub, and a later join's `attachUserToRoom` finds the entry and
  does nothing (`CheckAttached`; `notify.go` 51);
- a walk assigns to the nil map of a closed connection, or sends on its closed channel, and
  the rest of the request is lost (`Record`, `Tell`; `client_registry.go` 47);
- a walk's frame overtakes the snapshot, which then replaces the list (`early`; `main.go`
  820); a frame dropped by `notifyUser` leaves the client without the room (`missed`;
  `notify.go` 20);
- two edits, or an edit and a transfer, are published in the other order, and two renames
  reach different connections in different orders (`crossed` in `RoomEvents`;
  `handlers.go` 231-285);
- an edit whose row cannot be read again is stored and shown to nobody (`untold`, `ReadUpdated`;
  `handlers.go` 235), and a rename whose rooms cannot be read reaches the connections and not the
  rooms (`untold`, `OpenRows`; `notify.go` 176-186); no second writer is needed for either;
- text enters an emoji-only room, checked before the flag was set (`main.go` 370-389);
- a bare digit, `#` or `*` enters it at any time: the comment at `main.go` 500 allows them "only
  if followed by variation selector + keycap", the branch below it does not look, and
  `emoji_test.go` 25 ("plain digit no keycap") expects them to pass. `DigitPasses` is the
  disagreement as a theorem, and `EmojiRoomKept` is about text only;
- a Kotlin idle check that meets a new hub under its key removes that hub's entry
  (`IdleCheck`; `RoomHubManager.kt` 64); a failed send of the last session schedules no check
  (`dropped`; `RoomHubManager.kt` 92);
- an Elixir `idle_check` that was under way when its timer was cancelled stops a room that has
  just become empty again, before its hour (`room_presence.ex` 86-92); a join to a process
  that has stopped exits the connection (`CallFails`).

Bounds. Two clients are the smallest number for which one client's registration can race
with the departure of the last other one, and for which one client is slow and another is
not. Capacities of one and two stand for the code's 256, of `send` as of `broadcast`: a
channel is empty, partly full or full, and nothing in the code looks at a length. Four users and a cap of three let two joins
race for the last place and lose it. Two requests suffice for a check and a write to be
separated by another request's write; each request goroutine serves request after request.
One room suffices because no statement relates two rooms. One connection in `ws_bridge`
because connections of a user meet only in the registry's copy and in the hub, where each is
handled on its own; `ws_hub_panic` has two, and the theorems are for any number. In
`room_events` each behaviour has one of three mixes of verbs (`Loads`): renames with first
requests, renames with transfers (both hold the database and send to the hub), and the three
writes of the row; a mix of all five differs in nothing but size. One client is enough for
`hub_live`: the idle timer may fire between `StartRun` and `Register` again and again, so one
client alone meets one dying hub after the other. Three sockets let a reconnect timer, a
nickname save and the button each have one; two ids, two senders and a history limit of one
let messages overtake each other and fall out of the history. Three Kotlin sessions are one
in the old hub, one in the new one and one between its two steps. Two Elixir processes are
one that has stopped and is still held by a caller and its successor. Every bound that is not
a set of names is a constant (`MaxMessage`, `MaxSaves`, the capacities). `SYMMETRY` (of
requests, users, names, connections, as the instance has them) is used in runs of invariants,
and in `hub_safety` and `membership`, whose one further property is a refinement of safety.
`CHECK_DEADLOCK FALSE` is set in the `WsSession` runs, where every connection may have come
and gone, a request may be blocked by a mutex a panic left locked, or the process may be dead,
and in `client_link`, where the page may fail to start.

Fairness. `RoomHub.FairSpec`: a goroutine with an enabled step takes it (WF). Sends that
compete in a `select` or queue on a channel are strongly fair: Go picks uniformly among
ready cases and serves waiting senders first in, first out, so `Register` and `Publish` are
SF. `LoadOrStore` is SF only because the finite set of addresses can be used up for a
moment. No fairness is assumed of peers: nobody has to connect, read, write or leave; only a
closed connection ends its read loop. `ClientLink.FairSpec` asks that timers fire and that a
connection attempt ends, by opening or by closing. `ElixirPresence.FairSpec` asks that a
process runs: a connection that has begun `init` or `terminate` goes on, a GenServer handles
its mailbox, a timer fires; nobody has to connect, to leave or to be killed. `WsSession` and
`RoomEvents` state progress without fairness: `RequestsProceed` and `SomebodyGoesOn` say in
every reachable state that a step of the right goroutine is enabled. `RequestsProceed`
assumes that no `hubsMu` has been left locked by a panic: behind such a mutex requests do wait
for ever, and `HubSurvivesUnlessRaced` (section 4) says which races leave one.

Mutants. Every property of a passing run has a mutant next to the definition it mutates
(`UnregisterNoReset`, `AdmitsOneMore`, `TakeNothing`, ...): the module with that bug
violates the property under the same configuration. One check of the code has no such
mutant: `IdleFire`'s `len(h.clients) == 0` is redundant. `go.mod` asks for Go 1.23, whose
timers leave no stale tick after `Stop`, so an armed timer already means an empty hub.

## 4. Proofs

All theorems are over arbitrary constants, under the assumptions each module names
(`HubConstants`, `MembershipConstants`, `SessionConstants`, `EventConstants`,
`ViewConstants`, `LinkConstants`, `KotlinConstants`, `PresenceConstants`): the value that
stands for "nobody" is not one of the things it stands for, capacities and limits are
positive, sets that are counted are finite. TLC evaluates them in every run.

`RoomHubProofs`. `OneHub` and `AttachedServed` are not inductive: whether a step keeps
them depends on what the goroutines between two steps hold. `IInv` adds `EntryIsAlive` (the
map names exactly the hub that is installed or running), `ClientsBelong` (clients sit in
running hubs they hold), `StarterIsUnique` (one goroutine starts a hub) and `HolderIsServed`.
`TypeStep` and `IStep` go through the actions one by one; the theorems follow:
`TypeCorrect`, `OneHubHolds`, `AttachedServedHolds`; `LobbyPermanentHolds`, an action
property; `IdleTimerArmedHolds`, from `ArmedStep`: the broadcast loop may empty a hub without
arming the timer, and the clients it dropped are the ones still to unregister; and
`FanoutRefinement`, `Spec => RefinesFanout`: `FanoutStep` maps `Deliver` to `Fanout`,
`Register` to `Subscribe`, `Unregister` to `Unsubscribe`, `Publish` to the current hub to
`Publish`, the teardown to `Discard`, and the rest (including a publish to a dead hub) to
stuttering; it needs `IInv` to know that only the current hub has clients.

`NobodyStuckHolds` is what of `CallsReturn` is safety: whenever a goroutine waits in a
`select` on a hub, a case of that `select` is ready or the hub has a step of its own (it is
about to be started, has an event to fan out, or is about to close `done`). So there is no
cycle of goroutines waiting for one another and no full channel nobody empties; that the step
is then taken is fairness, which TLC checks. It adds `InstalledIsStarting` to `IInv`: a hub in
the map that does not run yet has the goroutine that put it there.

`DeliveryHasNoGap` speaks of a whole behaviour. `RecordedSpec` adds history variables that
watch the steps and constrain none: `log` (what run loops fanned out), `taken` (what each
`writePump` took) and `since` (both as they were when a client last subscribed). Then
`NoGap`: what a subscriber of the room has been handed since it subscribed, taken and still in
`send`, is the very sequence that was fanned out since. No induction over sequences is needed:
a step appends one event to both sides, so associativity of `\o` and one witness suffice.

`MembershipProofs`. The four safety properties are proved together with `TypeOK` because
they lean on each other (a re-created identity has no rows because `NoOrphanRows` held);
`PrivateByInvite` needs `JoinInvited`, which says what a pending join was told. Theorems:
`TypeCorrect`, `OwnerUnique`, `CapHolds`, `NoOrphans`, `PrivateRooms`.

`BookRefinement` is `Spec => RefinesBook`. One lemma per operation (`CreateIsCreate`,
`AddIsJoin`, `RemoveIsLeave`, `TransferIsTransfer`, `PatchIsPatch`, `InviteIsInvite`,
`DeleteIsClose`) says that the write is the book's operation on the room it was decided for, or
that the room is gone, or the row was there already, and the book stands; the reads are
invisible (`OtherStepsAreInvisible`). `EntryChanged` carries the weight: a step that changes
the rows of one room changes one entry. The invariant is needed for two things: a new room's
identity has no rows and no invites (`NoOrphanRows`), and a join to a private room was told of
an invite that is still there (`JoinInvited`).

Theorems with a condition. Where the code has a race, a theorem says that the race is the only
way to lose the property. Each condition is an action property of the model (a step of one
kind does not meet a request of another): it forbids one order of steps and no operation, and
TLC finds the property violated without it:

| Theorem | Property | The one exception |
|---|---|---|
| `OwnerStaysUnlessRaced` | `OwnerIsMember` (the run `owner_is_member`) | a transfer is written while its target is about to leave |
| `DeletesAloneUnlessRaced` | `DeletesAlone`, no statement failing | a join is written between an owner's count and its delete |
| `StrictUnlessRaced` | the strict book, no statement failing | one of the two above |
| `OwnersActUnlessRaced` | `OwnersAct`: who edits, gives away or deletes a room is its owner then | a transfer is written while another request let through as the owner's is under way |
| `OneHubUnlessRaced` | `OneHub` of the Kotlin server (the run `kotlin_one_hub`), and that who has registered is in the hub of the map | an idle check meets a session that has found its hub, or an entry that is another hub's |
| `HubSurvivesUnlessRaced` | `HubSurvives` (the run `ws_hub_panic`), no mutex left locked | `readPump` takes `c.hubs` between a walk's two accesses to it, or a walk comes to attach a connection that has ended |
| `OneLinkUnlessSaved` | `OneLink`: one socket or one timer | a nickname is stored while a reconnect timer runs |
| `OwnRoomUnlessOverlapped` | `OwnRoom`: the page shows one room's messages | a history arrives after another room was selected |

A condition belongs to the theorem and not to the model: the runs explore the races too.

`StrictUnlessRaced` and `OwnersActUnlessRaced` are the positive reading of the stale checks in
`handlers.go`: with these races away, a request acts as if its check and its write were one
statement. `StrictStep` needs the invariants of the two theorems before it (`OwnerHasRow`,
`CountStands`), `OwnersActUnlessRaced` needs `OwnerStands`. `StrictBookIsSound` is about the strict
book alone: its owner is in the room, the cap holds, and a private room whose owner is not alone
has an invite; so the two together give "owner must transfer before leaving" for the handlers
wherever those races are not lost.

`WsSessionProofs`. `JoinReachesLive`, `LeaveDetaches` and `ListAgrees` speak of a quiet
system. The invariant says of every state on the way there who still has to do what is not
done: an established connection of a member that is not in the hub is in the rest of some
joiner's walk, or that walk is still to be copied from a registry that has it (`Reach`); the
same for a leaver (`Detached`) and for what a client lists (`ToldMember`, `ToldStranger`,
`ToldGone`). `OneKind` is what `crossed` buys: whoever is at work wants what the member
row says. `ClosedLeavesHub` follows from `Wired`: an entry in the hub without one in
`c.hubs` has somebody who is seeing to it. `RequestsHaveSteps` is `RequestsProceed` without
`ENABLED`: `HasStep` spells out the conditions under which a step of `Walk` is open, and every
request at work meets one of them while no mutex is left locked. `HubSurvivesUnlessRaced`
rests on `NoneMet`: no request is at a connection whose `c.hubs` is nil.

`RoomEventsProofs`. `ScanIsAll`: the recursive `scan` answers whether all code points are of
its list, for contents of any length. Induction is replaced by a least number: if the two
differed anywhere, they would differ at a last index, and there they agree.
`ScannerAgainstComments` compares the loop with the comments beside its branches: it accepts
`AsCommented`, and nothing more than contents without text that have a digit without its
keycap; `DigitPasses` shows that it does accept such a content. For
`RoomShownIsRow` and `NamesAgree` the invariant says what the page will show once the hub
has handed out its channel (`Arrives`); it names the last event that sets a field, so that
no fold over the channel is needed. While the last edit was not told, or the last rename, that
part of the invariant claims nothing (`untold`), and the next one that is told restores it;
what the connections show does not depend on it. `EmojiRoomKept` needs `PostInv`: a draft
with text that waits for its INSERT was checked while the room took text, or the flag has been
set since. `StepsOpen` is `SomebodyGoesOn` without `ENABLED`, and `FirstRequestsSucceed` that
the race of first requests never makes `ensureUser` fail, only a failed statement does; both
rest on `WayOpen`: the open cursor belongs to the request that is telling the rooms, and a user's row, once there, is found.

`RoomViewProofs`. `GapInv` says where a message of the room on the page is: shown, in the
history that is about to be shown, on the wire, in a sender's hand, never published, or
pushed out by newer ones; that stays true only because a room is attached before its history
is read. `BadgeInv` says that nothing which may become a room's last message is newer than
what the page has seen or is about to see. `LatestOf` needs facts about finite sets: a
history is no longer than its limit and has the newest message in it. `PageIsStored`: what the
page shows is in the table, also when histories overlap.

`ClientLinkProofs`. `NeverStranded` and `ButtonOnlyOffline` need `WsIsLive`: when a PUT
succeeds with `state.ws` set, that socket is alive.

`KotlinHubProofs`. `SplitOnlyByRace` rests on `FoundIsEntry` (who has found a hub has found
the one in the map, unless raced) and on `ClientsAreIn`. `CheckToCome` is part of the same
invariant. `OneHubUnlessRaced` is the sentence of the run `kotlin_one_hub` for as long as no
check meets a session between its two steps: its invariant is that `raced` stays false and that
a registered session stays a client (`RegisteredStay`).

`ElixirPresenceProofs`. What is in the mailbox is used as a set (`Mails`); the lemmas about
`Append`, `Tail` and `Flush` say what they do to it. `NotLeaving` (nobody has said that a
connection leaves before it does) is what makes `JoinedIsCounted` inductive, and
`GhostsAreDropped` needs to know where a caller's join is (`JoinIsWithCallee`).
`RosterRefinement` is `Spec => RefinesRoster`: `Subscribe` is `Listen`, `HandleJoin` is
`Enter`, `Terminate` is `Goodbye`, whatever ends a connection is `End`, a `Drop` of a member
is `Drop` and of anybody else nothing, and the rest stutters. That `Drop` takes out nobody who
has joined is `NotLeaving`; that `Stop` is invisible is its guard, and that nobody is in a
process which is not registered is `TypeOK`. `RosterIsSound` is about `RoomRoster` alone: in
every behaviour of it, and so for whatever implements it, everybody there to stay is online and
was told the present size last. `CallersAreServedHolds` is the safety half of `JoinsReturn`:
who waits for the answer to a join waits for the live process, which has the join in its
mailbox, or for one that has stopped, and then the call fails.

Only model-checked: the liveness properties (`CallsReturn`, `EmptyHubReclaimed`,
`Reconnects`, `JoinsReturn`) and the two that use `ENABLED` (`RequestsProceed`,
`SomebodyGoesOn`), neither of which the prover does. Of `CallsReturn`, `JoinsReturn` and the
last two the part that is safety is proved (`NobodyStuckHolds`, `CallersAreServedHolds`,
`RequestsHaveSteps`, `StepsOpen`). That
`HasStep`, `StepOpen` and `HubGoesOn` are the guards of the actions they speak for is by
reading: tying them to `ENABLED` is what the prover cannot do.

## 5. Not modelled

- Sessions and middleware: a signed cookie, CORS, logging and the client's address;
  sequential and without state.
- The MySQL configuration: `addMemberWithCap` counts and inserts in a transaction that
  serialises on SQLite's one connection and not on MySQL's several, and `isUniqueViolation`
  looks for "UNIQUE" where MySQL says "Duplicate entry" (`repo.go` 60). Both need a model of
  MySQL's isolation, which is nowhere in the repository.
- Paging further back (`before=`), the public listing, the length limit of a message:
  single statements and comparisons.
- The emoji scanners of the other two servers, which differ from the first in their tables of
  code points (the Kotlin one accepts U+FFFD, the Elixir one knows no category "So") and not
  in their loop.
- REST and repositories of the other two servers, apart from the delete that `KotlinHub` has:
  single statements, but for the two of Elixir's `delete_room`, between which a message may
  be inserted (`chat.ex` 34); `message_controller.ex` goes on listing it, since it does not look
  for the room.
- The older client of those servers, of which `app.js` of `server-go` is the successor; the
  member panel, menus and dialogs; pages and styles.
- Start-up, schema migration, reading `.env`.
- A crash of the server: everything but the database is in memory and starts empty, which is
  each module's `Init`; a page then reconnects as `ClientLink` and `RoomView` have it.

## 6. What could come next

1. The page's list of rooms under `leaveRoom` and `toggleHide`, which read `activeRoomId`
   after an await.
2. `RoomHub` and `WsSession` composed, with the hub's teardown between `Subscribe` and
   `Record`.
3. The MySQL configuration as a second instance of `Membership`'s write steps, if that
   database is ever used.
