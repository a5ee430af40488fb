# A TLA+ model of the chat project

This directory specifies the chat system in this repository: the asynchronous
lock its coroutines synchronise on; the chat server's sessions, rooms, roles,
accounts and messages under interleaved requests; the database migrations over
stops and restarts; the aggregator's list of servers; and the client's views of
all that, with the notices that change them, down to the widgets that show a
message. The modules are checked with TLC. The safety properties of the lock, of the
chat server's sessions and registries, of the rows of accounts and rooms, of the
messages and the reader's view of them, of the lists of rooms, of the layout of the widgets, of the migrations,
of the aggregator's list and of the choice of a server are also proved with TLAPS, for
every value of the constants.

## 1. The system

The repository holds three programs. A **client** (wxWidgets, `client/`) asks the
**aggregator** (`aggregator/`) for the chat servers it knows, connects to one of
them over a WebSocket, and talks protobuf (`common/protobuf/chat.proto`) to it.
A **chat server** (`server/`, Drogon) keeps sessions in memory and users, rooms,
memberships, roles and messages in PostgreSQL; it registers its host with the
aggregator once, when it starts.

On the server every binary message starts a coroutine
(`WsController::handleNewMessage`), and so does the close of a connection. A
coroutine acquires the lock of its connection's `WsData`, shared or unique by
the kind of request, keeps it to its end, and awaits database operations, the
manager's lock and other sessions' locks meanwhile. Coroutines of one connection
run on one IO loop, those of different connections on different threads.

| Part | State | Operations | Talks to | Hard because | Correct if |
|---|---|---|---|---|---|
| `AsyncSharedMutex`, `Guarded` | the lock word `state_` | `lock_shared`, `lock_unique`, guards' destructors | IO loops' task queues | load / compare-exchange race, spinning through queues, a lock taken before its coroutine runs | it is a reader-writer lock; owners are counted exactly; nobody is resumed twice or on another thread; bursts drain |
| `switch_to_io_loop` | captured loop index | suspend, resume | database thread, loops | completion arrives on another thread | a coroutine stays on its loop |
| `scoped_coro_transaction` | a transaction | begin, commit, roll back | database | commit is acknowledged by a callback | what is reported, and announced, is what is committed |
| `WsData` (session) | `status`, `user`, `room` | every handler, `updateUserRoomRights` | manager, database | several requests of a connection, walks from other connections | no handler dereferences what another has reset; `room` and `user` agree with the registries |
| `ChatRoomManager` | connections by user, by room | register, unregister, add, remove, delete room, two walks | sessions | holds its lock across awaits while it walks | iterators stay valid; listed iff joined; no lock cycle |
| Session handlers | sessions, accounts | two-phase log in and registration, log out, close | manager, database | any order of requests; the close races requests | registered iff logged in; closed connections are forgotten |
| Room handlers | sessions, registries, rooms, memberships | join, leave, create, delete, become member | manager, database | a move has four steps; rooms vanish under others | one room per connection; members are listed |
| Role handler | owner, moderators, cached rights | `AssignRole` | manager, database | READ COMMITTED reads, cache updated after the transaction | cached rights equal the database's; an old owner keeps a role |
| Message handlers | messages | send, list a page, delete | manager, database | paging by a time stamp that may repeat; pages and notices overtake each other | pages and live messages join up; nothing of the present is missed; the deleted stay away |
| Account handlers | accounts | log in, register, change name, change password | database | check, then update; rows held over awaits | names are unique; an account opens with the password accepted last |
| Typing handlers | none (client side timers) | start, stop | manager | a stop that is lost, or goes to another room | an indicator disappears |
| Migrations, `main` | table `migrations` | check, apply and record a file, quit | database | a stop with a COMMIT on its way; one of several files fails | each file once and in order; who serves is up to date; a restart completes them |
| Aggregator registry | connections, connection by host | connect, register, list, close | chat servers, clients | a server restarts before its old connection is seen closed | a running server is listed, a gone one is not |
| Client connection | the WebSocket, posts to and from its loop | start, stop, handle a message | user interface, servers | choices and messages cross | the panel shown fits the connection |
| Client user list, rooms, typing | users with connection counts, roles and names; two lists of rooms; who types | responses and notices | server | notices overtake the response they amend | the view converges to the server's state |
| Client message view | rows shown, loading flags; widgets, pool, caches, scroll position | page, live message, deletion, scroll, resize | server | pages, live messages and jumps interleave; pooled widgets; unsigned pixel arithmetic | what is seen is true, in order and in its place |
| Client account panels | fields of the forms between two requests | log in, register, change name or password | server | two phases; a second click meanwhile | what is sent belongs together |
| Text helpers | none | measure, cut, wrap, sanitize | forms, widgets | characters of two code units | no half characters, nothing but blanks lost |
| ORM models | row objects with dirty flags | read, set, update, insert | database | an object is kept over awaits | only what was set is written |

Drawing and fonts, the hash function, the HTTP controller, the wire encoding, the
JSON and validation parts of the generated ORM models (no caller) and the
vcpkg/Docker files are left aside: they keep no state that operations could
disagree about.

## 2. Modules

| Module | Models | Builds on |
|---|---|---|
| `RWLock` | what a reader-writer lock promises (abstract) | |
| `AsyncSharedMutex` | `common/utils/asyncSharedMutex.h` on Drogon's loops with `switch_to_io_loop.h` | implements `RWLock` |
| `AsyncSharedMutexProofs` | theorems about it | `AsyncSharedMutex` |
| `ChatState` | sessions, registries, database, coroutines; the session's lock | |
| `ChatRoomManager` | `ChatRoomManager.cpp` | `ChatState` |
| `SessionHandlers` | log in, registration, log out, close | `ChatRoomManager` |
| `RoomHandlers` | join, leave, create, delete, become a member, send | `SessionHandlers` |
| `RoleHandlers` | `handleAssignRole` | `RoomHandlers` |
| `ChatServer` | the controller: connections, dispatch, the whole next-state relation, the properties | `RoleHandlers` |
| `ChatHistory` | two history variables beside the server's state, and the properties about users and roles | `ChatServer` |
| `ChatServerProofs` | theorems about both | `ChatHistory` |
| `ServerRegistry` | the aggregator's registry and the server's registration | |
| `ServerChoice` | a client that chooses among the servers: its start and stop, its panels, the aggregator's answer | `ServerRegistry` |
| `ServerRegistryProofs` | theorems about both | `ServerChoice` |
| `Migrations` | `migrations.cpp` as `main.cpp` calls it, over stops and restarts | |
| `MigrationsProofs` | theorems about it | `Migrations` |
| `MessageStore` | the rows of table `messages`, their writers, one reader's coroutines | |
| `MessageView` | the reader's paging, live messages and deletions | `MessageStore` |
| `Messages` | both together, the properties | `MessageView` |
| `MessagesProofs` | theorems about it: rooms, loads, deletions; order and completeness of the view | `Messages` |
| `TextUtil` | `textUtil.cpp`: measuring, cutting, wrapping and sanitizing texts | |
| `MessageWidgets` | `CachedColorText` and `MessageWidget`: a widget and its caches | `TextUtil` |
| `MessageLayout` | `messageView.cpp`: pool, positions, scrolling, the snap button | `MessageWidgets` |
| `LayoutProofs` | theorems about it | `MessageLayout` |
| `UserList` | the client's list of users, menus and typing indicator, as operators | |
| `Roster` | the people of rooms on the server, the notices about them, the clients' lists | `UserList` |
| `Rows` | row objects of the generated ORM models: setters, updates, insertions | |
| `Accounts` | accounts as rows, with the clients' forms | `Rows` |
| `RoomsPanel` | the client's two lists of rooms and its header, as operators | |
| `Lobby` | rooms, memberships and roles as rows, the notices about them, the clients' lists | `Rows`, `RoomsPanel` |
| `TablesProofs` | theorems about the rows of `Accounts` and `Lobby` | `Accounts`, `Lobby` |
| `RoomsProofs` | theorem about the lists of rooms of `Lobby` | `TablesProofs` |
| `MCAsyncSharedMutex`, `MCChatServer`, `MCRoles`, `MCSessions`, `MCServerRegistry`, `MCMigrations`, `MCMessages`, `MCDisplay`, `MCRoster`, `MCTables` | instances for TLC | |

Definitions marked `(mutation: ...)` are plausible bugs next to the definition
they would replace; no behaviour of a specification uses them. They document
that each property fails when the code it is about is broken.

### The mutex

`state` is `state_`; `pc`, `current` and `origin` are a coroutine's resume point
and locals; `queue` and `running` are the loops. One action is one atomic
operation on `state_`, so a shared `try_lock` is two (`LoadShared`,
`CasShared`) and a unique one is one (`CasUnique`). `await_ready` that succeeds
goes on into the guarded code (`Grant`, first branch); a failed try queues
`spin_lock` (`Park`); a `spin_lock` that succeeds owns the lock but only queues
the coroutine's resumption (`Grant`, second branch). `Suspend`/`Complete` are a
database operation under the guard. Each coroutine asks once: a second request
of the same connection is another coroutine. The weak memory orders of the
atomics are on a single word, whose modification order the model has; spurious
failures do not exist for `compare_exchange_strong`.

### The chat server

State: `link`, `status`, `user`, `room` per connection (`WsData`); `userConns`,
`roomConns` (`ChatRoomManager`); `accounts`, `rooms`, `owner`, `membership`,
`moderators` (the tables, after the last migration) and `spent` (the sequence of
room ids); and per coroutine its connection, request, resume point `pc`, and the
locals that outlive an await (`todo`, `ownerRead`, `oldRole`).

One action runs a coroutine from one await to the next. The locks are used as
`RWLock` promises, which is what `AsyncSharedMutex` is shown to implement. Two
facts about them are kept because properties depend on them: the first try of a
session's lock happens in the task that received the message, before any other
task of that loop ("arrived", `LoopBusy`); and of those that spin, any may be
next. A peer's lock inside a walk is taken and dropped within the loop's body
with no await between, hence atomically with the visit; that it is taken at all
shows in `BeingVisited`, which lets a newcomer fail its first try. The manager's
operations that take its lock uniquely await nothing under it and are one step,
possible when no walk holds the lock (`ManagerFree`). `unregisterConnection`
takes it twice and is two steps.

Abstracted here, and modelled elsewhere: credentials (a log in of an existing account
is accepted or not; `Accounts`), names (`Accounts`, `Lobby`), messages
(`MessageStore`), the notices and listings handlers send (`Roster`, `Lobby`).
`GiveUp` is every way a handler can fail at an await: a database error, a
rolled back transaction, a refusal for something not in the model.
`SendMessage` stands for the handlers that only read this state under the shared
lock. Users are identified with their names.
A transaction is one step, except `handleAssignRole`'s, which at READ COMMITTED
reads at three moments (`CheckRole`, `ReadOwner`, `CommitRole`/`CommitOwner`).
Each connection is opened once; a server restart, which empties all of memory
and keeps the tables, is not modelled.

Nothing is assumed of who talks: `ChatServer` lets a connection send any request at any
moment. So does the repository's own client where it matters, as its form sends on every
click and never disables its buttons (`authPanel.cpp:46-90`): a second click on "Log in"
starts a first phase over a session that has just been logged in. `ChatHistory` adds what the
state no longer shows afterwards. `strays` has the connections that stay registered for a
user their session has forgotten, `contested` the users whose role changed while another
request was changing roles of the room. Both only record: `HistorySpec` allows every behaviour
of `Spec`.

### The aggregator

`conns`, `serverHost` and `connOfHost` are `m_conns`, `WsData::serverHost` and
`m_host_id_to_conn`; `process` is the program at the other end, which may end
before the aggregator sees its connection close. One chat server at a time runs
on a host. Connections that break while their process lives and the notices to
clients (read by nobody) are left out.

`ServerChoice` adds one client. `toLoop` and `toUI` are what `runInLoop` and
`CallAfter` have queued, `link` is `WebSocketClient`'s `client` and `conn`, `page` the
panel of `MainWidget`. `RunLoop` runs one posted `stop` or `start`, `RunPost` one posted
panel; a choice of the user is what they may cross. What happens behind the log in
panel belongs to the other modules. Adding, deleting, checking and saving addresses
(`appConfig.cpp`) is left out, so a user may choose any of them.

### Messages

`table` holds rows with `id`, `room` and the stamp `at`, which is `created_at`: the
database takes it when a transaction begins, so rows may share one and commit in
another order than that of their stamps. A writer's message or deletion is three
steps (begin, commit or fail, notify); a deleted room takes its rows along. The reader
has several coroutines (`Frame`), which share the session's lock for `GetMessages` and
exclude each other for `JoinRoom`. Any waiting coroutine may be next, as in
`ChatServer`. `Pages` is every answer that `ORDER BY created_at LIMIT` allows among rows
with the same stamp. `MessageView` is the reader's client: `view` is `m_messageWidgets`,
and one action handles one envelope, with all of its handler. `flaws` and `overtaken`
are histories by which a property names the races it excepts.

### Display

In `MessageLayout` a pixel is a row, as in the `wxVScrolledWindow`; `widget[x]` has text,
wrapped label, the cached line count and bitmap, position and size; `view` and `pool`
partition the widgets. Messages arrive as they may. An action is one event with all it
calls: layout, trimming, positions and the report of the snap state. `TextUtil` and
`MessageWidgets` are pure operators; a string is a sequence of code units and `Utf16`
is the build for Windows, the only one in which a character may be two. Widths and
emoji runs are abstracted to `WidthOf`. `EscapeMnemonics` is what `SetLabelText` does to a
text; `SetWrappedMessage` sets the label without it. wxWidgets' own behaviour (`ScrollToRow` clamps,
a row is a `size_t`) is external.

### Roster

The state is `members` and `username` in the database, `session` and `registry` in the
server, `inbox` and `outbox` on the way, and `client`, the `UserList` panel of each
connection. `JoinRoom` runs in eight steps, one per await whose outcome others can
change: it leaves, enrols, queries members, notifies, is listed, and then looks at the
room's sessions one by one. Requests of one connection may overtake each other, as
coroutines wait for the session in any order. `AssignRole` is decided by the rights that the
caller's session caches; `TellRole` updates them in the sessions of the target and tells the
room, or returns before both if the target has no session. `untold` collects the
users of whose role a client was therefore not told, `doubt` collects the users about whom a
client's answer was put together while they changed, `ghosts` the names whose stop may
go elsewhere.

### Accounts and rooms as rows

`Rows` is what the generated classes do: an object has values and a set of dirty
columns, an update writes the dirty ones. `Accounts` and `Lobby` are the handlers between
a read, the awaits, and the write at READ COMMITTED, and the clients that use them.
A transaction commits, fails, or commits and is reported to have failed. A hash is the
pair of password and salt, so a hash made with another salt is another hash; a legacy
account has no salt. `Lobby` has the two lists of `RoomsPanel`, the selection in each
and the header, the notices about rooms, and the list that comes with a log in.
Private rooms are left out: no program creates one. `puzzled`, `hasty`, `doubt` and
`renamed` are histories of the races that a property excepts. `InitAccounts` and
`InitLobby` are any tables, with any number of clients at rest: outside, or logged in and
in agreement with the tables. `MCTables` picks six of these states for its scenarios.

### The migrations

`table` and `sql` are the rows of table `migrations` and the statements that took
effect; `stage`, `pending` and `current` are where `MigrateDatabase` is; `orphans` are
transactions whose process was killed or lost the database after the COMMIT was sent.
A file is its time stamp, `db/main.sql` is 0. `Break` is any end or database error;
every failure ends the process (`quit`, after which `main` still starts the
aggregator's client; that short rest of the process is left out).
`MisjudgeTable`: any exception of the first query is taken for a missing table.
`MigrationsAssumption`: releases keep old files and add newer ones. The code relies on
it: a file with an older time stamp than the latest row would be skipped in silence.

## 3. What is checked

All runs exhaust their state spaces; `CHECK_DEADLOCK FALSE` is set because the
systems may stop: every coroutine has been served, or every connection has been
used and is quiet.

| Run | Instance | Checks |
|---|---|---|
| `mutex` | 2 readers, 2 writers on 2 loops, `FairSpec`; 7,050 states | `TypeOK`, `StateCountsOwners`, `ThreadAffinity`, `ResumedOnce`, `ImplementsRWLock`, `BurstDrains` |
| `sessions` | any client, 2 connections, 2 requests at a time, 2 users, 2 rooms: logging in and out, or moving between rooms; 1.08 M states | `SessionsShaped`, `UsersAreRegistered`, `RoomRegistrySound`, `MembersAreListed` |
| `roles` | 2 connections, 2 requests at a time, 2 users and an admin; three scenarios: logging in and out, a hand-over beside log ins that begin anew, two who change roles at once; 685 k states | `TypeOK`, `UserRegistrySound`, `CachedRightsAreTrue`, `OldOwnersStayModerators`, `IteratorsStayValid`, `HeldSessionsAreStable` |
| `burst` | `FairSpec`, 1 connection of an admin, 3 requests at a time, messages too; 149 k states | `ClosedConnectionsDrain` |
| `registry` | 2 connections of a host in turn, another host, a client, and a client that chooses twice; 798 k states | `ListedAreConnected`, `OnlyNamesakesUnlist`, `PanelFitsServer` |
| `migrations` | `FairSpec`, 3 releases with 2, 2 and 3 files, 4 breaks; 2,545 states | `AppliedOnceInOrder`, `ServingIsMigrated`, `EventuallyServes` |
| `messages` | 4 rows in 2 rooms, one more sent, one deleted, 4 requests of a reader who pages or moves; 2.23 M states | `OnlyThisRoomsMessages`, `LoadingIsAnswered`, `PagesJoinUp`, `NothingIsMissed`, `DeletedStayAway` |
| `display` | 3 widgets for 2 messages, 2 texts at a time, with an ampersand where they are painted, 2 window sizes, authors who change name; 9,331 sample texts; 109 k states | `WhatIsSeenIsTrue`, `ButtonShowsTheWay`, `AnchorStays`, `WrappingLosesOnlyBlanks`, `NamesAreAcceptable` |
| `roster` | 3 connections of 2 users and a third who is offline, 3 requests in each of four scenarios; 682 k states | `ListsAreTrue`, `MenusAreHonoured`, `TypingEnds` |
| `tables` | 2 connections, 3 clicks or errands and one failure in each of six scenarios; 1.26 M states | `PasswordsHold`, `NamesAreTrue`, `RoomsAreTrue`, `ColumnsAreKept` |

*Bounds.* A race on the lock word needs a reader between whose load and
compare-exchange a writer comes and goes, a second reader to be miscounted, and
a pair both on one loop and across loops: two of each kind on two loops has all
of it, and the proofs cover every other size. On the server, the interesting
cases are two requests over one connection (a log out beside a join), one request
on each of two connections (a walk beside a change, or two changes, in `roles`), and three over one,
where one spins while another holds the lock and a third walks (`burst`). Requests are
unlimited in number; `Task` bounds how many are in progress. Two rooms are what a move needs, two users what a hand-over needs;
one of the rooms is created and deleted during the run, and ids are never given out twice.
One stray (`MaxStrays`) is enough in `roles` to be seen by walks, role changes and closes; a
second is another pair of the same kind. Its scenarios differ in who may begin a log in when:
at any moment, at any moment until there is a stray, or once and idle. A log out from a room
is in `sessions`; in `roles` rooms are left by moves and closes. Any client
is what the proofs cover, and `sessions` and `burst`; the runs `deadlock` and `ghost` have a
client that logs in when logged out and idle, so that what they show is not its doing.
A restart needs two connections of one host; the second host shows what others
do not disturb. The migrations need a release that adds nothing and one that adds a
file; four breaks (`MaxBreaks`) leave behind a transaction for each of `main.sql` and
the three files, and the proofs cover every other number.

A client that chooses twice (`MaxChoices`) can go from the aggregator's list to a server,
come back, or choose anew while the first answer is on its way; a third choice repeats
these. Pages of two rows and a view of three make every page boundary, every trim and
every group of rows with one stamp fall on some boundary; a room's history fills the
view, and one row more (`MaxRows`) is sent and one (`MaxGone`) deleted while four
requests (`MaxRequests`) page up, down or jump, or move between the rooms. In `display` the
third message reuses a widget, the longer text takes two lines at one size and one
at the other, and a chunk is one message; texts of up to five units have a pair, a blank
and a break in every order (`MaxSample`). In `roster` two joins and a change, or a second
connection of the same user, meet in every order; larger crowds add more of the same
notices. In `tables` two requests that overlap and a third that finds their result are
enough for a stale row, a lost notice and a retry; one failure is enough, as what it
leaves behind is like what a request that never ran leaves behind. The scenarios
of an MC module keep apart requests that touch none of the same state; a user asks
for little more in one than it takes for a race. Windows are small on purpose: sizes
enter the code only through comparisons and sums of them.

*Fairness.* `AsyncSharedMutex!FairSpec` is weak fairness of the loops (each runs
its queue in order, as `trantor::EventLoop` does), of every step of a running
coroutine, and of the database's answer. `ChatServer!FairSpec` is strong fairness
of each coroutine's steps: locks are intermittently free, and `spin_lock`
retries for ever, so a coroutine that finds its lock free again and again gets
it; that this is so for a finite burst is what `BurstDrains` shows one level
down. It is an assumption about the scheduler, not a consequence of the code,
where requests arrive without end. `Migrations!FairSpec` is weak fairness of the
process: the container is restarted whenever it stops (`restart: unless-stopped` in
`examples/docker-compose.yml`) and each step ends. Transactions left behind need not
end, and nothing is assumed about breaks but that they are finitely many. The other
specifications state no fairness: what must come to be true there is stated of the states
in which nothing is under way (`Quiet`, `Settled`), and what is awaited as something that is
still on its way (`LoadingIsAnswered`).

*What the properties are for.*

- `SessionsShaped`: handlers dereference `user` and `room` on the strength of
  `status`; the second phases rely on what the first stored. Any order of requests
  keeps this true, including a second log in over a session in use.
- `RoomRegistrySound`, `MembersAreListed`, `UsersAreRegistered`,
  `UserRegistrySound`: session and registry are under different locks; outside the
  named windows they agree, in both directions. `UserRegistrySound` excepts `strays`: a
  connection over which a log in began anew stays registered for the user it was.
- `IteratorsStayValid`: the two walks iterate over an `unordered_set` with an
  await in the loop.
- `HeldSessionsAreStable`: `updateUserRoomRights` writes other sessions; it must
  never write one whose handler is between a check and a use.
- `CachedRightsAreTrue`, `OldOwnersStayModerators`: the cached rights are written after the
  transaction, which reads what another may overwrite. Both hold while two changes overlap,
  but for the users whose roles those change (`contested`, below) and, for the cache, strays
  and an owner whom an admin demotes.
- `ClosedConnectionsDrain`: the walks visit the caller's own session, whose lock
  the caller holds; only `isHolding` keeps a join from waiting for itself. It is
  checked with one connection, because with two the deadlock below defeats it.

- `AppliedOnceInOrder`, `ServingIsMigrated`, `EventuallyServes`: the next start knows
  of an earlier one only what the table says, which may change under it. The row's
  place in the file's transaction, its UNIQUE time stamp and the stop at the first
  failure are each needed.
- `PanelFitsServer`: the network's loop and the user interface post to each other. Without
  the exemption for a choice that crosses a post it fails, below.
- `OnlyThisRoomsMessages`: nothing in an envelope says which room a page or a message is
  of; that the session's lock is kept until the answer is sent is what keeps them apart.
- `LoadingIsAnswered`: a page that fails must clear the flag too; it does, as the handler
  of the response goes on after the error.
- `PagesJoinUp`, `NothingIsMissed`, `DeletedStayAway`: pages come from the table, live
  messages from the writers, in no common order. The joiner is listed before the first page
  is read, so nothing falls between; the exceptions are named by `flaws` and `overtaken`, and
  each was found to be needed: `order`, a live message that is not below all that is
  shown; `late`, one that comes when a later-stamped one is in the table, so that the last of the
  view is not the latest; `cut`, the newest rows
  were trimmed; `stale`, a page asked for before the view was started over; `twice`, a row was
  shown twice when its deletion came, which takes away the first match only
  (`messageView.cpp:303`); and for an empty view `emptied` and `refused`.
- `WhatIsSeenIsTrue`, `AnchorStays`, `ButtonShowsTheWay`: caches, a pool, and a scroll
  position that is corrected by what was added and removed above it. A label is its text as
  wrapped, or that text escaped, which is the one thing seen that is not true.
- `WrappingLosesOnlyBlanks`, `NamesAreAcceptable`: the text helpers are compared with what
  they promise on every text of up to five units, pairs of surrogates included.
- `ListsAreTrue`, `MenusAreHonoured`, `TypingEnds`: the answer to a join and the notices are
  put together under different locks at different times; the client counts connections. A
  role given to a user who is offline is told to nobody, so that lists keep the old one:
  `untold` excepts it from `ListsAreTrue`. `MenusAreHonoured` needs no such exception in
  `roster`, where only an owner has a menu. With a global admin, whom `Roster` leaves out, it
  would: one who lists a new, offline owner under his old role is offered what is refused.
- `PasswordsHold`, `ColumnsAreKept`: a row is read, awaited and written back; only the
  dirty flags of the generated classes keep one handler from undoing another's work.
  Excepted (`doubt`) is an account whose password is changed while a log in migrates it.
- `NamesAreTrue`: the check for a free name is not what makes it unique, and a client hears
  of a new name by a notice that its own log in may overtake. Excepted (`renamed`) are
  accounts with two renames, or a rename and a log in, under way at once, or a rename that was
  reported to have failed: it may have taken effect, and nobody is told.
- `RoomsAreTrue`: the list that comes with a log in, the notices, and the answer to a join,
  which is applied to whatever is selected by then.

### Disagreements with the documentation

Two runs each end in a violation of something the repository says of itself.

- `deadlock`: two connections in a room. One logs out and holds its session while
  it waits for the manager; the other joins, and its walk holds the manager while
  it waits for that session. Nobody can go on. Two joins can meet in the same way.
  `ChatRoomManager.h:54-55` says the locked session is passed "without causing a deadlock".
- `ghost`: a join that was still spinning when its connection closed gets the lock
  after `unregisterConnection`, which left the session authenticated, and lists the
  dead connection in a room for ever. `ChatRoomManager.h:48-50` says a closed
  connection is removed from both maps.

Met while modelling; the properties above except these cases by name, or their
modules leave them out.

*Sessions, roles, registry.* A room goes to Bob and back; the updates of the cached rights
run after the transactions, in the other order, and a session keeps rights the database no
longer grants (`WsData.h:45`). Two hand-overs read the same old owner; the owner in between
ends up with no role (`MessageHandlers.cpp:713`). A restarted server registers before its old
connection is seen closed; the close erases the new entry, and as a server registers only
once it stays off the list (`WsClient.h:20-21`). A second log in over one connection,
or only a second click on "Log in" before the first answer (`authPanel.cpp:46-90`), makes the session
forget its user but not the registry (`ChatRoomManager.h:146`): the connection stays registered for
that user, and role changes of the one reach the session of the other. The first phase of a log in stores a user in a session
that is not authenticated, which `WsData.h:59` excludes; deleting a room leaves it in its
occupants' sessions, which `WsData.h:61` excludes. An admin who demotes the owner changes
`user_room_data` and the owner's cached rights, while `rooms.owner_id`, which takes
precedence, stays. `asyncSharedMutex.h` is not fair: waiters get the lock in any order, so
requests of one connection may overtake each other.

*Choosing a server.* The hello of an outdated server that is handled after the user chose
another one posts `ShowInitial`, whose `stop` ends the new connection; the log in panel then
stands over no connection. A connection that fails, or that the server closes, is not shown
to the user.

*Messages.* A live message that comes while an older page is awaited is prepended, and the
page after it is appended out of order; it also ends the wait. Once the newest rows have been
trimmed, a live message comes below the hole. A message that commits before a page is read
and is announced after it is shown twice. A page asked for in one room and served in the
next ends the first wait there. A row that is deleted after a page was read and announced
before the page was sent is shown until the view is refilled. A view emptied by deletions
cannot scroll. Messages that share a stamp are lost at the boundary of a page. A failed
join leaves the user in no room while the old one is shown. The dialog that confirms a
deletion runs while its widget may be given to another message.

*Display.* `SetLabelText` escapes "&", while the widget draws the label as it is
(`messageWidget.cpp:92`): a message shows "AT&&T" until the view gets another width, and again
when its author changes name; such a line may be wider than the view. Blank lines within a message are dropped, though a comment speaks of an extra
line. Growing the window near the top passes a negative row as a `size_t` and jumps to the
end. The first live messages in a short view are not followed, as `GetUnitCount() - 5` wraps.
`textUtil.h` speaks of the basic plane, where the code asks for a letter or a digit. A view
that is cleared away from its end and gets an empty first page goes on to take itself to be away
(`messageView.cpp:285-290`), while the panel has hidden the button (`chatPanel.cpp:248`): if a
message higher than the window comes next, its end is out of sight without the button.

*People.* The new role of a member who is offline is told to nobody, and lists keep the old one
(`ChatRoomManager.cpp:115-118`). Overlapping joins, a leave between the listing and the answer of a join, and the
first join of a user over two connections at once give wrong lists until the next join. A
second connection with a stale session name brings back the old name. Whoever begins to type
while moving, or changes name while typing, is shown typing until the others rejoin. A
comment in `user.h` says lower roles come first; the list shows the higher first.

*Accounts and rooms.* Two changes of a password at once are both told that they succeeded,
and one is lost. Two log ins may migrate a legacy account at once; if the password is changed
through the first before the second writes, the old password is back.
The other connections of a renamed user keep the old name in their sessions, and notices of
overlapping renames may come in the wrong order. A click on Register and then on Log in with an
empty password field, before the first answer, registers the name with an empty password,
though the client says that it can't be empty (`authPanel.cpp:78-81`). A transaction that
did commit may be reported as failed. `BecomeMember` and `JoinRoom` ignore the result of
`setUserMembershipStatus` and answer success; the creator of a room is `INVITED`, by the column's
default, until its client joins. A room created during a log in is missed, or listed twice.
Selecting a room while a join is pending makes a member of, or shows the header of, the
wrong room, while messages go to the joined one. If nothing is selected when the answer
to a join arrives, or the room has been deleted by then, `ShowChat` (`mainWidget.cpp:105`)
throws, which ends the client.

## 4. What is proved

Every theorem is about `Spec` (or `HistorySpec`, `ChoiceSpec`, `SpecAccounts`, `SpecLobby`) for all values of the constants that satisfy
the named assumptions. Those bound nothing by a number TLC needs: sets may be infinite unless
it says otherwise.

`AsyncSharedMutexProofs` proves, for any finite set of coroutines, any set of
loops, and any assignment of coroutines to loops and modes (`CoroAssumption`):
`TypeOKHolds`, `StateCountsOwnersHolds`, `ExclusionHolds`, `ThreadAffinityHolds`,
`ResumedOnceHolds`, and `Refinement`, `Spec => ImplementsRWLock`.

None of these is inductive alone. The invariant `IInv` is the conjunction of

- `LockInv`: types; a coroutine between load and compare-exchange is a shared one
  that loaded a value `>= 0` (`CasIsShared`), without which a successful exchange
  could install a reader over a writer; and `StateCountsOwners`;
- `QueuesAccounted`: every queued task belongs to its coroutine's own loop and
  to a stage that has a task queued, no coroutine is queued twice, exactly the
  coroutines in running stages are running, and `origin` is the home loop. Without
  it a step could resume a coroutine that runs elsewhere, and drop a guard it does
  not own.

`LockStep` shows that each action changes the owners as an action of `RWLock`
allows or not at all, and that the account of `state` is kept; its cases are the
three ways the account changes (`SharedTaken`, `UniqueTaken`, `GuardDropped`) and
the bystanders that leave it alone. `QueuesStep` shows the queues' account from
four lemmas about moving a coroutine: `Enqueued`, `GoesOn`, `LeavesLoop`,
`Dequeued`. `QueueBounded` and `PlacesCounted` derive from it the cardinality that
`ResumedOnce` states. `Refinement` follows from `LockStep` under the mapping of
readers and writers to the owners of guards.

`ChatServerProofs` proves, for any connections, users, rooms and coroutines and for any
program that speaks the protocol, `TypeOK`, `SessionsShaped`, `RoomRegistrySound`,
`MembersAreListed`, `UsersAreRegistered`, the action properties
`HeldSessionsAreStable` and `IteratorsStayValid`, and of `HistorySpec` `UserRegistrySound`,
with nothing assumed of clients. `ChatAssumption` says that
`None` is no connection, user, room or request, and that a request has the fields its kind
needs, which protobuf's accessors give it.

The argument is the one by which the code is written: whoever holds the session's lock may
rely on what it has checked. `Knows(t)` says what that is at each await of each handler,
`LocksExclude` that two holders of one session's lock both hold it shared, and `Base` is
both with the types and `SessionsShaped`. A step is `StepSound` if it changes its own
coroutine's place and only sessions that nobody else holds, and leaves the one it holds
as its next stage needs it. Each step of each handler is shown to be sound on its own; that a
sound step leaves what the others know alone is shown once (`OthersStillKnow`), so that a new
handler costs one lemma and not one per handler. `updateUserRoomRights`, which writes sessions it
does not own, is sound since it takes their locks.

On `Base` rest one invariant per registry. `RoomInv` adds that a log out in its second half is
listed nowhere (`LoggedOutUnlisted`), or it would leave a listed connection without a room.
`MembersInv` adds that ids of rooms are never given out twice (`RoomsWereGivenOut`): otherwise a
session that still names a deleted room would seem to be in the next one. `StrayInv` is
`UserRegistrySound` with the fact that a registration awaits nothing but its insertion
(`RegisterInserts`): a handler registers a connection for the user it is logged in as, and a
session that is logged in forgets its user by a log out, which has unregistered it, or by a
first phase, which `strays` records (`StrayStep`).

`ServerRegistryProofs` proves `ListedAreConnected` and `OnlyNamesakesUnlist` for any
sets of hosts and connections (`RegistryAssumption`). Their conjunction becomes
inductive with the types and `NewAreBlank`, that a connection not yet opened is
unknown and has no host: otherwise opening one could take away the closed namesake
that explains why a server is not listed. It proves `PanelFitsServer` for any servers,
outdated ones among them, and any number of choices (`ChoiceAssumption`: the aggregator is no
chat server's host). `InStep` says how far the conversation has come while both loops are
at work: what is posted, what is shown, and which of four stages the server is in;
`AimIsChosen` says that the last post of the network's loop is for the address chosen last.

`MigrationsProofs` proves `AppliedOnceInOrder` and `ServingIsMigrated` for any
releases, breaks and transactions left behind (`MigrationsAssumption`). The
strengthening is `NoGaps`, no file is applied or on its way before all older ones,
and `PendingIsRest`, what the process no longer lists is in the table. With `NoGaps`
a late transaction is either refused or the newest of all (`EffectKeepsOrder`).

`MessagesProofs` proves all five properties of `Messages`, for any rooms,
writers, coroutines, requests, and any positive size of a page and of the view. They assume that the table
is finite (`MessagesAssumption`), that its rows have ids and stamps the sequence and the clock
have given out, and that the stamp by which the client asks for the end is later than
every message's (`HistoryAssumption`).

- `LoadingIsAnswered` is inductive by itself, given the types.
- `OnlyThisRoomsMessages`: `RoomsInv` follows the room of a row from the session whose lock is
  held when a page is read (`LocksInv`, `PlaceInv`) through the queue of envelopes, in which the answer
  to a join parts what came before from what comes after, to the view.
- `DeletedStayAway`: `DeletionInv` says of every row in a coroutine, an envelope or the view that
  it is still in the table, or excepted, or its notice comes behind it, or what shows it
  will be cleared.
- `PagesJoinUp` and `NothingIsMissed`: `StoredInv` bounds all stamps by the clock. `OrderInv`
  says that one page at most is on its way, that it is in order and beyond what
  is shown, and that it was asked for in the direction the view waits for. `CompleteInv`
  is about what is known of the history: rows that are shown and rows of a page under way.
  Call a stamp marked if a known row has it or a page was asked for from it. Then below
  a marked stamp, or between two when the end has been cut off, no row of the room is
  unknown, unless its notice is yet to come or another row shares its stamp. Reading a page moves
  the rows it leaves out beyond its own last mark, which is why `Pages` must return the nearest
  rows (`PageOrder`); a trim takes its marks along with its rows.

The proofs corrected the two properties, each of which held on the run's instance, where one
writer commits its messages in the order of their stamps. With two writers a message may
commit and come long after later-stamped ones: it is then the last of the view, while rows
with stamps after its own are still above what has been paged in. `NothingIsMissed` now
excepts such a `late` message. `PagesJoinUp` now asks that the reader is still listed in the
room, as one whose room was deleted gets no more notices, and no longer excuses a row for a
notice of its deletion. On the other hand, what was excepted needlessly is not any more: the
order of the view while a join is under way, a view that is not shown, and `emptied` and
`refused` where the view is not empty. `OrderInv` and `CompleteInv` were also run over
instances with two writers, by simulation over 60 million states, before they were proved.

`TablesProofs` proves three of the four properties of `tables`, with no assumption on any
constant: any number of connections, visitors, accounts, rooms, names and requests, from any
tables (`InitAccounts`, `InitLobby`).

- `ColumnsAreKept`: `ChoreSound` says that an object that waits to be written has set only the
  column its handler is asked to change, and to what it was asked for; `UpdatedRow`, that an update
  with it leaves the others as they are by then. `TablesInv` adds that ids of rooms are not
  given out twice, or what was wanted of a deleted room would be asked of the next.
- `PasswordsHold`: `TaskSound` says that hash and salt of a request belong together and that an
  object sets both or neither. A log in that migrates an account writes the password it has
  found in the row, so the row and the request are believed together (`RowsHold`,
  `MigratesHold`), until somebody changes the password in between.
- `NamesAreTrue`: `NameComes` says where an account's present name is, for whoever shows
  another: a rename is about to tell it, or it is among the answers on their way behind the one
  in question. It holds of what is shown (`ShownInv`) and of every answer on its way
  (`ToldInv`). `KnownInv` is about the names that log ins and renames in progress hold,
  `AloneInv` says that these do not overlap on an account that is not among the renamed, and
  `ListedInv` that whoever was told a name is registered for the notices, which is why
  `handleAuth` registers before it answers.

Here too the proofs corrected the properties. `ColumnsAreKept` left out former owners who
own the room again; their role is kept, too. `PasswordsHold` excepted every account with two
requests under way that write a password; two changes never needed it, only a change during a
migration does. `NamesAreTrue` excused a client whose session and form name two accounts, as
after a second log in over one connection; it need not.

`RoomsProofs` proves the fourth, `RoomsAreTrue`, for any visitors, rooms, names and requests
from any tables. The property is about a client that has nothing more to hear; the invariant is
about what it has yet to hear, and has two parts.

- `ListsInv` takes one room and one client at a time (`HeardOf`). A room is not yet known,
  there, being removed or gone (`Stage`): it is not known until `handleCreateRoom` announces
  it, which is after its row was committed, and being removed until `handleDeleteRoom` does.
  `Heard` says, for each of these, what lists and queue say together: nothing of a room not
  yet known; one that is there is listed, or its announcement is on the way, and the last
  name to be heard is the row's unless a rename is about to tell it; one that is gone is
  listed only with its removal behind. The lists are those the client has, those the answer
  to its log in brings, or those `handleAuth` has read (`Bases`). `AnnouncementsInv` says
  that a handler announces what it wrote, and `PhaseInv` where a log in is: its lists are
  read before the connection is registered, so that what is said of a room in between is
  lost to it (`ListsFirst`), which is why such rooms are `puzzled`.
- `JoinInv` says of a client whose user waits for joins that one is under way at most, of the
  room it has selected, so that the room the session enters is the one shown. What a handler
  has read of a membership still holds when it writes (`JoinSound`), as rooms' ids are not
  given out twice and joined rows are not taken back (`RowsMove`); so a room moved to
  the client's own is one its user has joined.

`LayoutProofs` proves the three properties of `MessageLayout`, for any texts, any number of
widgets that is what the view and a page hold (`WidgetsAssumption`), any sizes of the window
with a positive width, as `ReWrapAllMessages` does nothing for others, and any margins
(`PixelsAssumption`). They rest on one invariant, `LayoutInv`:

- `Split`: view and pool have every widget once. With the trim to `MaxMessages` this leaves
  the pool a widget for each message of the next page;
- `WidgetsInv`: a cached line count is that of the label and a cached bitmap that of the
  label, the size and the light (`AllSound`), also of the widgets in the pool, which is what
  makes them fit for reuse; those in the view have as label their text wrapped at the present width, escaped or not
  (`InViewTrue`; `EscapedIsOfUnits`: an escaped text is a text, too), and where they are in sight they are shown at their place (`InPlace`); the
  others are hidden;
- `ButtonInv`: the view reports whether it is at its end, and the button is the opposite, or
  the panel was reset and the first page is awaited.

A position is the sum of the heights above. What the proofs need of these sums, that they
split where a sequence does, are the same for a reversed sequence, and depend on the heights
alone (`TotalOfConcat`, `TotalOfReverse`, `EqualTotals`), is shown by induction over the set
of the numbers for which it holds (`Induction`), as an induction theorem that takes an
operator cannot be used; for that, `Total` and `Lines` are recursive functions, whose values
are shown to exist the same way. Layout may wrap, count and draw at any time: `LayOutIsTrue`
shows that it leaves heights, and with them positions, as they are, so that each handler only
owes what it did to the view, the pool and the scroll position. For `AnchorStays`,
`TopsAfterTrim` and `TopBelow` say by how much the widgets move when others are taken away or
put above them, and the handlers move the scroll position by the same.

The proof corrected `ButtonShowsTheWay`. It excused a view that was cleared while a page was
awaited, which is not needed, and for ever after; what is needed is the empty first page of
the previous section. Now the button may be missing after that, and may never be there at the
end.

Only model-checked, and why:

- `BurstDrains`, `ClosedConnectionsDrain`, `EventuallyServes`: liveness under fairness is outside
  the prover's reach.
- `CachedRightsAreTrue` and `OldOwnersStayModerators`, with the exceptions `contested` and
  `strays` name (section 3): their proof needs an account of which transaction read what, and of
  which update of a cache is the last, for any number of role changes at once.
- `WrappingLosesOnlyBlanks`, `NamesAreAcceptable` are about what recursive definitions compute
  from every text, with filters (`SelectSeq`) that the prover cannot expand.
- `ListsAreTrue`, `MenusAreHonoured` and `TypingEnds` rest on sorting and folding, too.

## 5. Plan

1. *Done:* the mutex with its proofs; the chat server's sessions, registries,
   rooms and roles; the aggregator's registry and the migrations with their proofs.
2. *Done:* messages and the client's view of them; its widgets and scrolling; people
   and typing; accounts and rooms as rows with the clients' panels; the choice of a server.
3. *Done:* the proofs about the chat server, the messages, the reader's view of them,
   the choice of a server, the rows of accounts and rooms, the lists of rooms, and the layout
   of the widgets.
4. Left: the lists of people (`ListsAreTrue`, `MenusAreHonoured`), once sorting and folding
   can be reasoned about; `CachedRightsAreTrue` and `OldOwnersStayModerators` of
   `HistorySpec`.

*Not modelled:* drawing, fonts and emoji runs; the hash function; the HTTP controller; the
unused parts of the generated classes; the wire encoding; the client's saved list of
addresses; modal dialogs; private rooms, which nothing creates; configuration and logging; a
server restart, after which memory is empty and the tables are as they were; failures of
the network between a live client and the server, which the server sees as a close.
