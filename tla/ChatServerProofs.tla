-------------------------- MODULE ChatServerProofs --------------------------
(***************************************************************************)
(* Proofs about one chat server, for any number of connections, users,     *)
(* rooms and requests in progress, and for any client.                     *)
(*                                                                         *)
(* The argument has two layers.  Base says what a coroutine that holds its *)
(* session's lock may rely on.  A step of coroutine t changes t's own      *)
(* place, and sessions whose lock nobody else holds; StepSound(t) says so, *)
(* and each handler's steps are shown to be sound on their own (one lemma  *)
(* per step).  That a sound step leaves the others' knowledge alone is     *)
(* then shown once (OthersStillKnow), for all handlers.                    *)
(*                                                                         *)
(* On top of Base, an invariant per property relates the sessions to the   *)
(* two registries: RoomInv, MembersInv, UsersAreRegistered, StrayInv.      *)
(***************************************************************************)
EXTENDS ChatHistory, TLAPS

(***************************************************************************)
(* The inductive invariants.                                               *)
(***************************************************************************)

\* A coroutine handles a request of a connection that has been opened.
TasksPlaced ==
    \A t \in Task : pc[t] # "idle" =>
        /\ conn[t] \in Conn
        /\ req[t] \in Request \cup {CloseRequest}
        /\ link[conn[t]] # "new"

\* The reader-writer lock: two requests of one connection are both under
\* its lock only if both asked for it shared.
LocksExclude ==
    \A t, u \in Task :
        t # u /\ Holding(t) /\ Holding(u) /\ conn[t] = conn[u] => req[t].op \in SharedOps

\* The stages a handler reaches only for a session it has seen logged in.
AuthenticatedStages == {"login", "findRoom", "membership", "rights", "enter",
                        "insertRoom", "join"}

\* What the handler of t has checked, or written, since it got its lock and
\* takes for granted after the await it is at.
Knows(t) ==
    LET c == conn[t]
    IN  /\ pc[t] \in AuthenticatedStages => Authenticated(c)
        /\ pc[t] = "verify" => status[c] = "Authenticating"
        /\ pc[t] = "insert" => status[c] = "Registering"
        /\ pc[t] \in {"findRoom", "membership", "rights"} => room[c] = None
        /\ At(t, "JoinRoom", "leave") => Authenticated(c)
        /\ pc[t] = "enter" => InRoom(c, req[t].room)
        /\ pc[t] \in {"cacheOld", "cachingOld"} => ownerRead[t] # None /\ oldRole[t] # None

HoldersKnow == \A t \in Task : Knows(t)

\* The types, the locks, and what is known under them.
Base == TypeOK /\ TasksPlaced /\ LocksExclude /\ SessionsShaped /\ HoldersKnow

\* A log out takes the connection off its room's list first: at its second
\* half no room lists the connection that is about to forget its room.
LoggedOutUnlisted ==
    \A t \in Task, r \in Room : At(t, "Logout", "unregister") => conn[t] \notin roomConns[r]

\* Whoever is listed in a room is in it.
RoomInv == RoomRegistrySound /\ LoggedOutUnlisted

\* An unregistration that is not a log out is one of a closed connection.
ClosersClosed == \A t \in Task : pc[t] # "idle" /\ req[t].op = "Close" => link[conn[t]] = "closed"

\* A connection that is not open yet has nothing to be listed for.
NewUntouched == \A c \in Conn : link[c] = "new" =>
    room[c] = None /\ status[c] = "Unauthenticated"

\* A room that a session or a handler refers to had its id given out by the
\* sequence, so no room created later can have the same id and be taken for it.
RoomsWereGivenOut ==
    /\ \A c \in Conn : room[c] # None => room[c].id \in spent
    /\ \A t \in Task : pc[t] \in {"membership", "rights"} => req[t].room \in spent
    /\ \A t \in Task : pc[t] = "evict" => req[t].room \in spent \ rooms

\* The handler of a registration has one await, the insertion.
RegisterInserts ==
    \A t \in Task : Holding(t) /\ req[t].op = "Register" => pc[t] = "insert"

\* Whoever is registered for a user is logged in as that user, or a stray.
StrayInv == UserRegistrySound /\ RegisterInserts

\* What the assumption about the requests says of the parts of one.
LEMMA RequestsAreRecords ==
    \A r \in Request \cup {CloseRequest} :
        /\ r # None
        /\ r.op \in SharedOps \cup UniqueOps
        /\ r.room \in Room \cup {None}
        /\ r.user \in User \cup {None}
        /\ r.role \in Rights
        /\ r.op \in {"AuthInitial", "RegisterInitial", "AssignRole"} => r.user \in User
        /\ r.op \in {"JoinRoom", "DeleteRoom", "BecomeMember", "AssignRole"} => r.room \in Room
  BY ChatAssumption DEF CloseRequest, RequestRecord, SharedOps, UniqueOps, Rights, REGULAR, ADMIN

\* Coroutine u is where it was.
Same(u) ==
    /\ pc'[u] = pc[u] /\ conn'[u] = conn[u] /\ req'[u] = req[u]
    /\ todo'[u] = todo[u] /\ ownerRead'[u] = ownerRead[u] /\ oldRole'[u] = oldRole[u]

\* The types of the coroutines' variables; those of the others are below.
TypedCoroutines ==
    /\ pc \in [Task -> Stage]
    /\ conn \in [Task -> Conn \cup {None}]
    /\ req \in [Task -> Request \cup {CloseRequest, None}]
    /\ todo \in [Task -> SUBSET Conn]
    /\ ownerRead \in [Task -> User \cup {None}]
    /\ oldRole \in [Task -> Rights \cup {None}]

\* The stages of a coroutine that does not have its session's lock.
Waiting == {"idle", "arrived", "spinning"}

\* What a step of coroutine t may do to the coroutines.
Moves(t) ==
    /\ TypedCoroutines'
    /\ pc[t] # "idle"
    /\ \A u \in Task \ {t} : Same(u)
    /\ pc'[t] = "idle" \/ (conn'[t] = conn[t] /\ req'[t] = req[t])
    /\ pc'[t] \notin Waiting => Holding(t) \/ Available(t)

\* Goto is a move of t, within its request.
LEMMA GotoMoves ==
    ASSUME TypedCoroutines, NEW t \in Task, NEW stage \in Stage, Goto(t, stage),
           pc[t] # "idle", stage = "spinning" \/ Holding(t)
    PROVE  Moves(t) /\ pc'[t] = stage /\ UNCHANGED locals
  BY DEF TypedCoroutines, Goto, locals, Moves, Same, Waiting, Holding

\* Finish is a move of t, to the end of its request.
LEMMA FinishMoves ==
    ASSUME TypedCoroutines, NEW t \in Task, Finish(t), pc[t] # "idle"
    PROVE  Moves(t) /\ pc'[t] = "idle"
  BY DEF TypedCoroutines, Finish, Moves, Same, Stage, Waiting

\* Start either refuses the request or takes the lock that is available.
LEMMA StartMoves ==
    ASSUME TypedCoroutines, NEW t \in Task, NEW op, NEW admitted, NEW stage \in Stage,
           Start(t, op, admitted, stage)
    PROVE  /\ Moves(t)
           /\ req[t].op = op
           /\ UNCHANGED <<sessions, registries, database>>
           /\ ~Holding(t) /\ Available(t)
           /\ pc'[t] = "idle" \/ (admitted /\ pc'[t] = stage /\ UNCHANGED locals)
<1>1. pc[t] # "idle" /\ ~Holding(t) /\ Available(t) /\ req[t].op = op
  BY DEF Start, Holding
<1>2. CASE admitted
  <2>1. Goto(t, stage)
    BY <1>2 DEF Start
  <2> QED
    BY <1>1, <1>2, <2>1 DEF TypedCoroutines, Goto, locals, Moves, Same, Waiting, Holding, Start
<1>3. CASE ~admitted
  BY <1>1, <1>3, FinishMoves DEF Start
<1> QED
  BY <1>2, <1>3

\* The beginning of a walk over a set of connections is a move.
LEMMA WalkMoves ==
    ASSUME TypedCoroutines, NEW t \in Task, NEW set \in SUBSET Conn, NEW stage \in Stage,
           Holding(t), Walk(t, set, stage)
    PROVE  Moves(t) /\ pc'[t] = stage
  BY DEF TypedCoroutines, Walk, Moves, Same, Waiting, Holding

\* Passing one connection of a walk is a move, and the walk is shorter then.
LEMMA PassMoves ==
    ASSUME TypedCoroutines, NEW t \in Task, NEW d, Holding(t), Pass(t, d)
    PROVE  Moves(t) /\ pc'[t] = pc[t] /\ todo'[t] # todo[t]
  BY DEF TypedCoroutines, Pass, Moves, Same, Waiting, Holding

-----------------------------------------------------------------------------
\* TypeOK, by the parts that the handlers change together.
TypedSessions ==
    /\ link \in [Conn -> {"new", "open", "closed"}]
    /\ status \in [Conn -> Status]
    /\ user \in [Conn -> SessionUser \cup {None}]
    /\ room \in [Conn -> CurrentRoom \cup {None}]

TypedRegistries ==
    /\ userConns \in [User -> SUBSET Conn]
    /\ roomConns \in [Room -> SUBSET Conn]

TypedDatabase ==
    /\ accounts \subseteq User
    /\ rooms \subseteq spent /\ spent \subseteq Room
    /\ owner \in [Room -> User \cup {None}]
    /\ membership \in [User \X Room -> {"none", "INVITED", "JOINED"}]
    /\ moderators \subseteq User \X Room

LEMMA TypeOKSplit == TypeOK <=> TypedSessions /\ TypedRegistries /\ TypedDatabase /\ TypedCoroutines
  BY DEF TypeOK, TypedSessions, TypedRegistries, TypedDatabase, TypedCoroutines

\* What a step leaves of session c.
SameSession(c) == status'[c] = status[c] /\ user'[c] = user[c] /\ room'[c] = room[c]

\* Nobody else's session is changed while its lock is held.
OthersStable(t) == \A u \in Task \ {t} : Holding(u) => SameSession(conn[u])

\* What every step of a handler does: it keeps the types and the shape of the
\* sessions, leaves the sessions of other lock holders alone, and knows at its
\* next stage what that stage takes for granted.
StepSound(t) ==
    /\ Moves(t)
    /\ link' = link
    /\ TypedSessions' /\ TypedRegistries' /\ TypedDatabase'
    /\ SessionsShaped'
    /\ OthersStable(t)
    /\ Knows(t)'

\* A coroutine without its lock takes nothing for granted.
LEMMA IdleKnows ==
    ASSUME NEW t \in Task, pc'[t] \in Waiting
    PROVE  Knows(t)'
  BY DEF Knows, Waiting, AuthenticatedStages, At

\* A step that leaves sessions and registries alone is sound.
LEMMA QuietSound ==
    ASSUME Base, NEW t \in Task, Moves(t), Knows(t)',
           UNCHANGED <<sessions, registries>>, TypedDatabase'
    PROVE  StepSound(t)
<1>1. TypedSessions /\ TypedRegistries /\ SessionsShaped
  BY TypeOKSplit DEF Base
<1>2. UNCHANGED <<link, status, user, room, userConns, roomConns>>
  BY DEF sessions, registries
<1>3. TypedSessions' /\ TypedRegistries'
  BY <1>1, <1>2 DEF TypedSessions, TypedRegistries
<1>4. SessionsShaped'
  BY <1>1, <1>2 DEF SessionsShaped, Authenticated
<1>5. OthersStable(t)
  BY <1>2 DEF OthersStable, SameSession
<1> QED
  BY <1>2, <1>3, <1>4, <1>5 DEF StepSound

\* Getting the lock is sound if the stage it leads to takes for granted no
\* more than the check that was made.
LEMMA StartSound ==
    ASSUME Base, NEW t \in Task, NEW op, NEW admitted, NEW stage \in Stage,
           Start(t, op, admitted, stage),
           \/ ~admitted
           \/ /\ stage \in AuthenticatedStages => Authenticated(conn[t])
              /\ stage = "verify" => status[conn[t]] = "Authenticating"
              /\ stage = "insert" => status[conn[t]] = "Registering"
              /\ stage = "leave" /\ op = "JoinRoom" => Authenticated(conn[t])
              /\ stage = "findRoom" => room[conn[t]] = None
              /\ stage \notin {"membership", "rights", "enter", "cacheOld", "cachingOld"}
    PROVE  StepSound(t)
<1>1. TypedCoroutines /\ TypedDatabase
  BY TypeOKSplit DEF Base
<1>2. /\ Moves(t)
      /\ UNCHANGED <<sessions, registries, database>>
      /\ pc'[t] = "idle" \/ (admitted /\ pc'[t] = stage /\ UNCHANGED locals)
      /\ req[t].op = op
  BY <1>1, StartMoves
<1>3. TypedDatabase'
  BY <1>1, <1>2 DEF TypedDatabase, database
<1>4. CASE pc'[t] = "idle"
  BY <1>2, <1>3, <1>4, IdleKnows, QuietSound DEF Waiting
<1>5. CASE admitted /\ pc'[t] = stage /\ UNCHANGED locals
  <2>1. Knows(t)'
    BY <1>2, <1>5 DEF Knows, sessions, locals, Authenticated, InRoom, At
  <2> QED
    BY <1>2, <1>3, <2>1, QuietSound
<1> QED
  BY <1>2, <1>4, <1>5

\* Ending a request without writing a session is sound.
LEMMA FinishSound ==
    ASSUME Base, NEW t \in Task, pc[t] # "idle", Finish(t),
           UNCHANGED <<sessions, registries>>, TypedDatabase'
    PROVE  StepSound(t)
<1>1. TypedCoroutines
  BY TypeOKSplit DEF Base
<1> QED
  BY <1>1, FinishMoves, IdleKnows, QuietSound DEF Waiting

\* Nobody else holds the lock of a session whose lock is held unique.
LEMMA UniqueHolderIsAlone ==
    ASSUME Base, NEW t \in Task, Holding(t), req[t].op \in UniqueOps
    PROVE  /\ conn[t] \in Conn
           /\ \A u \in Task \ {t} : Holding(u) => conn[u] # conn[t]
<1>1. req[t].op \notin SharedOps
  BY DEF SharedOps, UniqueOps
<1> QED
  BY <1>1 DEF Base, LocksExclude, TasksPlaced, Holding

\* A handler with a unique lock may write its own session.
LEMMA OwnSound ==
    ASSUME Base, NEW t \in Task, Holding(t), req[t].op \in UniqueOps,
           Moves(t), Knows(t)', link' = link,
           TypedSessions', TypedRegistries', TypedDatabase',
           \A c \in Conn \ {conn[t]} : SameSession(c),
           LET c == conn[t]
           IN  /\ room'[c] # None => user'[c] # None
               /\ status'[c] = "Authenticated" => user'[c] # None /\ user'[c].id # None
               /\ status'[c] \in {"Registering", "Authenticating"} => user'[c] # None
    PROVE  StepSound(t)
<1>1. OthersStable(t)
  BY UniqueHolderIsAlone DEF OthersStable, Base, TasksPlaced, Holding
<1>2. SessionsShaped'
  BY DEF SessionsShaped, Authenticated, SameSession, Base
<1> QED
  BY <1>1, <1>2 DEF StepSound

\* A sound step of t leaves what the other coroutines know true.
LEMMA OthersStillKnow ==
    ASSUME Base, NEW t \in Task, StepSound(t), NEW u \in Task \ {t}
    PROVE  Knows(u)'
<1>1. Same(u) /\ Knows(u)
  BY DEF StepSound, Moves, Base, HoldersKnow
<1>2. CASE ~Holding(u)
  <2>1. pc'[u] \in Waiting
    BY <1>1, <1>2 DEF Same, Holding, Waiting
  <2> QED
    BY <2>1, IdleKnows
<1>3. CASE Holding(u)
  <2>1. SameSession(conn[u])
    BY <1>3 DEF StepSound, OthersStable
  <2> QED
    BY <1>1, <2>1 DEF Same, SameSession, Knows, Authenticated, InRoom, At
<1> QED
  BY <1>2, <1>3

\* The request of a coroutine in progress.
LEMMA RequestOf ==
    ASSUME Base, NEW t \in Task, pc[t] # "idle"
    PROVE  /\ conn[t] \in Conn
           /\ req[t] \in Request \cup {CloseRequest}
           /\ req[t].op \in SharedOps \cup UniqueOps
           /\ req[t].user \in User \cup {None}
           /\ req[t].role \in Rights
           /\ req[t].op \in {"AuthInitial", "RegisterInitial", "AssignRole"} => req[t].user \in User
           /\ req[t].op \in {"JoinRoom", "DeleteRoom", "BecomeMember", "AssignRole"} =>
                 req[t].room \in Room
<1>1. conn[t] \in Conn /\ req[t] \in Request \cup {CloseRequest}
  BY DEF Base, TasksPlaced
<1> QED
  BY <1>1, RequestsAreRecords

\* Taking an available lock keeps the reader-writer discipline.
LEMMA StepKeepsLocks ==
    ASSUME Base, NEW t \in Task, Moves(t)
    PROVE  LocksExclude'
<1> SUFFICES ASSUME NEW u \in Task, NEW v \in Task, u # v,
                    Holding(u)', Holding(v)', conn'[u] = conn'[v]
             PROVE  req'[u].op \in SharedOps
  BY DEF LocksExclude
<1>1. \A w \in Task \ {t} : Same(w)
  BY DEF Moves
<1>2. CASE u # t /\ v # t
  BY <1>1, <1>2 DEF Same, Holding, Base, LocksExclude
<1>3. CASE u = t \/ v = t
  <2>1. PICK w \in Task \ {t} : w \in {u, v} /\ Holding(w) /\ conn'[t] = conn[w]
    BY <1>1, <1>3 DEF Same, Holding
  <2>2. conn'[t] = conn[t] /\ req'[t] = req[t] /\ (Holding(t) \/ Available(t))
    BY <1>3 DEF Moves, Holding, Waiting
  <2>3. req[t].op \in SharedOps /\ req[w].op \in SharedOps
    <3>1. req[w].op \in SharedOps \cup UniqueOps /\ req[t].op \in SharedOps \cup UniqueOps
      <4>1. pc[t] # "idle" /\ pc[w] # "idle"
        BY <2>1 DEF Moves, Holding
      <4> QED
        BY <4>1, RequestOf
    <3>2. CASE Holding(t)
      BY <2>1, <2>2, <3>2 DEF Base, LocksExclude
    <3>3. CASE Available(t)
      BY <2>1, <2>2, <3>1, <3>3
         DEF Available, CanShare, CanOwn, UniqueHolders, SharedHolders
    <3> QED
      BY <2>2, <3>2, <3>3
  <2> QED
    BY <1>1, <1>3, <2>1, <2>2, <2>3 DEF Same
<1> QED
  BY <1>2, <1>3

\* A sound step keeps Base.
LEMMA StepKeepsBase ==
    ASSUME Base, NEW t \in Task, StepSound(t)
    PROVE  Base'
<1>1. TypeOK'
  BY TypeOKSplit, PTL DEF StepSound, Moves
<1>2. TasksPlaced'
  BY DEF StepSound, Moves, Same, Base, TasksPlaced
<1>3. LocksExclude'
  BY StepKeepsLocks DEF StepSound
<1>4. HoldersKnow'
  BY OthersStillKnow DEF HoldersKnow, StepSound
<1> QED
  BY <1>1, <1>2, <1>3, <1>4 DEF Base, StepSound

-----------------------------------------------------------------------------
LEMMA StepsOfHolders ==
    ASSUME NEW t \in Task, NEW op, NEW stage \in Stage \ Waiting, At(t, op, stage)
    PROVE  Holding(t) /\ pc[t] # "idle" /\ req[t].op = op
  BY DEF At, Holding, Waiting

\* Base gives every part of TypeOK.
LEMMA TypedParts ==
    ASSUME Base
    PROVE  TypedSessions /\ TypedRegistries /\ TypedDatabase /\ TypedCoroutines
  BY TypeOKSplit DEF Base

\* A handler that writes its own session and ends.
LEMMA OwnFinishSound ==
    ASSUME Base, NEW t \in Task, Holding(t), req[t].op \in UniqueOps, Finish(t), link' = link,
           TypedSessions', TypedRegistries', TypedDatabase',
           \A c \in Conn \ {conn[t]} : SameSession(c),
           LET c == conn[t]
           IN  /\ room'[c] # None => user'[c] # None
               /\ status'[c] = "Authenticated" => user'[c] # None /\ user'[c].id # None
               /\ status'[c] \in {"Registering", "Authenticating"} => user'[c] # None
    PROVE  StepSound(t)
<1>1. Moves(t) /\ pc'[t] = "idle"
  BY TypedParts, FinishMoves DEF Holding
<1>2. Knows(t)'
  BY <1>1, IdleKnows DEF Waiting
<1> QED
  BY <1>1, <1>2, OwnSound

\* The first phase of a log in or a registration notes the name, with no id.
LEMMA FirstPhaseSound ==
    ASSUME Base, NEW t \in Task, FindAccount(t) \/ FindNameFree(t)
    PROVE  StepSound(t)
<1>1. /\ Holding(t) /\ conn[t] \in Conn /\ req[t].user \in User /\ req[t].op \in UniqueOps
      /\ Finish(t) /\ UNCHANGED <<link, room, registries, database>>
  BY RequestOf DEF FindAccount, FindNameFree, At, Holding, UniqueOps
<1>2. /\ \/ UNCHANGED <<status, user>>
         \/ /\ user' = [user EXCEPT ![conn[t]] = [name |-> req[t].user, id |-> None]]
            /\ \E s \in {"Authenticating", "Registering"} : status' = [status EXCEPT ![conn[t]] = s]
  BY DEF FindAccount, FindNameFree, SetStatus, SetUser
<1>3. TypedSessions' /\ \A c \in Conn \ {conn[t]} : SameSession(c)
  BY <1>1, <1>2, TypedParts DEF TypedSessions, SameSession, Status, SessionUser
<1>4. TypedRegistries' /\ TypedDatabase'
  BY <1>1, TypedParts DEF TypedRegistries, TypedDatabase, registries, database
<1>5. LET c == conn[t]
      IN  /\ room'[c] # None => user'[c] # None
          /\ status'[c] = "Authenticated" => user'[c] # None /\ user'[c].id # None
          /\ status'[c] \in {"Registering", "Authenticating"} => user'[c] # None
  <2>1. [name |-> req[t].user, id |-> None] # None
    BY <1>1, ChatAssumption DEF SessionUser
  <2> QED
    BY <1>1, <1>2, <2>1, TypedParts DEF TypedSessions, SessionsShaped, Base, Authenticated
<1> QED
  BY <1>1, <1>3, <1>4, <1>5, OwnFinishSound

\* What the user of a session is, where the handlers rely on it.
LEMMA UsersOfSessions ==
    ASSUME Base, NEW c \in Conn
    PROVE  /\ status[c] \in {"Registering", "Authenticating"} => user[c] \in SessionUser
           /\ Authenticated(c) => user[c] \in SessionUser /\ user[c].id \in User
           /\ user[c] # None => user[c].id \in User \cup {None} /\ user[c].name \in User
           /\ room[c] # None => room[c] \in CurrentRoom /\ room[c].id \in Room
  BY TypedParts DEF Base, TypedSessions, SessionsShaped, Authenticated, SessionUser, CurrentRoom

\* An accepted log in sets an id the database knows.
LEMMA AcceptAuthSound ==
    ASSUME Base, NEW t \in Task, AcceptAuth(t)
    PROVE  StepSound(t)
<1>1. /\ Holding(t) /\ pc[t] # "idle" /\ conn[t] \in Conn /\ req[t].op \in UniqueOps
      /\ pc[t] = "verify" /\ UNCHANGED <<link, room, registries, database>>
  BY RequestOf DEF AcceptAuth, At, Holding, UniqueOps
<1>2. Me(t).name \in User
  BY <1>1, UsersOfSessions DEF Me, Base, HoldersKnow, Knows, SessionUser
<1>3. /\ user' = [user EXCEPT ![conn[t]] = [name |-> Me(t).name, id |-> Me(t).name]]
      /\ status' = [status EXCEPT ![conn[t]] = "Authenticated"]
  BY DEF AcceptAuth, SetStatus, SetUser
<1>4. TypedSessions' /\ \A c \in Conn \ {conn[t]} : SameSession(c)
  BY <1>1, <1>2, <1>3, TypedParts DEF TypedSessions, SameSession, Status, SessionUser
<1>5. TypedRegistries' /\ TypedDatabase'
  BY <1>1, TypedParts DEF TypedRegistries, TypedDatabase, registries, database
<1>6. Moves(t) /\ pc'[t] = "login" /\ UNCHANGED locals
  BY <1>1, TypedParts, GotoMoves DEF AcceptAuth, Stage
<1>7. status'[conn[t]] = "Authenticated" /\ user'[conn[t]] # None /\ user'[conn[t]].id # None
  <2>1. [name |-> Me(t).name, id |-> Me(t).name] \in SessionUser
    BY <1>2 DEF SessionUser
  <2> QED
    BY <1>1, <1>2, <1>3, <2>1, TypedParts, ChatAssumption DEF TypedSessions
<1>8. Knows(t)'
  BY <1>6, <1>7 DEF Knows, AuthenticatedStages, Authenticated, locals, At
<1> QED
  BY <1>1, <1>4, <1>5, <1>6, <1>7, <1>8, OwnSound

\* A failed log in or registration resets the status alone.
LEMMA StatusResetSound ==
    ASSUME Base, NEW t \in Task, Holding(t), req[t].op \in UniqueOps,
           SetStatus(conn[t], "Unauthenticated"), Finish(t),
           UNCHANGED <<link, user, room, registries>>, TypedDatabase'
    PROVE  StepSound(t)
<1>1. conn[t] \in Conn
  BY RequestOf DEF Holding
<1>2. TypedSessions' /\ \A c \in Conn \ {conn[t]} : SameSession(c)
  BY <1>1, TypedParts DEF TypedSessions, SameSession, Status, SetStatus
<1>3. TypedRegistries'
  BY TypedParts DEF TypedRegistries, registries
<1>4. status'[conn[t]] = "Unauthenticated" /\ (room'[conn[t]] # None => user'[conn[t]] # None)
  BY <1>1, TypedParts DEF TypedSessions, SetStatus, Base, SessionsShaped
<1> QED
  BY <1>2, <1>3, <1>4, OwnFinishSound

\* A failed password migration resets the status.
LEMMA AbortAuthSound ==
    ASSUME Base, NEW t \in Task, AbortAuth(t)
    PROVE  StepSound(t)
<1>1. Holding(t) /\ req[t].op \in UniqueOps
  BY DEF AbortAuth, At, Holding, UniqueOps
<1>2. TypedDatabase'
  BY TypedParts DEF AbortAuth, TypedDatabase, database
<1> QED
  BY <1>1, <1>2, StatusResetSound DEF AbortAuth

\* A registration stores the name that its first phase noted.
LEMMA InsertAccountSound ==
    ASSUME Base, NEW t \in Task, InsertAccount(t)
    PROVE  StepSound(t)
<1>1. Holding(t) /\ conn[t] \in Conn /\ req[t].op \in UniqueOps
  BY RequestOf DEF InsertAccount, At, Holding, UniqueOps
<1>2. Me(t).name \in User
  BY <1>1, UsersOfSessions DEF InsertAccount, At, Me, Base, HoldersKnow, Knows, SessionUser
<1>3. TypedDatabase'
  BY <1>2, TypedParts DEF InsertAccount, TypedDatabase
<1> QED
  BY <1>1, <1>3, StatusResetSound DEF InsertAccount

\* A step that changes only the registries.
LEMMA RegistrySound ==
    ASSUME Base, NEW t \in Task, Moves(t), Knows(t)',
           UNCHANGED <<sessions, database>>, TypedRegistries'
    PROVE  StepSound(t)
<1>1. UNCHANGED <<link, status, user, room>>
  BY DEF sessions
<1>2. TypedSessions' /\ TypedDatabase'
  BY <1>1, TypedParts DEF TypedSessions, TypedDatabase, database
<1>3. SessionsShaped'
  BY <1>1 DEF SessionsShaped, Authenticated, Base
<1>4. OthersStable(t)
  BY <1>1 DEF OthersStable, SameSession
<1> QED
  BY <1>1, <1>2, <1>3, <1>4 DEF StepSound

\* The operations of the manager keep the registries' type.
LEMMA ManagerTyped ==
    ASSUME Base, NEW c \in Conn,
           \/ \E u \in User : registerConnection(u, c)
           \/ \E r \in Room : addConnectionToRoom(c, r) \/ onRoomDeleted(r)
           \/ removeConnectionFromRoom(c) \/ removeConnectionFromUser(c)
    PROVE  TypedRegistries'
<1>1. TypedRegistries
  BY TypedParts
<1>2. CASE \E u \in User : registerConnection(u, c)
  BY <1>1, <1>2 DEF registerConnection, TypedRegistries
<1>3. CASE \E r \in Room : addConnectionToRoom(c, r)
  BY <1>1, <1>3 DEF addConnectionToRoom, TypedRegistries
<1>4. CASE removeConnectionFromRoom(c)
  BY <1>1, <1>4 DEF removeConnectionFromRoom, TypedRegistries
<1>5. CASE removeConnectionFromUser(c)
  BY <1>1, <1>5 DEF removeConnectionFromUser, TypedRegistries
<1>6. CASE \E r \in Room : onRoomDeleted(r)
  BY <1>1, <1>6 DEF onRoomDeleted, TypedRegistries
<1> QED
  BY <1>2, <1>3, <1>4, <1>5, <1>6

\* The second half of a log in registers an id that is really there.
LEMMA LoginSound ==
    ASSUME Base, NEW t \in Task, Login(t)
    PROVE  StepSound(t)
<1>1. Holding(t) /\ pc[t] # "idle" /\ conn[t] \in Conn /\ Authenticated(conn[t])
  BY RequestOf DEF Login, At, Holding, Base, HoldersKnow, Knows, AuthenticatedStages
<1>2. TypedRegistries'
  BY <1>1, UsersOfSessions, ManagerTyped DEF Login, Me
<1>3. Moves(t) /\ Knows(t)'
  BY <1>1, TypedParts, FinishMoves, IdleKnows DEF Login, Waiting
<1> QED
  BY <1>2, <1>3, RegistrySound DEF Login

\* The first half of an unregistration writes the registry of rooms only.
LEMMA UnregisterFromRoomSound ==
    ASSUME Base, NEW t \in Task, UnregisterFromRoom(t)
    PROVE  StepSound(t)
<1>1. Holding(t) /\ pc[t] # "idle" /\ conn[t] \in Conn
  BY RequestOf DEF UnregisterFromRoom, At, Holding
<1>2. TypedRegistries'
  BY <1>1, ManagerTyped DEF UnregisterFromRoom
<1>3. Moves(t) /\ pc'[t] = "unregister"
  BY <1>1, TypedParts, GotoMoves DEF UnregisterFromRoom, Stage
<1>4. Knows(t)'
  BY <1>3 DEF Knows, AuthenticatedStages, At
<1> QED
  BY <1>2, <1>3, <1>4, RegistrySound DEF UnregisterFromRoom

\* The close of a connection leaves its session alone.
LEMMA CloseSound ==
    ASSUME Base, NEW t \in Task, Close(t)
    PROVE  StepSound(t)
<1>1. pc[t] # "idle" /\ conn[t] \in Conn
  BY RequestOf DEF Close, At
<1>2. TypedRegistries'
  BY <1>1, ManagerTyped DEF Close
<1>3. Moves(t) /\ Knows(t)'
  BY <1>1, TypedParts, FinishMoves, IdleKnows DEF Close, Waiting
<1> QED
  BY <1>2, <1>3, RegistrySound DEF Close

\* A log out clears user, room and status together.
LEMMA LogoutSound ==
    ASSUME Base, NEW t \in Task, Logout(t)
    PROVE  StepSound(t)
<1>1. Holding(t) /\ conn[t] \in Conn /\ req[t].op \in UniqueOps
  BY RequestOf DEF Logout, At, Holding, UniqueOps
<1>2. TypedRegistries'
  BY <1>1, ManagerTyped DEF Logout
<1>3. TypedDatabase'
  BY TypedParts DEF Logout, TypedDatabase, database
<1>4. TypedSessions' /\ \A c \in Conn \ {conn[t]} : SameSession(c)
  BY <1>1, TypedParts DEF Logout, TypedSessions, SameSession, Status, SetStatus
<1>5. room'[conn[t]] = None /\ status'[conn[t]] = "Unauthenticated"
  BY <1>1, TypedParts DEF Logout, TypedSessions, SetStatus
<1> QED
  BY <1>1, <1>2, <1>3, <1>4, <1>5, OwnFinishSound DEF Logout

\* Every step of the session handlers is sound.
LEMMA SessionStepSound ==
    ASSUME Base, NEW t \in Task, SessionStep(t)
    PROVE  StepSound(t)
<1>1. CASE StartAuthInitial(t) \/ StartRegisterInitial(t)
  BY <1>1, StartSound DEF StartAuthInitial, StartRegisterInitial, Stage, FallibleStages, AuthenticatedStages
<1>2. CASE StartAuth(t)
  BY <1>2, StartSound DEF StartAuth, Stage, FallibleStages, AuthenticatedStages
<1>3. CASE StartRegister(t)
  BY <1>3, StartSound DEF StartRegister, Stage, FallibleStages, AuthenticatedStages
<1>4. CASE StartLogout(t) \/ StartClose(t)
  <2> DEFINE stage == Unregister(t)
  <2>1. stage \in Stage /\ stage \in {"leave", "unregister"}
    BY DEF Unregister, Stage
  <2> HIDE DEF stage
  <2> QED
    BY <1>4, <2>1, StartSound DEF StartLogout, StartClose, stage, AuthenticatedStages
<1> QED
  BY <1>1, <1>2, <1>3, <1>4, FirstPhaseSound, AcceptAuthSound, AbortAuthSound, LoginSound,
     InsertAccountSound, UnregisterFromRoomSound, LogoutSound, CloseSound DEF SessionStep

-----------------------------------------------------------------------------
\* The rights that the database grants are rights.
LEMMA RightsTyped == \A u, r, o : getUserRights(u, r, o) \in Rights
  BY DEF getUserRights, Rights, REGULAR, MODERATOR, OWNER, ADMIN

\* A handler that moves on, or ends, without touching sessions and registries.
LEMMA QuietGotoSound ==
    ASSUME Base, NEW t \in Task, Holding(t), NEW stage \in Stage, Goto(t, stage),
           UNCHANGED <<sessions, registries>>, TypedDatabase',
           stage \notin {"verify", "insert", "leave", "enter", "cacheOld", "cachingOld"},
           stage \in AuthenticatedStages => Authenticated(conn[t]),
           stage \in {"findRoom", "membership", "rights"} => room[conn[t]] = None
    PROVE  StepSound(t)
<1>1. Moves(t) /\ pc'[t] = stage /\ UNCHANGED locals
  BY TypedParts, GotoMoves DEF Holding
<1>2. Knows(t)'
  BY <1>1 DEF Knows, locals, sessions, Authenticated, At
<1> QED
  BY <1>1, <1>2, QuietSound

\* handleJoinRoom leaves the old room: the session has none then.
LEMMA JoinLeaveOldRoomSound ==
    ASSUME Base, NEW t \in Task, JoinLeaveOldRoom(t)
    PROVE  StepSound(t)
<1>1. Holding(t) /\ pc[t] # "idle" /\ conn[t] \in Conn /\ req[t].op \in UniqueOps
  BY RequestOf DEF JoinLeaveOldRoom, At, Holding, UniqueOps
<1>2. TypedRegistries'
  BY <1>1, ManagerTyped DEF JoinLeaveOldRoom
<1>3. TypedDatabase'
  BY TypedParts DEF JoinLeaveOldRoom, TypedDatabase, database
<1>4. TypedSessions' /\ \A c \in Conn \ {conn[t]} : SameSession(c)
  BY <1>1, TypedParts DEF JoinLeaveOldRoom, TypedSessions, SameSession, SetRoom
<1>5. room'[conn[t]] = None /\ status' = status /\ user' = user /\ link' = link
  BY <1>1, TypedParts DEF JoinLeaveOldRoom, TypedSessions, SetRoom
<1>6. Moves(t) /\ pc'[t] = "findRoom" /\ UNCHANGED locals
  BY <1>1, TypedParts, GotoMoves DEF JoinLeaveOldRoom, Stage, FallibleStages
<1>7. Knows(t)'
  <2>1. Authenticated(conn[t])
    BY DEF JoinLeaveOldRoom, Base, HoldersKnow, Knows
  <2> QED
    BY <1>5, <1>6, <2>1 DEF Knows, AuthenticatedStages, Authenticated, locals, At
<1> QED
  BY <1>1, <1>2, <1>3, <1>4, <1>5, <1>6, <1>7, OwnSound DEF Base, SessionsShaped, Authenticated

\* handleJoinRoom looks the room up.
LEMMA JoinFindRoomSound ==
    ASSUME Base, NEW t \in Task, JoinFindRoom(t)
    PROVE  StepSound(t)
<1>1. /\ Holding(t) /\ pc[t] = "findRoom" /\ conn[t] \in Conn /\ req[t].room \in Room
      /\ UNCHANGED <<sessions, registries, database>>
  BY RequestOf DEF JoinFindRoom, At, Holding
<1>2. TypedDatabase'
  BY <1>1, TypedParts DEF TypedDatabase, database
<1>3. CASE req[t].room \in rooms
  <2>1. Moves(t) /\ pc'[t] = "membership" /\ conn'[t] = conn[t]
    BY <1>1, <1>3, TypedParts
       DEF JoinFindRoom, TypedDatabase, TypedCoroutines, Moves, Same, Waiting, Holding, Stage, FallibleStages
  <2>2. Authenticated(conn[t]) /\ room[conn[t]] = None
    BY <1>1 DEF Base, HoldersKnow, Knows, AuthenticatedStages
  <2>3. Knows(t)'
    BY <1>1, <2>1, <2>2 DEF Knows, sessions, Authenticated, At
  <2> QED
    BY <1>1, <1>2, <2>1, <2>3, QuietSound
<1>4. CASE req[t].room \notin rooms
  BY <1>1, <1>2, <1>4, FinishSound DEF JoinFindRoom
<1> QED
  BY <1>3, <1>4

\* handleJoinRoom writes the membership of a user with an id.
LEMMA JoinMembershipSound ==
    ASSUME Base, NEW t \in Task, JoinMembership(t)
    PROVE  StepSound(t)
<1>1. /\ Holding(t) /\ pc[t] = "membership" /\ conn[t] \in Conn /\ req[t].room \in Room
      /\ UNCHANGED <<sessions, registries, accounts, rooms, spent, owner, moderators>>
  BY RequestOf DEF JoinMembership, At, Holding
<1>2. Authenticated(conn[t]) /\ room[conn[t]] = None
  BY <1>1 DEF Base, HoldersKnow, Knows, AuthenticatedStages
<1>3. TypedDatabase'
  BY <1>1, TypedParts DEF JoinMembership, TypedDatabase
<1>4. Goto(t, "rights") \/ Finish(t)
  BY DEF JoinMembership
<1>5. CASE Goto(t, "rights")
  BY <1>1, <1>2, <1>3, <1>5, QuietGotoSound DEF Stage, FallibleStages
<1>6. CASE Finish(t)
  BY <1>1, <1>3, <1>6, FinishSound
<1> QED
  BY <1>4, <1>5, <1>6

\* handleJoinRoom puts the session into the room before the registry does.
LEMMA JoinSetRoomSound ==
    ASSUME Base, NEW t \in Task, JoinSetRoom(t)
    PROVE  StepSound(t)
<1> DEFINE new == [id |-> req[t].room,
                   rights |-> getUserRights(Me(t).id, req[t].room, ownerRead[t])]
<1>1. /\ Holding(t) /\ pc[t] = "rights" /\ conn[t] \in Conn /\ req[t].op \in UniqueOps
      /\ req[t].room \in Room /\ Authenticated(conn[t])
  BY RequestOf DEF JoinSetRoom, At, Holding, UniqueOps, Base, HoldersKnow, Knows, AuthenticatedStages
<1>2. new \in CurrentRoom /\ new # None
  BY <1>1, RightsTyped, ChatAssumption DEF CurrentRoom
<1>3. new.id = req[t].room
  OBVIOUS
<1> HIDE DEF new
<1>4. room' = [room EXCEPT ![conn[t]] = new] /\ UNCHANGED <<link, status, user, registries, database>>
  BY DEF JoinSetRoom, new, SetRoom
<1>5. TypedSessions' /\ \A c \in Conn \ {conn[t]} : SameSession(c)
  BY <1>1, <1>2, <1>4, TypedParts DEF TypedSessions, SameSession
<1>6. TypedRegistries' /\ TypedDatabase'
  BY <1>4, TypedParts DEF TypedRegistries, TypedDatabase, registries, database
<1>7. Moves(t) /\ pc'[t] = "enter" /\ UNCHANGED locals
  BY <1>1, TypedParts, GotoMoves DEF JoinSetRoom, Stage
<1>8. status'[conn[t]] = "Authenticated" /\ room'[conn[t]] = new
  BY <1>1, <1>4, TypedParts DEF Authenticated, TypedSessions
<1>9. Knows(t)'
  BY <1>2, <1>3, <1>7, <1>8 DEF Knows, locals, Authenticated, InRoom, At
<1>10. user'[conn[t]] # None /\ user'[conn[t]].id # None
  BY <1>1, <1>4 DEF Base, SessionsShaped
<1> QED
  BY <1>1, <1>4, <1>5, <1>6, <1>7, <1>8, <1>9, <1>10, OwnSound

\* The registry's half of a join.
LEMMA JoinEnterSound ==
    ASSUME Base, NEW t \in Task, JoinEnter(t)
    PROVE  StepSound(t)
<1>1. Holding(t) /\ pc[t] # "idle" /\ conn[t] \in Conn /\ req[t].room \in Room
  BY RequestOf DEF JoinEnter, At, Holding
<1>2. TypedRegistries'
  BY <1>1, ManagerTyped DEF JoinEnter
<1>3. Moves(t) /\ pc'[t] = "list"
  BY <1>1, TypedParts, GotoMoves DEF JoinEnter, Stage
<1>4. Knows(t)'
  BY <1>3 DEF Knows, AuthenticatedStages, At
<1> QED
  BY <1>2, <1>3, <1>4, RegistrySound DEF JoinEnter

\* Listing the room: nothing is written but the place in the walk.
LEMMA ListingSound ==
    ASSUME Base, NEW t \in Task,
           JoinList(t) \/ (\E d \in Conn : JoinVisit(t, d)) \/ JoinListed(t)
    PROVE  StepSound(t)
<1>1. /\ Holding(t) /\ pc[t] \in {"list", "listing"} /\ req[t].room \in Room
      /\ UNCHANGED <<sessions, registries, database>>
  <2>1. At(t, "JoinRoom", "list") \/ At(t, "JoinRoom", "listing")
    BY DEF JoinList, JoinVisit, JoinListed
  <2>2. UNCHANGED <<sessions, registries, database>>
    BY DEF JoinList, JoinVisit, JoinListed, VisitShared, sessions
  <2> QED
    BY <2>1, <2>2, RequestOf DEF At, Holding
<1>2. TypedDatabase'
  BY <1>1, TypedParts DEF TypedDatabase, database
<1>3. CASE JoinList(t)
  <2>1. Moves(t) /\ pc'[t] = "listing"
    <3>1. roomConns[req[t].room] \in SUBSET Conn
      BY <1>1, TypedParts DEF TypedRegistries
    <3> QED
      BY <1>1, <1>3, <3>1, TypedParts, WalkMoves DEF JoinList, Stage, ListingStages
  <2>2. Knows(t)'
    BY <2>1 DEF Knows, AuthenticatedStages, At
  <2> QED
    BY <1>1, <1>2, <2>1, <2>2, QuietSound
<1>4. ASSUME NEW d \in Conn, JoinVisit(t, d)
      PROVE  StepSound(t)
  <2>1. Moves(t) /\ pc'[t] = "listing"
    BY <1>1, <1>4, TypedParts, PassMoves DEF JoinVisit, VisitShared, At
  <2>2. Knows(t)'
    BY <2>1 DEF Knows, AuthenticatedStages, At
  <2> QED
    BY <1>1, <1>2, <2>1, <2>2, QuietSound
<1>5. CASE JoinListed(t)
  BY <1>1, <1>2, <1>5, FinishSound DEF JoinListed
<1> QED
  BY <1>3, <1>4, <1>5

\* handleLeaveRoom clears the room of its own session.
LEMMA LeaveSound ==
    ASSUME Base, NEW t \in Task, Leave(t)
    PROVE  StepSound(t)
<1>1. Holding(t) /\ conn[t] \in Conn /\ req[t].op \in UniqueOps
  BY RequestOf DEF Leave, At, Holding, UniqueOps
<1>2. TypedRegistries'
  BY <1>1, ManagerTyped DEF Leave
<1>3. TypedDatabase'
  BY TypedParts DEF Leave, TypedDatabase, database
<1>4. TypedSessions' /\ \A c \in Conn \ {conn[t]} : SameSession(c)
  BY <1>1, TypedParts DEF Leave, TypedSessions, SameSession, SetRoom
<1>5. room'[conn[t]] = None /\ status' = status /\ user' = user /\ link' = link
  BY <1>1, TypedParts DEF Leave, TypedSessions, SetRoom
<1> QED
  BY <1>1, <1>2, <1>3, <1>4, <1>5, OwnFinishSound DEF Leave, Base, SessionsShaped, Authenticated

\* handleCreateRoom inserts a row with a fresh id.
LEMMA InsertRoomSound ==
    ASSUME Base, NEW t \in Task, NEW r \in Room, InsertRoom(t, r)
    PROVE  StepSound(t)
<1>1. pc[t] # "idle" /\ conn[t] \in Conn /\ Authenticated(conn[t])
  BY RequestOf DEF InsertRoom, At, Base, HoldersKnow, Knows, AuthenticatedStages
<1>2. Me(t).id \in User
  BY <1>1, UsersOfSessions DEF Me
<1>3. TypedDatabase'
  BY <1>2, TypedParts DEF InsertRoom, TypedDatabase
<1> QED
  BY <1>1, <1>3, FinishSound DEF InsertRoom

\* handleDeleteRoom deletes the room's row and all that refers to it.
LEMMA DeleteRowSound ==
    ASSUME Base, NEW t \in Task, DeleteRow(t)
    PROVE  StepSound(t)
<1>1. Holding(t) /\ pc[t] # "idle" /\ UNCHANGED <<sessions, registries, accounts, spent>>
  BY DEF DeleteRow, At, Holding
<1>2. TypedDatabase'
  <2>1. CASE req[t].room \in rooms
    <3>1. /\ rooms' = rooms \ {req[t].room}
          /\ owner' = [owner EXCEPT ![req[t].room] = None]
          /\ membership' = [ur \in User \X Room |->
                              IF ur[2] = req[t].room THEN "none" ELSE membership[ur]]
          /\ moderators' = {ur \in moderators : ur[2] # req[t].room}
      BY <2>1 DEF DeleteRow
    <3> QED
      BY <1>1, <3>1, TypedParts DEF TypedDatabase
  <2>2. CASE req[t].room \notin rooms
    BY <1>1, <2>2, TypedParts DEF DeleteRow, TypedDatabase
  <2> QED
    BY <2>1, <2>2
<1>3. Goto(t, "evict") \/ Finish(t)
  BY DEF DeleteRow
<1>4. CASE Goto(t, "evict")
  BY <1>1, <1>2, <1>4, QuietGotoSound DEF Stage, AuthenticatedStages
<1>5. CASE Finish(t)
  BY <1>1, <1>2, <1>5, FinishSound
<1> QED
  BY <1>3, <1>4, <1>5

\* The eviction forgets the room's list; the sessions keep their room.
LEMMA EvictSound ==
    ASSUME Base, NEW t \in Task, Evict(t)
    PROVE  StepSound(t)
<1>1. pc[t] # "idle" /\ conn[t] \in Conn /\ req[t].room \in Room
  BY RequestOf DEF Evict, At
<1>2. TypedRegistries'
  BY <1>1, ManagerTyped DEF Evict
<1>3. Moves(t) /\ Knows(t)'
  BY <1>1, TypedParts, FinishMoves, IdleKnows DEF Evict, Waiting
<1> QED
  BY <1>2, <1>3, RegistrySound DEF Evict

\* handleBecomeMember writes one membership.
LEMMA BecomeMemberSound ==
    ASSUME Base, NEW t \in Task, BecomeMember(t)
    PROVE  StepSound(t)
<1>1. pc[t] # "idle"
  BY DEF BecomeMember, At
<1>2. TypedDatabase'
  BY TypedParts DEF BecomeMember, TypedDatabase
<1> QED
  BY <1>1, <1>2, FinishSound DEF BecomeMember

\* A sent message changes nothing of this state.
LEMMA SendMessageSound ==
    ASSUME Base, NEW t \in Task, SendMessage(t)
    PROVE  StepSound(t)
<1>1. pc[t] # "idle"
  BY DEF SendMessage, At
<1>2. TypedDatabase'
  BY TypedParts DEF SendMessage, TypedDatabase, database
<1> QED
  BY <1>1, <1>2, FinishSound DEF SendMessage

\* Every step of the room and message handlers is sound.
LEMMA RoomStepSound ==
    ASSUME Base, NEW t \in Task, RoomStep(t)
    PROVE  StepSound(t)
<1>1. CASE StartJoin(t)
  <2> DEFINE stage == IF room[conn[t]] # None THEN "leave" ELSE "findRoom"
  <2>1. stage \in Stage /\ stage \in {"leave", "findRoom"}
        /\ (stage = "findRoom" => room[conn[t]] = None)
    BY DEF Stage, FallibleStages
  <2>2. Start(t, "JoinRoom", Authenticated(conn[t]), stage)
    BY <1>1 DEF StartJoin
  <2> HIDE DEF stage
  <2> QED
    BY <2>1, <2>2, StartSound DEF AuthenticatedStages
<1>2. CASE StartLeave(t) \/ StartCreateRoom(t) \/ StartBecomeMember(t) \/ StartSendMessage(t)
  BY <1>2, StartSound DEF StartLeave, StartCreateRoom, StartBecomeMember, StartSendMessage,
     Stage, FallibleStages, AuthenticatedStages
<1>3. CASE StartDeleteRoom(t)
  BY <1>3, StartSound DEF StartDeleteRoom, Stage, FallibleStages, AuthenticatedStages
<1> QED
  BY <1>1, <1>2, <1>3, JoinLeaveOldRoomSound, JoinFindRoomSound, JoinMembershipSound,
     JoinSetRoomSound, JoinEnterSound, ListingSound, LeaveSound, InsertRoomSound, DeleteRowSound,
     EvictSound, BecomeMemberSound, SendMessageSound DEF RoomStep

-----------------------------------------------------------------------------
\* A step of handleAssignRole that reads the owner or notes the old owner's role.
LEMMA CheckRoleSound ==
    ASSUME Base, NEW t \in Task, CheckRole(t)
    PROVE  StepSound(t)
<1>1. Holding(t) /\ pc[t] # "idle" /\ UNCHANGED <<sessions, registries, database>>
  BY DEF CheckRole, At, Holding
<1>2. TypedDatabase'
  BY <1>1, TypedParts DEF TypedDatabase, database
<1>3. Goto(t, "readOwner") \/ Goto(t, "commit") \/ Finish(t)
  BY DEF CheckRole
<1> QED
  BY <1>1, <1>2, <1>3, QuietGotoSound, FinishSound DEF Stage, FallibleStages, AuthenticatedStages

\* handleAssignRole reads the owner it is about to replace.
LEMMA ReadOwnerSound ==
    ASSUME Base, NEW t \in Task, ReadOwner(t)
    PROVE  StepSound(t)
<1>1. /\ Holding(t) /\ pc[t] # "idle" /\ req[t].room \in Room
      /\ UNCHANGED <<sessions, registries, database>>
  BY RequestOf DEF ReadOwner, At, Holding
<1>2. TypedDatabase'
  BY <1>1, TypedParts DEF TypedDatabase, database
<1>3. CASE req[t].room \in rooms
  <2>1. Moves(t) /\ pc'[t] = "commit"
    BY <1>1, <1>3, TypedParts
       DEF ReadOwner, TypedDatabase, TypedCoroutines, Moves, Same, Waiting, Holding, Stage, FallibleStages
  <2>2. Knows(t)'
    BY <2>1 DEF Knows, AuthenticatedStages, At
  <2> QED
    BY <1>1, <1>2, <2>1, <2>2, QuietSound
<1>4. CASE req[t].room \notin rooms
  BY <1>1, <1>2, <1>4, FinishSound DEF ReadOwner
<1> QED
  BY <1>3, <1>4

\* handleAssignRole commits a role that is not the owner's.
LEMMA CommitRoleSound ==
    ASSUME Base, NEW t \in Task, CommitRole(t)
    PROVE  StepSound(t)
<1>1. /\ Holding(t) /\ pc[t] # "idle" /\ req[t].room \in Room /\ req[t].user \in User
      /\ UNCHANGED <<sessions, registries, accounts, rooms, spent, owner, membership>>
  BY RequestOf DEF CommitRole, At, Holding
<1>2. TypedDatabase'
  BY <1>1, TypedParts DEF CommitRole, TypedDatabase, updateUserRoleInDb
<1>3. Goto(t, "cacheNew") \/ Finish(t)
  BY DEF CommitRole
<1> QED
  BY <1>1, <1>2, <1>3, QuietGotoSound, FinishSound DEF Stage, AuthenticatedStages

\* handleAssignRole commits a new owner and keeps the old one's new role.
LEMMA CommitOwnerSound ==
    ASSUME Base, NEW t \in Task, CommitOwner(t)
    PROVE  StepSound(t)
<1> DEFINE r == req[t].room
           n == req[t].user
           o == ownerRead[t]
           demote == o # None /\ RightsLeft(o, n, r) < MODERATOR
           ok == (r \in rooms => n \in accounts) /\ (demote => HasMembership(o, r))
           left == IF o = None THEN None
                   ELSE IF demote THEN MODERATOR ELSE RightsLeft(o, n, r)
           next == IF o = None THEN "cacheNew" ELSE "cacheOld"
<1>1. /\ Holding(t) /\ pc[t] # "idle" /\ r \in Room /\ n \in User /\ o \in User \cup {None}
      /\ UNCHANGED <<sessions, registries, accounts, rooms, spent, membership>>
  BY RequestOf, TypedParts DEF CommitOwner, At, Holding, TypedCoroutines
<1>2. \/ /\ Finish(t) /\ UNCHANGED <<owner, moderators>>
      \/ /\ owner' = IF r \in rooms THEN [owner EXCEPT ![r] = n] ELSE owner
         /\ IF demote THEN updateUserRoleInDb(o, r, MODERATOR) ELSE UNCHANGED moderators
         /\ pc' = [pc EXCEPT ![t] = next]
         /\ oldRole' = [oldRole EXCEPT ![t] = left]
         /\ UNCHANGED <<conn, req, todo, ownerRead>>
  BY DEF CommitOwner
<1>3. left \in Rights \cup {None} /\ (o # None => left \in Rights /\ left # None)
  BY RightsTyped, ChatAssumption DEF RightsLeft, Rights, MODERATOR, REGULAR, ADMIN
<1>4. demote => o \in User
  BY <1>1
<1> HIDE DEF left, demote
<1>5. CASE Finish(t) /\ UNCHANGED <<owner, moderators>>
  <2>1. TypedDatabase'
    BY <1>1, <1>5, TypedParts DEF TypedDatabase
  <2> QED
    BY <1>1, <1>5, <2>1, FinishSound
<1>6. CASE ~(Finish(t) /\ UNCHANGED <<owner, moderators>>)
  <2>1. TypedDatabase'
    BY <1>1, <1>2, <1>4, <1>6, TypedParts DEF TypedDatabase, updateUserRoleInDb
  <2>2. Moves(t) /\ pc'[t] = next /\ oldRole'[t] = left /\ ownerRead'[t] = o
    BY <1>1, <1>2, <1>3, <1>6, TypedParts
       DEF TypedCoroutines, Moves, Same, Waiting, Holding, Stage
  <2>3. Knows(t)'
    BY <1>3, <2>2 DEF Knows, AuthenticatedStages, At
  <2> QED
    BY <1>1, <2>1, <2>2, <2>3, QuietSound
<1> QED
  BY <1>5, <1>6

\* The beginning of a walk over a user's connections.
LEMMA CacheWalkSound ==
    ASSUME Base, NEW t \in Task, CacheOld(t) \/ CacheNew(t)
    PROVE  StepSound(t)
<1>1. Holding(t) /\ pc[t] # "idle" /\ UNCHANGED <<sessions, registries, database>>
  BY DEF CacheOld, CacheNew, At, Holding
<1>2. TypedDatabase'
  BY <1>1, TypedParts DEF TypedDatabase, database
<1>3. CASE CacheOld(t)
  <2>1. ownerRead[t] \in User /\ ownerRead[t] # None /\ oldRole[t] # None
    BY <1>3, TypedParts DEF CacheOld, At, Base, HoldersKnow, Knows, TypedCoroutines
  <2>2. userConns[ownerRead[t]] \in SUBSET Conn
    BY <2>1, TypedParts DEF TypedRegistries
  <2>3. Moves(t) /\ pc'[t] = "cachingOld" /\ UNCHANGED <<ownerRead, oldRole>>
    BY <1>1, <1>3, <2>2, TypedParts, WalkMoves DEF CacheOld, Walk, Stage, ListingStages
  <2>4. Knows(t)'
    BY <2>1, <2>3 DEF Knows, AuthenticatedStages, At
  <2> QED
    BY <1>1, <1>2, <2>3, <2>4, QuietSound
<1>4. CASE CacheNew(t)
  <2>1. req[t].user \in User
    BY <1>4, RequestOf DEF CacheNew, At
  <2>2. userConns[req[t].user] \in SUBSET Conn
    BY <2>1, TypedParts DEF TypedRegistries
  <2>3. Moves(t) /\ pc'[t] = "cachingNew"
    BY <1>1, <1>4, <2>2, TypedParts, WalkMoves DEF CacheNew, Stage, ListingStages
  <2>4. Knows(t)'
    BY <2>3 DEF Knows, AuthenticatedStages, At
  <2> QED
    BY <1>1, <1>2, <2>3, <2>4, QuietSound
<1> QED
  BY <1>3, <1>4

\* One session's cached rights are written under that session's unique lock,
\* or its own lock: nobody else relies on them.
LEMMA CacheVisitSound ==
    ASSUME Base, NEW t \in Task, NEW d \in Conn, CacheVisit(t, d)
    PROVE  StepSound(t)
<1>1. /\ Holding(t) /\ pc[t] # "idle" /\ pc[t] \in {"cachingOld", "cachingNew"}
      /\ req[t].op \in UniqueOps /\ req[t].room \in Room /\ req[t].role \in Rights
      /\ UNCHANGED <<link, status, user, registries, database>>
  <2>1. At(t, "AssignRole", "cachingOld") \/ At(t, "AssignRole", "cachingNew")
    BY DEF CacheVisit
  <2>2. UNCHANGED <<link, status, user, registries, database>>
    BY DEF CacheVisit
  <2> QED
    BY <2>1, <2>2, RequestOf DEF At, Holding, UniqueOps
<1>2. PICK rights \in Rights : VisitUnique(t, d, req[t].room, rights)
  BY <1>1, TypedParts DEF CacheVisit, At, Base, HoldersKnow, Knows, TypedCoroutines
<1>3. /\ d = conn[t] \/ CanOwn(d)
      /\ Pass(t, d)
      /\ room' = IF InRoom(d, req[t].room)
                 THEN [room EXCEPT ![d] = [id |-> req[t].room, rights |-> rights]]
                 ELSE room
  BY <1>2 DEF VisitUnique
<1>4. Moves(t) /\ pc'[t] = pc[t] /\ UNCHANGED <<ownerRead, oldRole>>
  BY <1>1, <1>3, TypedParts, PassMoves DEF Pass
<1>5. Knows(t)'
  BY <1>1, <1>4 DEF Base, HoldersKnow, Knows, AuthenticatedStages, At
<1>6. TypedSessions'
  BY <1>1, <1>3, TypedParts DEF TypedSessions, CurrentRoom
<1>7. TypedRegistries' /\ TypedDatabase'
  BY <1>1, TypedParts DEF TypedRegistries, TypedDatabase, registries, database
<1>8. \A c \in Conn : (c # d => SameSession(c)) /\ (room'[c] # None => room[c] # None)
  BY <1>1, <1>3, TypedParts DEF SameSession, TypedSessions, InRoom
<1>9. SessionsShaped'
  BY <1>1, <1>8 DEF Base, SessionsShaped, Authenticated
<1>10. \A u \in Task \ {t} : Holding(u) => conn[u] \in Conn /\ conn[u] # d
  <2> SUFFICES ASSUME NEW u \in Task \ {t}, Holding(u)
               PROVE  conn[u] \in Conn /\ conn[u] # d
    OBVIOUS
  <2>1. conn[u] \in Conn /\ req[u].op \in SharedOps \cup UniqueOps
    BY RequestOf DEF Holding
  <2>2. CASE d = conn[t]
    BY <1>1, <2>1, <2>2, UniqueHolderIsAlone
  <2>3. CASE CanOwn(d)
    BY <2>1, <2>3 DEF CanOwn, UniqueHolders, SharedHolders
  <2> QED
    BY <1>3, <2>2, <2>3
<1>11. OthersStable(t)
  BY <1>8, <1>10 DEF OthersStable
<1> QED
  BY <1>1, <1>4, <1>5, <1>6, <1>7, <1>9, <1>11 DEF StepSound

\* Every step of handleAssignRole is sound.
LEMMA RoleStepSound ==
    ASSUME Base, NEW t \in Task, RoleStep(t)
    PROVE  StepSound(t)
<1>1. CASE StartAssignRole(t)
  BY <1>1, StartSound DEF StartAssignRole, Stage, FallibleStages, AuthenticatedStages
<1>2. CASE CachedOld(t) \/ CachedNew(t)
  <2>1. Holding(t) /\ pc[t] # "idle" /\ UNCHANGED <<sessions, registries, database>>
    BY <1>2 DEF CachedOld, CachedNew, At, Holding
  <2>2. TypedDatabase'
    BY <2>1, TypedParts DEF TypedDatabase, database
  <2>3. Goto(t, "cacheNew") \/ Finish(t)
    BY <1>2 DEF CachedOld, CachedNew
  <2> QED
    BY <2>1, <2>2, <2>3, QuietGotoSound, FinishSound DEF Stage, AuthenticatedStages
<1> QED
  BY <1>1, <1>2, CheckRoleSound, ReadOwnerSound, CommitRoleSound, CommitOwnerSound,
     CacheWalkSound, CacheVisitSound DEF RoleStep

\* Every step of every handler is sound.
LEMMA HandleSound ==
    ASSUME Base, NEW t \in Task, Handle(t)
    PROVE  StepSound(t)
<1>1. CASE Spin(t)
  <2>1. pc[t] # "idle" /\ Goto(t, "spinning") /\ UNCHANGED <<sessions, registries, database>>
    BY <1>1 DEF Spin
  <2>2. Moves(t) /\ pc'[t] = "spinning"
    BY <2>1, TypedParts, GotoMoves DEF Stage
  <2>3. Knows(t)'
    BY <2>2, IdleKnows DEF Waiting
  <2>4. TypedDatabase'
    BY <2>1, TypedParts DEF TypedDatabase, database
  <2> QED
    BY <2>1, <2>2, <2>3, <2>4, QuietSound
<1>2. CASE GiveUp(t)
  <2>1. /\ Holding(t) /\ pc[t] # "idle" /\ Finish(t)
        /\ UNCHANGED <<link, user, room, registries, database>>
    BY <1>2 DEF GiveUp, FallibleStages, Holding
  <2>2. TypedDatabase'
    BY <2>1, TypedParts DEF TypedDatabase, database
  <2>3. CASE req[t].op = "Register"
    BY <1>2, <2>1, <2>2, <2>3, StatusResetSound DEF GiveUp, UniqueOps
  <2>4. CASE req[t].op # "Register"
    BY <1>2, <2>1, <2>2, <2>4, FinishSound DEF GiveUp, sessions
  <2> QED
    BY <2>3, <2>4
<1> QED
  BY <1>1, <1>2, SessionStepSound, RoomStepSound, RoleStepSound DEF Handle

-----------------------------------------------------------------------------
\* Base holds when the server starts.
LEMMA InitBase == Init => Base
<1> SUFFICES ASSUME Init PROVE Base
  OBVIOUS
<1>1. TypeOK
  <2>1. TypedSessions /\ TypedRegistries
    BY DEF Init, TypedSessions, TypedRegistries, Status
  <2>2. TypedDatabase
    BY ChatAssumption DEF Init, TypedDatabase
  <2>3. TypedCoroutines
    BY DEF Init, TypedCoroutines, Stage
  <2> QED
    BY <2>1, <2>2, <2>3, TypeOKSplit
<1>2. \A t \in Task : pc[t] = "idle"
  BY DEF Init
<1>3. TasksPlaced /\ LocksExclude /\ HoldersKnow
  BY <1>2 DEF TasksPlaced, LocksExclude, HoldersKnow, Knows, Holding, AuthenticatedStages, At
<1>4. SessionsShaped
  BY DEF Init, SessionsShaped, Authenticated
<1> QED
  BY <1>1, <1>3, <1>4 DEF Base

\* A connection opens: no coroutine has it yet.
LEMMA NewConnectionKeepsBase ==
    ASSUME Base, NEW c \in Conn, handleNewConnection(c)
    PROVE  Base'
<1>1. /\ link[c] = "new" /\ link' = [link EXCEPT ![c] = "open"]
      /\ UNCHANGED <<status, user, room, userConns, roomConns, accounts, rooms, spent, owner,
                     membership, moderators, pc, conn, req, todo, ownerRead, oldRole>>
  BY DEF handleNewConnection, registries, database, coroutines, locals
<1>2. TypeOK'
  BY <1>1 DEF Base, TypeOK
<1>3. TasksPlaced'
  BY <1>1, TypedParts DEF Base, TasksPlaced, TypedSessions
<1>4. LocksExclude' /\ SessionsShaped'
  BY <1>1 DEF Base, LocksExclude, Holding, SessionsShaped, Authenticated
<1>5. HoldersKnow'
  BY <1>1 DEF Base, HoldersKnow, Knows, Authenticated, InRoom, At
<1> QED
  BY <1>2, <1>3, <1>4, <1>5 DEF Base

\* A request arrives: a coroutine without the lock of its session.
LEMMA SpawnKeepsBase ==
    ASSUME Base, NEW t \in Task, NEW c \in Conn, NEW r \in Request \cup {CloseRequest},
           Spawn(t, c, r), link[c] = "open",
           link' = link \/ link' = [link EXCEPT ![c] = "closed"],
           UNCHANGED <<status, user, room, registries, database>>
    PROVE  Base'
<1>1. /\ TypedCoroutines' /\ pc[t] = "idle" /\ pc'[t] = "arrived" /\ conn'[t] = c /\ req'[t] = r
      /\ \A u \in Task \ {t} : Same(u)
  BY TypedParts DEF Spawn, TypedCoroutines, Same, Stage
<1>2. TypedSessions' /\ TypedRegistries' /\ TypedDatabase'
  BY TypedParts DEF TypedSessions, TypedRegistries, TypedDatabase, registries, database
<1>3. TypeOK'
  BY <1>1, <1>2, TypeOKSplit, PTL
<1>4. TasksPlaced'
  BY <1>1, TypedParts DEF Base, TasksPlaced, Same, TypedSessions
<1>5. LocksExclude'
  BY <1>1 DEF Base, LocksExclude, Holding, Same
<1>6. SessionsShaped'
  BY DEF Base, SessionsShaped, Authenticated
<1>7. \A u \in Task \ {t} : Knows(u)'
  BY <1>1 DEF Base, HoldersKnow, Knows, Authenticated, InRoom, At, Same
<1>8. Knows(t)'
  BY <1>1, IdleKnows DEF Waiting
<1> QED
  BY <1>3, <1>4, <1>5, <1>6, <1>7, <1>8 DEF Base, HoldersKnow

\* Every step keeps Base; what a handler's step does to others is StepSound.
LEMMA NextKeepsBase ==
    ASSUME Base, [Next]_vars
    PROVE  Base'
<1>1. CASE \E c \in Conn : handleNewConnection(c)
  BY <1>1, NewConnectionKeepsBase
<1>2. CASE \E t \in Task, c \in Conn : handleConnectionClosed(t, c)
  BY <1>2, SpawnKeepsBase DEF handleConnectionClosed
<1>3. CASE \E t \in Task, c \in Conn, r \in Request : handleNewMessage(t, c, r)
  BY <1>3, SpawnKeepsBase DEF handleNewMessage, sessions
<1>4. CASE \E t \in Task : Handle(t)
  BY <1>4, HandleSound, StepKeepsBase
<1>5. CASE UNCHANGED vars
  <2>1. UNCHANGED <<link, status, user, room, userConns, roomConns, accounts, rooms, spent, owner,
                    membership, moderators, pc, conn, req, todo, ownerRead, oldRole>>
    BY <1>5 DEF vars, sessions, registries, database, coroutines, locals
  <2>2. TypeOK' /\ TasksPlaced' /\ LocksExclude' /\ SessionsShaped'
    BY <2>1 DEF Base, TypeOK, TasksPlaced, LocksExclude, Holding, SessionsShaped, Authenticated
  <2>3. HoldersKnow'
    BY <2>1 DEF Base, HoldersKnow, Knows, Authenticated, InRoom, At
  <2> QED
    BY <2>2, <2>3 DEF Base
<1> QED
  BY <1>1, <1>2, <1>3, <1>4, <1>5 DEF Next

\* Base is an invariant: under its session's lock, what a handler checked
\* before an await is still true after it.
THEOREM BaseHolds == Spec => []Base
<1>1. Base /\ [Next]_vars => Base'
  BY NextKeepsBase
<1> QED
  BY InitBase, <1>1, PTL DEF Spec

\* Every variable of the chat server keeps its type, for any clients.
THEOREM TypeOKHolds == Spec => []TypeOK
<1>1. Base => TypeOK
  BY DEF Base
<1> QED
  BY BaseHolds, <1>1, PTL

\* What the handlers dereference without a test is there: a session in a room
\* has a user, a logged in one has an id, one in the middle of a log in has a name.
THEOREM SessionsShapedHolds == Spec => []SessionsShaped
<1>1. Base => SessionsShaped
  BY DEF Base
<1> QED
  BY BaseHolds, <1>1, PTL

-----------------------------------------------------------------------------
(* Action properties.                                                      *)

\* A coroutine that holds a lock and takes a step goes to another stage, or
\* it passes a connection of its walk.
LEMMA HoldersMoveOn ==
    ASSUME Base, NEW t \in Task, Handle(t), Holding(t), pc'[t] = pc[t]
    PROVE  /\ pc[t] \in ListingStages => ownerRead'[t] = ownerRead[t]
           /\ todo'[t] # todo[t]
<1>1. \A op, admitted, stage : ~Start(t, op, admitted, stage)
  BY DEF Start, Holding
<1>2. ~Finish(t)
  BY TypedParts DEF Finish, TypedCoroutines, Holding
<1>3. \A stage : Goto(t, stage) => stage = pc[t]
  BY TypedParts DEF Goto, TypedCoroutines
<1>4. \A set, stage : Walk(t, set, stage) => stage = pc[t]
  BY TypedParts DEF Walk, TypedCoroutines
<1>5. ~Spin(t) /\ ~GiveUp(t)
  BY <1>2 DEF Spin, GiveUp, Holding
<1>6. ~SessionStep(t)
  BY <1>1, <1>2, <1>3 DEF SessionStep, StartAuthInitial, FindAccount, StartRegisterInitial, FindNameFree,
     StartAuth, AcceptAuth, AbortAuth, Login, StartRegister, InsertAccount, StartLogout, StartClose,
     UnregisterFromRoom, Logout, Close, At
<1>7. ~CommitOwner(t) /\ ~ReadOwner(t) /\ ~JoinFindRoom(t)
  BY <1>2, TypedParts DEF CommitOwner, ReadOwner, JoinFindRoom, At, TypedCoroutines
<1>8. RoomStep(t) => \E d \in Conn : JoinVisit(t, d)
  BY <1>1, <1>2, <1>3, <1>4, <1>7 DEF RoomStep, StartJoin, JoinLeaveOldRoom, JoinMembership,
     JoinSetRoom, JoinEnter, JoinList, JoinListed, StartLeave, Leave, StartCreateRoom, InsertRoom,
     StartDeleteRoom, DeleteRow, Evict, StartBecomeMember, BecomeMember, StartSendMessage, SendMessage, At
<1>9. RoleStep(t) => \E d \in Conn : CacheVisit(t, d)
  BY <1>1, <1>2, <1>3, <1>4, <1>7 DEF RoleStep, StartAssignRole, CheckRole, CommitRole,
     CacheOld, CacheNew, CachedOld, CachedNew, At
<1>10. PICK d \in Conn : Pass(t, d)
  BY <1>5, <1>6, <1>8, <1>9 DEF Handle, JoinVisit, VisitShared, CacheVisit, VisitUnique
<1> QED
  BY <1>10, TypedParts DEF Pass, TypedCoroutines

\* Of a session whose lock is held, a step of another coroutine changes
\* nothing, and its holder's own steps move it on.
LEMMA SessionsHeld ==
    ASSUME Base, [Next]_vars, NEW t \in Task, Holding(t), UNCHANGED <<pc[t], req[t], todo[t]>>
    PROVE  UNCHANGED <<status[conn[t]], user[conn[t]], room[conn[t]]>>
<1>1. CASE \E u \in Task : Handle(u)
  <2>1. PICK u \in Task : Handle(u)
    BY <1>1
  <2>2. u # t
    BY <2>1, HoldersMoveOn
  <2>3. OthersStable(u) /\ Same(t)
    BY <2>1, <2>2, HandleSound DEF StepSound, Moves
  <2> QED
    BY <2>2, <2>3 DEF OthersStable, SameSession, Same
<1>2. CASE ~\E u \in Task : Handle(u)
  <2>1. UNCHANGED <<status, user, room>>
    BY <1>2 DEF Next, handleNewConnection, handleNewMessage, handleConnectionClosed, vars, sessions
  <2>2. conn'[t] = conn[t]
    BY <1>2, TypedParts DEF Next, handleNewConnection, handleNewMessage, handleConnectionClosed,
       Spawn, vars, coroutines, locals, TypedCoroutines, Holding
  <2> QED
    BY <2>1, <2>2
<1> QED
  BY <1>1, <1>2

\* While a handler keeps a session's lock and waits at an await, nobody else
\* changes that session.
THEOREM HeldSessionsAreStableHolds == Spec => HeldSessionsAreStable
<1>1. Base /\ [Next]_vars =>
        [\A t \in Task :
            Holding(t) /\ UNCHANGED <<pc[t], req[t], todo[t]>> =>
                UNCHANGED <<status[conn[t]], user[conn[t]], room[conn[t]]>>]_vars
  BY SessionsHeld
<1> QED
  BY BaseHolds, <1>1, PTL DEF Spec, HeldSessionsAreStable

\* Whatever changes a registry takes the manager's lock unique.
LEMMA ManagerGuardsRegistries ==
    ASSUME [Next]_vars, ~ManagerFree
    PROVE  UNCHANGED registries
<1>1. \A t \in Task : SessionStep(t) => UNCHANGED registries
  BY DEF SessionStep, StartAuthInitial, FindAccount, StartRegisterInitial, FindNameFree,
     StartAuth, AcceptAuth, AbortAuth, Login, StartRegister, InsertAccount, StartLogout, StartClose,
     UnregisterFromRoom, Logout, Close, Start, registerConnection, removeConnectionFromRoom,
     removeConnectionFromUser
<1>2. \A t \in Task : RoomStep(t) => UNCHANGED registries
  <2> SUFFICES ASSUME NEW t \in Task, RoomStep(t) PROVE UNCHANGED registries
    OBVIOUS
  <2>1. StartJoin(t) \/ JoinLeaveOldRoom(t) \/ JoinFindRoom(t) \/ JoinMembership(t) \/ JoinSetRoom(t)
        => UNCHANGED registries
    BY DEF StartJoin, JoinLeaveOldRoom, JoinFindRoom, JoinMembership, JoinSetRoom, Start,
       removeConnectionFromRoom
  <2>2. \/ JoinEnter(t) \/ JoinList(t) \/ JoinListed(t) \/ StartLeave(t) \/ Leave(t)
        \/ \E d \in Conn : JoinVisit(t, d)
        => UNCHANGED registries
    BY DEF JoinEnter, JoinList, JoinVisit, JoinListed, StartLeave, Leave, Start,
       addConnectionToRoom, removeConnectionFromRoom
  <2>3. \/ StartCreateRoom(t) \/ StartDeleteRoom(t) \/ DeleteRow(t) \/ Evict(t)
        \/ \E r \in Room : InsertRoom(t, r)
        => UNCHANGED registries
    BY DEF StartCreateRoom, InsertRoom, StartDeleteRoom, DeleteRow, Evict, Start, onRoomDeleted
  <2>4. StartBecomeMember(t) \/ BecomeMember(t) \/ StartSendMessage(t) \/ SendMessage(t)
        => UNCHANGED registries
    BY DEF StartBecomeMember, BecomeMember, StartSendMessage, SendMessage, Start
  <2> QED
    BY <2>1, <2>2, <2>3, <2>4 DEF RoomStep
<1>3. \A t \in Task : RoleStep(t) => UNCHANGED registries
  BY DEF RoleStep, StartAssignRole, CheckRole, CommitRole, CacheVisit, ReadOwner, CommitOwner,
     CacheOld, CacheNew, CachedOld, CachedNew, Start
<1>4. \A t \in Task : Spin(t) \/ GiveUp(t) => UNCHANGED registries
  BY DEF Spin, GiveUp
<1>5. \A c \in Conn :
          /\ handleNewConnection(c) => UNCHANGED registries
          /\ \A t \in Task : handleConnectionClosed(t, c) => UNCHANGED registries
          /\ \A t \in Task, r \in Request : handleNewMessage(t, c, r) => UNCHANGED registries
  BY DEF handleNewConnection, handleConnectionClosed, handleNewMessage
<1> QED
  BY <1>1, <1>2, <1>3, <1>4, <1>5 DEF Next, Handle, vars

\* The set being walked over is in a registry, and the walk keeps the manager.
LEMMA WalkedIsKept ==
    ASSUME Base, [Next]_vars, NEW t \in Task, pc[t] \in ListingStages, pc'[t] = pc[t]
    PROVE  Walked(t)' = Walked(t)
<1>1. UNCHANGED <<userConns, roomConns>>
  BY ManagerGuardsRegistries DEF ManagerFree, registries
<1>2. req'[t] = req[t] /\ ownerRead'[t] = ownerRead[t]
  <2>1. CASE \E u \in Task : Handle(u)
    <3>1. PICK u \in Task : Handle(u)
      BY <2>1
    <3>2. Moves(u)
      BY <3>1, HandleSound DEF StepSound
    <3>3. CASE u # t
      BY <3>2, <3>3 DEF Moves, Same
    <3>4. CASE u = t
      BY <3>1, <3>2, <3>4, HoldersMoveOn DEF Moves, Holding, ListingStages
    <3> QED
      BY <3>3, <3>4
  <2>2. CASE ~\E u \in Task : Handle(u)
    BY <2>2, TypedParts DEF Next, handleNewConnection, handleNewMessage, handleConnectionClosed,
       Spawn, vars, coroutines, locals, TypedCoroutines, ListingStages
  <2> QED
    BY <2>1, <2>2
<1> QED
  BY <1>1, <1>2 DEF Walked, ListingStages

\* While getUsersInRoom or updateUserRoomRights iterates over a set of
\* connections across awaits, nobody inserts into it or erases from it.
THEOREM IteratorsStayValidHolds == Spec => IteratorsStayValid
<1>1. Base /\ [Next]_vars =>
        [\A t \in Task : pc[t] \in ListingStages /\ pc'[t] = pc[t] =>
            Walked(t)' = Walked(t)]_vars
  BY WalkedIsKept
<1> QED
  BY BaseHolds, <1>1, PTL DEF Spec, IteratorsStayValid

-----------------------------------------------------------------------------
(* The rooms' registry.                                                    *)

LEMMA ToUnregister ==
    ASSUME Base, NEW t \in Task, Handle(t), pc'[t] = "unregister"
    PROVE  \/ UnregisterFromRoom(t)
           \/ /\ room[conn[t]] = None
              /\ UNCHANGED <<conn[t], roomConns>>
<1>1. ~Finish(t)
  BY TypedParts DEF Finish, TypedCoroutines
<1>2. \A stage : Goto(t, stage) => stage = "unregister"
  BY TypedParts DEF Goto, TypedCoroutines
<1>3. \A op, admitted, stage : Start(t, op, admitted, stage) => stage = "unregister"
  BY <1>1, <1>2 DEF Start
<1>4. \A set, stage : Walk(t, set, stage) => stage = "unregister"
  BY TypedParts DEF Walk, TypedCoroutines
<1>5. ~Spin(t) /\ ~GiveUp(t)
  BY <1>1, <1>2 DEF Spin, GiveUp
<1>6. ~CommitOwner(t) /\ ~ReadOwner(t) /\ ~JoinFindRoom(t)
  BY <1>1, TypedParts DEF CommitOwner, ReadOwner, JoinFindRoom, TypedCoroutines
<1>7. \A d : ~JoinVisit(t, d) /\ ~CacheVisit(t, d)
  BY DEF JoinVisit, VisitShared, CacheVisit, VisitUnique, Pass, At
<1>8. ~RoomStep(t)
  BY <1>1, <1>2, <1>3, <1>4, <1>6, <1>7 DEF RoomStep, StartJoin, JoinLeaveOldRoom, JoinMembership,
     JoinSetRoom, JoinEnter, JoinList, JoinListed, StartLeave, Leave, StartCreateRoom, InsertRoom,
     StartDeleteRoom, DeleteRow, Evict, StartBecomeMember, BecomeMember, StartSendMessage, SendMessage
<1>9. ~RoleStep(t)
  BY <1>1, <1>2, <1>3, <1>4, <1>6, <1>7 DEF RoleStep, StartAssignRole, CheckRole, CommitRole,
     CacheOld, CacheNew, CachedOld, CachedNew
<1>10. SessionStep(t) => UnregisterFromRoom(t) \/ StartLogout(t) \/ StartClose(t)
  BY <1>1, <1>2, <1>3 DEF SessionStep, StartAuthInitial, FindAccount, StartRegisterInitial, FindNameFree,
     StartAuth, AcceptAuth, AbortAuth, Login, StartRegister, InsertAccount, Logout, Close
<1>11. StartLogout(t) \/ StartClose(t) =>
           room[conn[t]] = None /\ UNCHANGED <<conn[t], roomConns>>
  BY <1>1, <1>3 DEF StartLogout, StartClose, Unregister, Start, Goto, locals, registries
<1> QED
  BY <1>5, <1>8, <1>9, <1>10, <1>11 DEF Handle

\* What removing a connection from its room does to the registry: the
\* connection was in that room at most.
LEMMA RemovedFromRoom ==
    ASSUME Base, RoomRegistrySound, NEW c \in Conn, removeConnectionFromRoom(c)
    PROVE  \A r \in Room : roomConns'[r] = roomConns[r] \ {c}
<1>1. room[c] # None => user[c] # None /\ room[c].id \in Room
  BY UsersOfSessions DEF Base, SessionsShaped
<1> QED
  BY <1>1, TypedParts DEF removeConnectionFromRoom, TypedRegistries, RoomRegistrySound, InRoom

\* The steps that change who is in which room, in the sessions or in the registry.
RoomChange(t) ==
    \/ UnregisterFromRoom(t) \/ Logout(t)
    \/ JoinLeaveOldRoom(t) \/ JoinSetRoom(t) \/ JoinEnter(t) \/ Leave(t) \/ Evict(t)
    \/ \E d \in Conn : CacheVisit(t, d)

\* All other steps leave rooms and lists alone.
LEMMA OtherStepsKeepRooms ==
    ASSUME NEW t \in Task, Handle(t), ~RoomChange(t)
    PROVE  UNCHANGED <<room, roomConns>>
<1>1. SessionStep(t) => UNCHANGED <<room, roomConns>>
  BY DEF RoomChange, SessionStep, StartAuthInitial, FindAccount, StartRegisterInitial, FindNameFree,
     StartAuth, AcceptAuth, AbortAuth, Login, StartRegister, InsertAccount, StartLogout, StartClose,
     Close, Start, registerConnection, removeConnectionFromUser, sessions, registries
<1>2. RoomStep(t) => UNCHANGED <<room, roomConns>>
  BY DEF RoomChange, RoomStep, StartJoin, JoinFindRoom, JoinMembership, JoinVisit, VisitShared,
     JoinList, JoinListed, StartLeave, StartCreateRoom, InsertRoom, StartDeleteRoom, DeleteRow,
     StartBecomeMember, BecomeMember, StartSendMessage, SendMessage, Start, sessions, registries
<1>3. RoleStep(t) => UNCHANGED <<room, roomConns>>
  BY DEF RoomChange, RoleStep, StartAssignRole, CheckRole, CommitRole, ReadOwner, CommitOwner,
     CacheOld, CacheNew, CachedOld, CachedNew, Start, sessions, registries
<1>4. Spin(t) \/ GiveUp(t) => UNCHANGED <<room, roomConns>>
  BY DEF Spin, GiveUp, sessions, registries
<1> QED
  BY <1>1, <1>2, <1>3, <1>4 DEF Handle

\* Each of those steps keeps the lists within the sessions' rooms.
LEMMA RoomRegistryStep ==
    ASSUME Base, RoomInv, NEW t \in Task, Handle(t)
    PROVE  RoomRegistrySound'
<1>1. CASE ~RoomChange(t)
  BY <1>1, OtherStepsKeepRooms DEF RoomInv, RoomRegistrySound, InRoom
<1>2. CASE UnregisterFromRoom(t)
  BY <1>2, RequestOf, RemovedFromRoom DEF UnregisterFromRoom, At, sessions, RoomInv, RoomRegistrySound, InRoom
<1>3. CASE JoinLeaveOldRoom(t) \/ Leave(t)
  <2>1. removeConnectionFromRoom(conn[t]) /\ SetRoom(conn[t], None) /\ conn[t] \in Conn
    BY <1>3, RequestOf DEF JoinLeaveOldRoom, Leave, At
  <2> QED
    BY <2>1, RemovedFromRoom, TypedParts DEF SetRoom, TypedSessions, RoomInv, RoomRegistrySound, InRoom
<1>4. CASE Logout(t)
  <2>1. /\ conn[t] \in Conn /\ roomConns' = roomConns /\ room' = [room EXCEPT ![conn[t]] = None]
        /\ \A r \in Room : conn[t] \notin roomConns[r]
    BY <1>4, RequestOf DEF Logout, At, removeConnectionFromUser, RoomInv, LoggedOutUnlisted
  <2> QED
    BY <2>1, TypedParts DEF TypedSessions, RoomInv, RoomRegistrySound, InRoom
<1>5. CASE JoinSetRoom(t)
  <2>1. /\ conn[t] \in Conn /\ roomConns' = roomConns /\ room[conn[t]] = None
        /\ \A d \in Conn \ {conn[t]} : room'[d] = room[d]
    BY <1>5, RequestOf, TypedParts
       DEF JoinSetRoom, SetRoom, At, registries, Base, HoldersKnow, Knows, TypedSessions
  <2> QED
    BY <2>1 DEF RoomInv, RoomRegistrySound, InRoom
<1>6. CASE JoinEnter(t)
  <2>1. /\ conn[t] \in Conn /\ addConnectionToRoom(conn[t], req[t].room)
        /\ room' = room /\ InRoom(conn[t], req[t].room)
    BY <1>6, RequestOf DEF JoinEnter, At, sessions, Base, HoldersKnow, Knows
  <2> QED
    BY <2>1, TypedParts DEF addConnectionToRoom, TypedRegistries, RoomInv, RoomRegistrySound, InRoom
<1>7. CASE Evict(t)
  BY <1>7, TypedParts DEF Evict, onRoomDeleted, sessions, TypedRegistries, RoomInv, RoomRegistrySound, InRoom
<1>8. ASSUME NEW d \in Conn, CacheVisit(t, d)
      PROVE  RoomRegistrySound'
  <2>1. roomConns' = roomConns
    BY <1>8 DEF CacheVisit, registries
  <2>2. \A c \in Conn, r \in Room : InRoom(c, r) => InRoom(c, r)'
    <3>1. PICK rights \in Rights : VisitUnique(t, d, req[t].room, rights)
      BY <1>8, RequestOf, TypedParts DEF CacheVisit, At, Base, HoldersKnow, Knows, TypedCoroutines
    <3>2. InRoom(d, req[t].room) =>
            room' = [room EXCEPT ![d] = [id |-> req[t].room, rights |-> rights]]
      BY <3>1 DEF VisitUnique
    <3>3. ~InRoom(d, req[t].room) => room' = room
      BY <3>1 DEF VisitUnique
    <3>4. [id |-> req[t].room, rights |-> rights] # None
      BY <1>8, RequestOf, ChatAssumption DEF CacheVisit, At, CurrentRoom
    <3> QED
      BY <3>2, <3>3, <3>4, TypedParts DEF InRoom, TypedSessions
  <2> QED
    BY <2>1, <2>2 DEF RoomInv, RoomRegistrySound
<1> QED
  BY <1>1, <1>2, <1>3, <1>4, <1>5, <1>6, <1>7, <1>8 DEF RoomChange

\* What the first half of a log out did is not undone before its second half:
\* only a join adds to a list, and its session is then in a room.
LEMMA LoggedOutStep ==
    ASSUME Base, RoomInv, NEW t \in Task, Handle(t)
    PROVE  LoggedOutUnlisted'
<1> SUFFICES ASSUME NEW u \in Task, At(u, "Logout", "unregister")', NEW r \in Room
             PROVE  conn'[u] \notin roomConns'[r]
  BY DEF LoggedOutUnlisted
<1>1. StepSound(t)
  BY HandleSound
<1>2. CASE u # t
  <2>1. /\ Same(u) /\ At(u, "Logout", "unregister") /\ conn[u] \notin roomConns[r]
        /\ Holding(u) /\ conn[u] \in Conn
    BY <1>1, <1>2, RequestOf DEF StepSound, Moves, Same, At, RoomInv, LoggedOutUnlisted, Holding
  <2>2. req[u].op \in UniqueOps
    BY <2>1 DEF At, UniqueOps
  <2>3. Holding(t) => conn[t] # conn[u]
    BY <1>2, <2>1, <2>2, UniqueHolderIsAlone
  <2>4. roomConns'[r] \subseteq roomConns[r] \cup {conn[t]}
        /\ (~JoinEnter(t) => roomConns'[r] \subseteq roomConns[r])
    <3>1. CASE ~RoomChange(t)
      BY <3>1, OtherStepsKeepRooms
    <3>2. CASE UnregisterFromRoom(t) \/ JoinLeaveOldRoom(t) \/ Leave(t)
      BY <3>2, RequestOf, RemovedFromRoom DEF UnregisterFromRoom, JoinLeaveOldRoom, Leave, At, RoomInv
    <3>3. CASE Logout(t) \/ JoinSetRoom(t) \/ \E d \in Conn : CacheVisit(t, d)
      BY <3>3 DEF Logout, JoinSetRoom, CacheVisit, removeConnectionFromUser, registries
    <3>4. CASE JoinEnter(t)
      BY <3>4, TypedParts DEF JoinEnter, addConnectionToRoom, TypedRegistries
    <3>5. CASE Evict(t)
      BY <3>5, TypedParts DEF Evict, onRoomDeleted, TypedRegistries
    <3> QED
      BY <3>1, <3>2, <3>3, <3>4, <3>5 DEF RoomChange
  <2>5. JoinEnter(t) => Holding(t)
    BY DEF JoinEnter, At, Holding
  <2> QED
    BY <2>1, <2>3, <2>4, <2>5 DEF Same
<1>3. CASE u = t
  <2>1. pc'[t] = "unregister" /\ conn'[t] = conn[t] /\ conn[t] \in Conn
    BY <1>1, <1>3, RequestOf DEF At, StepSound, Moves
  <2>2. CASE UnregisterFromRoom(t)
    BY <1>3, <2>1, <2>2, RemovedFromRoom DEF UnregisterFromRoom, RoomInv
  <2>3. CASE room[conn[t]] = None /\ roomConns' = roomConns
    BY <1>3, <2>1, <2>3 DEF RoomInv, RoomRegistrySound, InRoom
  <2> QED
    BY <2>1, <2>2, <2>3, ToUnregister
<1> QED
  BY <1>2, <1>3

\* A step of no handler leaves sessions and registries alone; a coroutine it
\* starts does not have its lock yet.
LEMMA ArrivalsKeep ==
    ASSUME Base, [Next]_vars, ~\E t \in Task : Handle(t)
    PROVE  /\ UNCHANGED <<status, user, room, registries, database>>
           /\ \A t \in Task : \/ Same(t)
                              \/ pc[t] = "idle" /\ pc'[t] = "arrived"
<1>1. CASE \E c \in Conn : handleNewConnection(c)
  BY <1>1 DEF handleNewConnection, coroutines, locals, Same
<1>2. CASE \E t \in Task, c \in Conn : handleConnectionClosed(t, c)
  BY <1>2, TypedParts DEF handleConnectionClosed, Spawn, TypedCoroutines, Same
<1>3. CASE \E t \in Task, c \in Conn, r \in Request : handleNewMessage(t, c, r)
  BY <1>3, TypedParts DEF handleNewMessage, Spawn, TypedCoroutines, Same, sessions
<1>4. CASE UNCHANGED vars
  BY <1>4 DEF vars, sessions, coroutines, locals, Same
<1> QED
  BY <1>1, <1>2, <1>3, <1>4 DEF Next

\* RoomInv is inductive relative to Base.
LEMMA RoomInvStep ==
    ASSUME Base, RoomInv, [Next]_vars
    PROVE  RoomInv'
<1>1. CASE \E t \in Task : Handle(t)
  BY <1>1, RoomRegistryStep, LoggedOutStep DEF RoomInv
<1>2. CASE ~\E t \in Task : Handle(t)
  <2>1. UNCHANGED <<room, roomConns>>
    BY <1>2, ArrivalsKeep DEF registries
  <2>2. \A t \in Task : At(t, "Logout", "unregister")' => Same(t)
    BY <1>2, ArrivalsKeep DEF At
  <2>3. RoomRegistrySound'
    BY <2>1 DEF RoomInv, RoomRegistrySound, InRoom
  <2>4. LoggedOutUnlisted'
    BY <2>1, <2>2 DEF RoomInv, LoggedOutUnlisted, At, Same
  <2> QED
    BY <2>3, <2>4 DEF RoomInv
<1> QED
  BY <1>1, <1>2

\* RoomInv is an invariant.
THEOREM RoomInvHolds == Spec => []RoomInv
<1>1. Init => RoomInv
  BY DEF Init, RoomInv, RoomRegistrySound, LoggedOutUnlisted, At
<1>2. Base /\ RoomInv /\ [Next]_vars => RoomInv'
  BY RoomInvStep
<1> QED
  BY BaseHolds, <1>1, <1>2, PTL DEF Spec

\* Whoever is listed in a room is in that room, hence in one room only: the
\* manager never sends a connection another room's messages.
THEOREM RoomRegistrySoundHolds == Spec => []RoomRegistrySound
<1>1. RoomInv => RoomRegistrySound
  BY DEF RoomInv
<1> QED
  BY RoomInvHolds, <1>1, PTL

-----------------------------------------------------------------------------
(* Members are listed.                                                     *)

\* An open connection that is in an existing room is listed there.
MembersInv == MembersAreListed /\ ClosersClosed /\ NewUntouched /\ RoomsWereGivenOut

\* Between two halves, the next step is the second half.
LEMMA SecondHalf ==
    ASSUME NEW t \in Task, Handle(t)
    PROVE  /\ pc[t] = "enter" => JoinEnter(t)
           /\ pc[t] = "login" => Login(t)
           /\ pc[t] = "unregister" => Logout(t) \/ Close(t)
<1> SUFFICES ASSUME pc[t] \in {"enter", "login", "unregister"}
             PROVE  JoinEnter(t) \/ Login(t) \/ Logout(t) \/ Close(t)
  BY DEF JoinEnter, Login, Logout, Close, At
<1>1. \A op, admitted, stage : ~Start(t, op, admitted, stage)
  BY DEF Start
<1>2. ~Spin(t) /\ ~GiveUp(t)
  BY DEF Spin, GiveUp, FallibleStages
<1>3. SessionStep(t) => Login(t) \/ Logout(t) \/ Close(t)
  BY <1>1 DEF SessionStep, StartAuthInitial, FindAccount, StartRegisterInitial, FindNameFree,
     StartAuth, AcceptAuth, AbortAuth, StartRegister, InsertAccount, StartLogout, StartClose,
     UnregisterFromRoom, At
<1>4. RoomStep(t) => JoinEnter(t)
  BY <1>1 DEF RoomStep, StartJoin, JoinLeaveOldRoom, JoinFindRoom, JoinMembership, JoinVisit,
     JoinSetRoom, JoinList, JoinListed, StartLeave, Leave, StartCreateRoom, InsertRoom,
     StartDeleteRoom, DeleteRow, Evict, StartBecomeMember, BecomeMember, StartSendMessage, SendMessage, At
<1>5. ~RoleStep(t)
  BY <1>1 DEF RoleStep, StartAssignRole, CheckRole, CommitRole, ReadOwner, CommitOwner,
     CacheOld, CacheNew, CacheVisit, CachedOld, CachedNew, At
<1> QED
  BY <1>2, <1>3, <1>4, <1>5 DEF Handle

\* Only a creation and a deletion change the table of rooms.
LEMMA OtherStepsKeepTable ==
    ASSUME NEW t \in Task, Handle(t), ~\E r \in Room : InsertRoom(t, r), ~DeleteRow(t)
    PROVE  UNCHANGED <<rooms, spent>>
<1>1. SessionStep(t) => UNCHANGED <<rooms, spent>>
  BY DEF SessionStep, StartAuthInitial, FindAccount, StartRegisterInitial, FindNameFree,
     StartAuth, AcceptAuth, AbortAuth, Login, StartRegister, InsertAccount, StartLogout, StartClose,
     UnregisterFromRoom, Logout, Close, Start, database
<1>2. RoomStep(t) => UNCHANGED <<rooms, spent>>
  BY DEF RoomStep, StartJoin, JoinLeaveOldRoom, JoinFindRoom, JoinMembership, JoinVisit,
     JoinSetRoom, JoinEnter, JoinList, JoinListed, StartLeave, Leave, StartCreateRoom,
     StartDeleteRoom, Evict, StartBecomeMember, BecomeMember, StartSendMessage, SendMessage, Start, database
<1>3. RoleStep(t) => UNCHANGED <<rooms, spent>>
  BY DEF RoleStep, StartAssignRole, CheckRole, CommitRole, ReadOwner, CommitOwner,
     CacheOld, CacheNew, CacheVisit, CachedOld, CachedNew, Start, database
<1>4. Spin(t) \/ GiveUp(t) => UNCHANGED <<rooms, spent>>
  BY DEF Spin, GiveUp, database
<1> QED
  BY <1>1, <1>2, <1>3, <1>4 DEF Handle

\* A handler never brings back a room id the sequence has given out.
LEMMA IdsAreSpent ==
    ASSUME Base, NEW t \in Task, Handle(t)
    PROVE  spent \subseteq spent' /\ spent \ rooms \subseteq spent' \ rooms'
<1>1. CASE \E r \in Room : InsertRoom(t, r)
  BY <1>1, TypedParts DEF InsertRoom, TypedDatabase
<1>2. CASE DeleteRow(t)
  BY <1>2 DEF DeleteRow
<1> QED
  BY <1>1, <1>2, OtherStepsKeepTable

\* Where a session's room comes from.
LEMMA RoomOfSession ==
    ASSUME Base, NEW t \in Task, Handle(t), NEW c \in Conn, room'[c] # None
    PROVE  \/ room[c] # None /\ room'[c].id = room[c].id
           \/ /\ JoinSetRoom(t) /\ c = conn[t] /\ room'[c].id = req[t].room
              /\ pc'[t] = "enter" /\ conn'[t] = c
<1>1. CASE ~RoomChange(t) \/ UnregisterFromRoom(t) \/ JoinEnter(t) \/ Evict(t)
  <2>1. room' = room
    BY <1>1, OtherStepsKeepRooms DEF UnregisterFromRoom, JoinEnter, Evict, sessions
  <2> QED
    BY <2>1
<1>2. CASE JoinLeaveOldRoom(t) \/ Leave(t) \/ Logout(t)
  <2>1. room' = [room EXCEPT ![conn[t]] = None]
    BY <1>2 DEF JoinLeaveOldRoom, Leave, Logout, SetRoom
  <2> QED
    BY <2>1, TypedParts DEF TypedSessions
<1>3. CASE JoinSetRoom(t)
  <2>1. pc'[t] = "enter" /\ conn'[t] = conn[t]
    BY <1>3, TypedParts DEF JoinSetRoom, Goto, locals, TypedCoroutines
  <2> QED
    BY <1>3, <2>1, TypedParts DEF JoinSetRoom, SetRoom, TypedSessions
<1>4. CASE \E d \in Conn : CacheVisit(t, d)
  <2>1. PICK d \in Conn : CacheVisit(t, d)
    BY <1>4
  <2>2. PICK rights : VisitUnique(t, d, req[t].room, rights)
    BY <2>1 DEF CacheVisit
  <2> QED
    BY <2>2, TypedParts DEF VisitUnique, InRoom, TypedSessions
<1> QED
  BY <1>1, <1>2, <1>3, <1>4 DEF RoomChange

\* Who is taken off a room's list.
LEMMA StaysListed ==
    ASSUME Base, RoomInv, RoomsWereGivenOut, NEW t \in Task, Handle(t),
           NEW c \in Conn, NEW r \in Room, c \in roomConns[r]
    PROVE  \/ c \in roomConns'[r]
           \/ r \notin rooms'
           \/ c = conn[t] /\ (JoinLeaveOldRoom(t) \/ Leave(t))
           \/ c = conn[t] /\ UnregisterFromRoom(t) /\ pc'[t] = "unregister" /\ conn'[t] = c
<1>1. CASE ~RoomChange(t)
  BY <1>1, OtherStepsKeepRooms
<1>2. CASE UnregisterFromRoom(t) \/ JoinLeaveOldRoom(t) \/ Leave(t)
  <2>1. conn[t] \in Conn /\ removeConnectionFromRoom(conn[t])
    BY <1>2, RequestOf DEF UnregisterFromRoom, JoinLeaveOldRoom, Leave, At
  <2>2. UnregisterFromRoom(t) => pc'[t] = "unregister" /\ conn'[t] = conn[t]
    BY TypedParts DEF UnregisterFromRoom, Goto, locals, TypedCoroutines
  <2> QED
    BY <1>2, <2>1, <2>2, RemovedFromRoom DEF RoomInv
<1>3. CASE Logout(t) \/ JoinSetRoom(t) \/ \E d \in Conn : CacheVisit(t, d)
  BY <1>3 DEF Logout, JoinSetRoom, CacheVisit, removeConnectionFromUser, registries
<1>4. CASE JoinEnter(t)
  BY <1>4, TypedParts DEF JoinEnter, addConnectionToRoom, TypedRegistries
<1>5. CASE Evict(t)
  BY <1>5, TypedParts DEF Evict, onRoomDeleted, TypedRegistries, RoomsWereGivenOut, At, database
<1> QED
  BY <1>1, <1>2, <1>3, <1>4, <1>5 DEF RoomChange

\* A step of a handler keeps the members listed.
LEMMA MembersStep ==
    ASSUME Base, RoomInv, MembersInv, NEW t \in Task, Handle(t)
    PROVE  MembersAreListed'
<1> SUFFICES ASSUME NEW c \in Conn, link'[c] = "open", room'[c] # None
             PROVE  \/ c \in roomConns'[room'[c].id]
                    \/ room'[c].id \notin rooms'
                    \/ InTransit(c, {"enter", "unregister"})'
  BY DEF MembersAreListed
<1>1. StepSound(t) /\ link'[c] = link[c] /\ Base'
  BY HandleSound, StepKeepsBase DEF StepSound
<1>2. CASE \E u \in Task : conn'[u] = c /\ pc'[u] \in {"enter", "unregister"}
  BY <1>2 DEF InTransit
<1>3. CASE ~\E u \in Task : conn'[u] = c /\ pc'[u] \in {"enter", "unregister"}
  <2>1. room[c] # None /\ room'[c].id = room[c].id /\ room[c].id \in Room
    BY <1>3, RoomOfSession, UsersOfSessions
  <2>2. CASE c \in roomConns[room[c].id]
    <3>1. (JoinLeaveOldRoom(t) \/ Leave(t)) => c # conn[t]
      BY TypedParts DEF JoinLeaveOldRoom, Leave, SetRoom, TypedSessions
    <3> QED
      BY <1>3, <2>1, <2>2, <3>1, StaysListed DEF MembersInv
  <2>3. CASE room[c].id \notin rooms
    BY <2>1, <2>3, IdsAreSpent DEF MembersInv, RoomsWereGivenOut
  <2>4. CASE InTransit(c, {"enter", "unregister"})
    <3>1. PICK u \in Task : conn[u] = c /\ pc[u] \in {"enter", "unregister"}
      BY <2>4 DEF InTransit
    <3>2. u = t
      BY <1>1, <1>3, <3>1 DEF StepSound, Moves, Same
    <3>3. JoinEnter(t) \/ Logout(t) \/ Close(t)
      BY <3>1, <3>2, SecondHalf
    <3>4. CASE JoinEnter(t)
      <4>1. /\ room' = room /\ req[t].room \in Room /\ room[c].id = req[t].room
            /\ addConnectionToRoom(c, req[t].room)
        BY <3>1, <3>2, <3>4, RequestOf
           DEF JoinEnter, At, sessions, Base, HoldersKnow, Knows, InRoom
      <4> QED
        BY <4>1, TypedParts DEF addConnectionToRoom, TypedRegistries
    <3>5. CASE Logout(t)
      BY <3>1, <3>2, <3>5, TypedParts DEF Logout, TypedSessions
    <3>6. CASE Close(t)
      BY <1>1, <3>1, <3>2, <3>6 DEF Close, At, MembersInv, ClosersClosed
    <3> QED
      BY <3>3, <3>4, <3>5, <3>6
  <2> QED
    BY <1>1, <2>1, <2>2, <2>3, <2>4 DEF MembersInv, MembersAreListed
<1> QED
  BY <1>2, <1>3

\* How a coroutine gets to the stages that know of a room's row.
LEMMA ToKnownRoom ==
    ASSUME Base, NEW t \in Task, Handle(t)
    PROVE  /\ pc'[t] = "membership" => JoinFindRoom(t) /\ req[t].room \in rooms
           /\ pc'[t] = "rights" => JoinMembership(t)
           /\ pc'[t] = "evict" => DeleteRow(t) /\ req[t].room \in rooms
<1> SUFFICES ASSUME pc'[t] \in {"membership", "rights", "evict"}
             PROVE  \/ JoinFindRoom(t) /\ req[t].room \in rooms /\ pc'[t] = "membership"
                    \/ JoinMembership(t) /\ pc'[t] = "rights"
                    \/ DeleteRow(t) /\ req[t].room \in rooms /\ pc'[t] = "evict"
  OBVIOUS
<1>1. ~Finish(t)
  BY TypedParts DEF Finish, TypedCoroutines
<1>2. \A stage : Goto(t, stage) => stage = pc'[t]
  BY TypedParts DEF Goto, TypedCoroutines
<1>3. \A op, admitted, stage : Start(t, op, admitted, stage) => stage = pc'[t]
  BY <1>1, <1>2 DEF Start
<1>4. \A set, stage : Walk(t, set, stage) => stage = pc'[t]
  BY TypedParts DEF Walk, TypedCoroutines
<1>5. ~Spin(t) /\ ~GiveUp(t)
  BY <1>1, <1>2 DEF Spin, GiveUp
<1>6. ~CommitOwner(t) /\ ~ReadOwner(t)
  BY <1>1, TypedParts DEF CommitOwner, ReadOwner, TypedCoroutines
<1>7. \A d : ~JoinVisit(t, d) /\ ~CacheVisit(t, d)
  BY DEF JoinVisit, VisitShared, CacheVisit, VisitUnique, Pass, At
<1>8. ~SessionStep(t)
  BY <1>1, <1>2, <1>3 DEF SessionStep, StartAuthInitial, FindAccount, StartRegisterInitial, FindNameFree,
     StartAuth, AcceptAuth, AbortAuth, Login, StartRegister, InsertAccount, StartLogout, StartClose,
     UnregisterFromRoom, Logout, Close, Unregister
<1>9. ~RoleStep(t)
  BY <1>1, <1>2, <1>3, <1>4, <1>6, <1>7 DEF RoleStep, StartAssignRole, CheckRole, CommitRole,
     CacheOld, CacheNew, CachedOld, CachedNew
<1>10. RoomStep(t) => JoinFindRoom(t) \/ JoinMembership(t) \/ DeleteRow(t)
  BY <1>1, <1>2, <1>3, <1>4, <1>6, <1>7 DEF RoomStep, StartJoin, JoinLeaveOldRoom,
     JoinSetRoom, JoinEnter, JoinList, JoinListed, StartLeave, Leave, StartCreateRoom, InsertRoom,
     StartDeleteRoom, Evict, StartBecomeMember, BecomeMember, StartSendMessage, SendMessage
<1>11. JoinFindRoom(t) => req[t].room \in rooms /\ pc'[t] = "membership"
  BY <1>1, TypedParts DEF JoinFindRoom, TypedCoroutines
<1>12. JoinMembership(t) => pc'[t] = "rights"
  BY <1>1, <1>2 DEF JoinMembership
<1>13. DeleteRow(t) => req[t].room \in rooms /\ pc'[t] = "evict"
  BY <1>1, <1>2 DEF DeleteRow
<1> QED
  BY <1>5, <1>8, <1>9, <1>10, <1>11, <1>12, <1>13 DEF Handle

\* A step of a handler refers to no room whose id was not given out.
LEMMA GivenOutStep ==
    ASSUME Base, RoomsWereGivenOut, NEW t \in Task, Handle(t)
    PROVE  RoomsWereGivenOut'
<1>1. /\ \A u \in Task \ {t} : Same(u)
      /\ pc'[t] # "idle" => req'[t] = req[t]
  BY HandleSound DEF StepSound, Moves
<1>2. spent \subseteq spent' /\ spent \ rooms \subseteq spent' \ rooms' /\ rooms \subseteq spent
  BY IdsAreSpent, TypedParts DEF TypedDatabase
<1>3. ASSUME NEW c \in Conn, room'[c] # None
      PROVE  room'[c].id \in spent'
  <2>1. CASE room[c] # None /\ room'[c].id = room[c].id
    BY <1>2, <2>1 DEF RoomsWereGivenOut
  <2>2. CASE JoinSetRoom(t) /\ room'[c].id = req[t].room
    BY <1>2, <2>2 DEF RoomsWereGivenOut, JoinSetRoom, At
  <2> QED
    BY <1>3, <2>1, <2>2, RoomOfSession
<1>4. pc'[t] \in {"membership", "rights"} => req'[t].room \in spent'
  BY <1>1, <1>2, ToKnownRoom DEF RoomsWereGivenOut, JoinMembership, At
<1>5. pc'[t] = "evict" => req'[t].room \in spent' \ rooms'
  BY <1>1, <1>2, ToKnownRoom DEF DeleteRow
<1>6. \A u \in Task \ {t} :
          /\ pc'[u] \in {"membership", "rights"} => req'[u].room \in spent'
          /\ pc'[u] = "evict" => req'[u].room \in spent' \ rooms'
  BY <1>1, <1>2 DEF RoomsWereGivenOut, Same
<1> QED
  BY <1>3, <1>4, <1>5, <1>6 DEF RoomsWereGivenOut

\* A handler changes the status and the user of its own session only, and
\* these are the steps that do.
WhoChange(t) ==
    \/ FindAccount(t) \/ FindNameFree(t) \/ AcceptAuth(t) \/ AbortAuth(t) \/ InsertAccount(t)
    \/ Logout(t) \/ (GiveUp(t) /\ req[t].op = "Register")

\* All other steps leave status and user alone.
LEMMA OtherStepsKeepUsers ==
    ASSUME NEW t \in Task, Handle(t), ~WhoChange(t)
    PROVE  UNCHANGED <<status, user>>
<1>1. SessionStep(t) => UNCHANGED <<status, user>>
  BY DEF WhoChange, SessionStep, StartAuthInitial, StartRegisterInitial, StartAuth, Login,
     StartRegister, StartLogout, StartClose, UnregisterFromRoom, Close, Start, sessions
<1>2. RoomStep(t) => UNCHANGED <<status, user>>
  BY DEF RoomStep, StartJoin, JoinLeaveOldRoom, JoinFindRoom, JoinMembership, JoinVisit,
     JoinSetRoom, JoinEnter, JoinList, JoinListed, StartLeave, Leave, StartCreateRoom, InsertRoom,
     StartDeleteRoom, DeleteRow, Evict, StartBecomeMember, BecomeMember, StartSendMessage, SendMessage,
     Start, sessions
<1>3. RoleStep(t) => UNCHANGED <<status, user>>
  BY DEF RoleStep, StartAssignRole, CheckRole, CommitRole, ReadOwner, CommitOwner,
     CacheOld, CacheNew, CacheVisit, CachedOld, CachedNew, Start, sessions
<1>4. Spin(t) \/ GiveUp(t) => UNCHANGED <<status, user>>
  BY DEF WhoChange, Spin, GiveUp, sessions
<1> QED
  BY <1>1, <1>2, <1>3, <1>4 DEF Handle

\* And those steps change the handler's own session only.
LEMMA OnlyOwnUser ==
    ASSUME Base, NEW t \in Task, Handle(t), NEW c \in Conn, c # conn[t]
    PROVE  status'[c] = status[c] /\ user'[c] = user[c]
<1>1. CASE ~WhoChange(t)
  BY <1>1, OtherStepsKeepUsers
<1>2. CASE FindAccount(t) \/ FindNameFree(t)
  BY <1>2, TypedParts DEF FindAccount, FindNameFree, SetStatus, SetUser, TypedSessions
<1>3. CASE AcceptAuth(t) \/ AbortAuth(t) \/ InsertAccount(t) \/ Logout(t) \/ GiveUp(t)
  BY <1>3, TypedParts DEF AcceptAuth, AbortAuth, InsertAccount, Logout, GiveUp,
     SetStatus, SetUser, TypedSessions
<1> QED
  BY <1>1, <1>2, <1>3 DEF WhoChange

\* A handler has nothing to do with a connection that is not open yet.
LEMMA UntouchedStep ==
    ASSUME Base, NewUntouched, NEW t \in Task, Handle(t)
    PROVE  NewUntouched'
<1>1. link' = link /\ pc[t] # "idle"
  BY HandleSound DEF StepSound, Moves
<1> SUFFICES ASSUME NEW c \in Conn, link[c] = "new"
             PROVE  room'[c] = None /\ status'[c] = "Unauthenticated"
  BY <1>1 DEF NewUntouched
<1>2. c # conn[t] /\ room[c] = None /\ status[c] = "Unauthenticated"
  BY <1>1 DEF Base, TasksPlaced, NewUntouched
<1> QED
  BY <1>2, OnlyOwnUser, RoomOfSession

\* MembersInv is inductive relative to Base and RoomInv.
LEMMA MembersInvStep ==
    ASSUME Base, RoomInv, MembersInv, [Next]_vars
    PROVE  MembersInv'
<1>1. CASE \E t \in Task : Handle(t)
  <2>1. PICK t \in Task : Handle(t)
    BY <1>1
  <2>2. StepSound(t)
    BY <2>1, HandleSound
  <2>3. ClosersClosed'
    BY <2>2 DEF StepSound, Moves, Same, MembersInv, ClosersClosed
  <2> QED
    BY <2>1, <2>3, MembersStep, GivenOutStep, UntouchedStep DEF MembersInv
<1>2. CASE ~\E t \in Task : Handle(t)
  <2>1. /\ UNCHANGED <<status, user, room, userConns, roomConns, rooms, spent>>
        /\ \A t \in Task : Same(t) \/ (pc[t] = "idle" /\ pc'[t] = "arrived")
    <3>1. /\ UNCHANGED <<status, user, room, registries, database>>
          /\ \A t \in Task : Same(t) \/ (pc[t] = "idle" /\ pc'[t] = "arrived")
      BY <1>2, ArrivalsKeep
    <3>2. UNCHANGED <<userConns, roomConns, rooms, spent>>
      BY <3>1 DEF registries, database
    <3> QED
      BY <3>1, <3>2
  <2>2. \A c \in Conn : \/ link'[c] = link[c]
                        \/ link[c] = "new" /\ link'[c] = "open"
                        \/ link'[c] = "closed"
    BY <1>2, TypedParts DEF Next, handleNewConnection, handleConnectionClosed, handleNewMessage,
       vars, sessions, TypedSessions
  <2>3. MembersAreListed'
    <3> SUFFICES ASSUME NEW c \in Conn, link'[c] = "open", room[c] # None
                 PROVE  \/ c \in roomConns[room[c].id]
                        \/ room[c].id \notin rooms
                        \/ InTransit(c, {"enter", "unregister"})'
      BY <2>1 DEF MembersAreListed
    <3>1. link[c] = "open"
      BY <2>2 DEF MembersInv, NewUntouched
    <3>2. InTransit(c, {"enter", "unregister"}) => InTransit(c, {"enter", "unregister"})'
      BY <2>1 DEF InTransit, Same
    <3> QED
      BY <3>1, <3>2 DEF MembersInv, MembersAreListed
  <2>4. NewUntouched'
    <3>1. \A c \in Conn : link'[c] = "new" => link[c] = "new"
      BY <2>2
    <3> QED
      BY <2>1, <3>1 DEF MembersInv, NewUntouched
  <2>5. RoomsWereGivenOut'
    BY <2>1 DEF MembersInv, RoomsWereGivenOut, Same
  <2>6. ClosersClosed'
    <3>1. CASE \E c \in Conn : handleNewConnection(c)
      BY <3>1, TypedParts DEF handleNewConnection, coroutines, locals, TypedSessions,
         MembersInv, ClosersClosed, Base, TasksPlaced
    <3>2. CASE \E t \in Task, c \in Conn : handleConnectionClosed(t, c)
      BY <3>2, TypedParts DEF handleConnectionClosed, Spawn, TypedSessions, TypedCoroutines,
         MembersInv, ClosersClosed, Base, TasksPlaced
    <3>3. CASE \E t \in Task, c \in Conn, r \in Request : handleNewMessage(t, c, r)
      BY <3>3, TypedParts, ChatAssumption DEF handleNewMessage, Spawn, TypedCoroutines, sessions,
         MembersInv, ClosersClosed
    <3>4. CASE UNCHANGED vars
      BY <3>4 DEF vars, sessions, coroutines, locals, MembersInv, ClosersClosed
    <3> QED
      BY <1>2, <3>1, <3>2, <3>3, <3>4 DEF Next
  <2> QED
    BY <2>3, <2>4, <2>5, <2>6 DEF MembersInv
<1> QED
  BY <1>1, <1>2

\* MembersInv is an invariant.
THEOREM MembersInvHolds == Spec => []MembersInv
<1>1. Init => MembersInv
  <2> SUFFICES ASSUME Init PROVE MembersInv
    OBVIOUS
  <2>1. \A t \in Task : pc[t] = "idle"
    BY DEF Init
  <2>2. \A c \in Conn : room[c] = None /\ status[c] = "Unauthenticated"
    BY DEF Init
  <2> QED
    BY <2>1, <2>2 DEF MembersInv, MembersAreListed, ClosersClosed, NewUntouched, RoomsWereGivenOut
<1>2. Base /\ RoomInv /\ MembersInv /\ [Next]_vars => MembersInv'
  BY MembersInvStep
<1> QED
  BY BaseHolds, RoomInvHolds, <1>1, <1>2, PTL DEF Spec

\* An open connection that is in an existing room gets the room's messages,
\* but for the moment between the two halves of a join or a log out.
THEOREM MembersAreListedHolds == Spec => []MembersAreListed
<1>1. MembersInv => MembersAreListed
  BY DEF MembersInv
<1> QED
  BY MembersInvHolds, <1>1, PTL

-----------------------------------------------------------------------------
(* Users are registered.                                                   *)

\* Only a log in's, a log out's and a close's last step change the users'
\* registry.
LEMMA OtherStepsKeepRegistry ==
    ASSUME NEW t \in Task, Handle(t), ~Login(t), ~Logout(t), ~Close(t)
    PROVE  userConns' = userConns
<1>1. SessionStep(t) => userConns' = userConns
  BY DEF SessionStep, StartAuthInitial, FindAccount, StartRegisterInitial, FindNameFree,
     StartAuth, AcceptAuth, AbortAuth, StartRegister, InsertAccount, StartLogout, StartClose,
     UnregisterFromRoom, Start, removeConnectionFromRoom, registries
<1>2. RoomStep(t) => userConns' = userConns
  BY DEF RoomStep, StartJoin, JoinLeaveOldRoom, JoinFindRoom, JoinMembership, JoinVisit,
     JoinSetRoom, JoinEnter, JoinList, JoinListed, StartLeave, Leave, StartCreateRoom, InsertRoom,
     StartDeleteRoom, DeleteRow, Evict, StartBecomeMember, BecomeMember, StartSendMessage, SendMessage,
     Start, addConnectionToRoom, removeConnectionFromRoom, onRoomDeleted, registries
<1>3. RoleStep(t) => userConns' = userConns
  BY DEF RoleStep, StartAssignRole, CheckRole, CommitRole, ReadOwner, CommitOwner,
     CacheOld, CacheNew, CacheVisit, CachedOld, CachedNew, Start, registries
<1>4. Spin(t) \/ GiveUp(t) => userConns' = userConns
  BY DEF Spin, GiveUp, registries
<1> QED
  BY <1>1, <1>2, <1>3, <1>4 DEF Handle

\* Where an authenticated session comes from.
LEMMA UserOfSession ==
    ASSUME Base, NEW t \in Task, Handle(t), NEW c \in Conn, status'[c] = "Authenticated"
    PROVE  \/ status[c] = "Authenticated" /\ user'[c] = user[c]
           \/ AcceptAuth(t) /\ c = conn[t] /\ pc'[t] = "login" /\ conn'[t] = c
<1>1. CASE ~WhoChange(t) \/ c # conn[t]
  <2>1. CASE ~WhoChange(t)
    BY <2>1, OtherStepsKeepUsers
  <2>2. CASE c # conn[t]
    BY <2>2, OnlyOwnUser
  <2> QED
    BY <1>1, <2>1, <2>2
<1>2. CASE FindAccount(t) \/ FindNameFree(t)
  BY <1>2, TypedParts DEF FindAccount, FindNameFree, SetStatus, SetUser, TypedSessions
<1>3. CASE AcceptAuth(t) /\ c = conn[t]
  BY <1>3, TypedParts DEF AcceptAuth, Goto, locals, TypedCoroutines
<1>4. CASE /\ c = conn[t]
           /\ \/ AbortAuth(t) \/ InsertAccount(t) \/ Logout(t)
              \/ (GiveUp(t) /\ req[t].op = "Register")
  BY <1>4, TypedParts DEF AbortAuth, InsertAccount, Logout, GiveUp, SetStatus, TypedSessions
<1>5. CASE WhoChange(t) /\ c = conn[t]
  BY <1>2, <1>3, <1>4, <1>5 DEF WhoChange
<1> QED
  BY <1>1, <1>5

\* What Login, Logout and Close do to the users' registry.
LEMMA RegistrySteps ==
    ASSUME Base, NEW t \in Task, Handle(t)
    PROVE  /\ conn[t] \in Conn
           /\ \A c \in Conn, u \in User :
                 c \in userConns[u] => \/ c \in userConns'[u]
                                       \/ c = conn[t] /\ (Logout(t) \/ Close(t))
           /\ \A c \in Conn, u \in User :
                 c \in userConns'[u] => \/ c \in userConns[u]
                                        \/ Login(t) /\ c = conn[t] /\ u = user[c].id
           /\ Login(t) => conn[t] \in userConns'[user[conn[t]].id]
           /\ Logout(t) => \A u \in User : user[conn[t]] # None /\ user[conn[t]].id = u =>
                               conn[t] \notin userConns'[u]
<1>1. conn[t] \in Conn
  BY HandleSound, RequestOf DEF StepSound, Moves
<1>2. CASE Login(t)
  <2>1. user[conn[t]].id \in User /\ registerConnection(user[conn[t]].id, conn[t])
    BY <1>1, <1>2, UsersOfSessions DEF Login, At, Me, Base, HoldersKnow, Knows, AuthenticatedStages
  <2>2. ~Logout(t)
    BY <1>2 DEF Login, Logout, At
  <2> QED
    BY <1>1, <1>2, <2>1, <2>2, TypedParts DEF registerConnection, TypedRegistries
<1>3. CASE Logout(t) \/ Close(t)
  <2>1. removeConnectionFromUser(conn[t]) /\ ~Login(t)
    BY <1>3 DEF Login, Logout, Close, At
  <2>2. user[conn[t]] # None => user[conn[t]].id \in User \cup {None}
    BY <1>1, UsersOfSessions
  <2>3. None \notin User
    BY ChatAssumption
  <2> QED
    BY <1>1, <1>3, <2>1, <2>2, <2>3, TypedParts DEF removeConnectionFromUser, TypedRegistries
<1>4. CASE ~Login(t) /\ ~Logout(t) /\ ~Close(t)
  BY <1>1, <1>4, OtherStepsKeepRegistry
<1> QED
  BY <1>2, <1>3, <1>4

\* A step of a handler keeps the users registered: an open connection leaves
\* the registry only in the step that logs its session out.
LEMMA UsersStep ==
    ASSUME Base, MembersInv, UsersAreRegistered, NEW t \in Task, Handle(t)
    PROVE  UsersAreRegistered'
<1> SUFFICES ASSUME NEW c \in Conn, link'[c] = "open", status'[c] = "Authenticated"
             PROVE  c \in userConns'[user'[c].id] \/ InTransit(c, {"login"})'
  BY DEF UsersAreRegistered, Authenticated
<1>1. Moves(t) /\ link[c] = "open"
  BY HandleSound DEF StepSound
<1>2. CASE AcceptAuth(t) /\ c = conn[t] /\ pc'[t] = "login" /\ conn'[t] = c
  BY <1>2 DEF InTransit
<1>3. CASE status[c] = "Authenticated" /\ user'[c] = user[c]
  <2>1. user[c].id \in User
    BY <1>3, UsersOfSessions DEF Authenticated
  <2>2. CASE c \in userConns[user[c].id]
    <3>1. Logout(t) => c # conn[t]
      BY TypedParts DEF Logout, SetStatus, TypedSessions
    <3>2. Close(t) => c # conn[t]
      BY <1>1 DEF Close, At, MembersInv, ClosersClosed
    <3> QED
      BY <1>3, <2>1, <2>2, <3>1, <3>2, RegistrySteps
  <2>3. CASE InTransit(c, {"login"})
    <3>1. PICK u \in Task : conn[u] = c /\ pc[u] = "login"
      BY <2>3 DEF InTransit
    <3>2. CASE u # t
      BY <1>1, <3>1, <3>2 DEF Moves, Same, InTransit
    <3>3. CASE u = t
      BY <1>3, <3>1, <3>3, SecondHalf, RegistrySteps
    <3> QED
      BY <3>2, <3>3
  <2> QED
    BY <1>1, <1>3, <2>2, <2>3 DEF UsersAreRegistered, Authenticated
<1> QED
  BY <1>2, <1>3, UserOfSession

\* UsersAreRegistered is inductive relative to Base and MembersInv.
LEMMA UsersNext ==
    ASSUME Base, MembersInv, UsersAreRegistered, [Next]_vars
    PROVE  UsersAreRegistered'
<1>1. CASE \E t \in Task : Handle(t)
  BY <1>1, UsersStep
<1>2. CASE ~\E t \in Task : Handle(t)
  <2>1. /\ UNCHANGED <<status, user, room, registries, database>>
        /\ \A t \in Task : Same(t) \/ (pc[t] = "idle" /\ pc'[t] = "arrived")
    BY <1>2, ArrivalsKeep
  <2>2. UNCHANGED <<status, user, userConns>>
    BY <2>1 DEF registries
  <2>3. \A c \in Conn : link'[c] = "open" => link[c] \in {"new", "open"}
    BY <1>2, TypedParts DEF Next, handleNewConnection, handleConnectionClosed, handleNewMessage,
       vars, sessions, TypedSessions
  <2>4. \A c \in Conn : InTransit(c, {"login"}) => InTransit(c, {"login"})'
    BY <2>1 DEF InTransit, Same
  <2> QED
    BY <2>2, <2>3, <2>4 DEF UsersAreRegistered, Authenticated, MembersInv, NewUntouched
<1> QED
  BY <1>1, <1>2

\* The steps of a handler of a registration.
LEMMA RegisterSteps ==
    ASSUME NEW t \in Task, Handle(t), req[t].op = "Register"
    PROVE  StartRegister(t) \/ InsertAccount(t) \/ Spin(t) \/ GiveUp(t)
<1>1. SessionStep(t) => StartRegister(t) \/ InsertAccount(t)
  BY DEF SessionStep, StartAuthInitial, FindAccount, StartRegisterInitial, FindNameFree,
     StartAuth, AcceptAuth, AbortAuth, Login, StartLogout, StartClose, UnregisterFromRoom,
     Logout, Close, Start, At
<1>2. ~RoomStep(t)
  BY DEF RoomStep, StartJoin, JoinLeaveOldRoom, JoinFindRoom, JoinMembership, JoinVisit,
     JoinSetRoom, JoinEnter, JoinList, JoinListed, StartLeave, Leave, StartCreateRoom, InsertRoom,
     StartDeleteRoom, DeleteRow, Evict, StartBecomeMember, BecomeMember, StartSendMessage, SendMessage,
     Start, At
<1>3. ~RoleStep(t)
  BY DEF RoleStep, StartAssignRole, CheckRole, CommitRole, ReadOwner, CommitOwner,
     CacheOld, CacheNew, CacheVisit, CachedOld, CachedNew, Start, At
<1> QED
  BY <1>1, <1>2, <1>3 DEF Handle

\* A registration that has its session's lock is at its insertion.
LEMMA RegisterInsertsNext ==
    ASSUME Base, RegisterInserts, [Next]_vars
    PROVE  RegisterInserts'
<1> SUFFICES ASSUME NEW x \in Task, Holding(x)', req'[x].op = "Register"
             PROVE  pc'[x] = "insert"
  BY DEF RegisterInserts
<1>1. CASE Same(x)
  BY <1>1 DEF Same, Holding, RegisterInserts
<1>2. CASE ~Same(x) /\ \E t \in Task : Handle(t)
  <2>1. PICK t \in Task : Handle(t)
    BY <1>2
  <2>2. x = t /\ (pc'[t] = "idle" \/ req'[t] = req[t])
    BY <1>2, <2>1, HandleSound DEF StepSound, Moves
  <2>3. req[t].op = "Register" /\ pc'[t] \notin {"idle", "arrived", "spinning"}
    BY <2>2 DEF Holding
  <2>4. StartRegister(t) \/ InsertAccount(t) \/ Spin(t) \/ GiveUp(t)
    BY <2>1, <2>3, RegisterSteps
  <2>5. ~InsertAccount(t) /\ ~Spin(t) /\ ~GiveUp(t)
    BY <2>3, TypedParts DEF InsertAccount, Spin, GiveUp, Finish, Goto, TypedCoroutines
  <2> QED
    BY <2>2, <2>3, <2>4, <2>5, TypedParts DEF StartRegister, Start, Finish, Goto, TypedCoroutines
<1>3. CASE ~Same(x) /\ ~\E t \in Task : Handle(t)
  BY <1>3, ArrivalsKeep DEF Holding
<1> QED
  BY <1>1, <1>2, <1>3

\* A step of a handler registers a connection for the user it is logged in
\* as, and a session that is logged in forgets its user in no other way than
\* a log out, which unregisters it, or a first phase, which makes it a stray.
LEMMA StrayStep ==
    ASSUME Base, StrayInv, NEW t \in Task, Handle(t), Remember
    PROVE  UserRegistrySound'
<1> SUFFICES ASSUME NEW c \in Conn, NEW u \in User, c \in userConns'[u], <<c, u>> \notin strays'
             PROVE  status'[c] = "Authenticated" /\ user'[c].id = u
  BY DEF UserRegistrySound, Authenticated
<1>1. conn[t] \in Conn /\ pc[t] # "idle"
  BY HandleSound, RequestOf DEF StepSound, Moves
<1>2. CASE Login(t) /\ c = conn[t] /\ u = user[c].id
  <2>1. status' = status /\ user' = user /\ status[c] = "Authenticated"
    BY <1>2 DEF Login, At, sessions, Base, HoldersKnow, Knows, AuthenticatedStages, Authenticated
  <2> QED
    BY <1>2, <2>1
<1>3. CASE c \in userConns[u]
  <2>1. <<c, u>> \notin strays /\ ~BeganAnew(c)
    BY <1>3 DEF Remember
  <2>2. status[c] = "Authenticated" /\ user[c].id = u /\ user[c] # None
    BY <1>3, <2>1 DEF StrayInv, UserRegistrySound, Authenticated, Base, SessionsShaped
  <2>3. CASE c # conn[t]
    BY <2>2, <2>3, OnlyOwnUser
  <2>4. CASE c = conn[t] /\ ~WhoChange(t)
    BY <2>2, <2>4, OtherStepsKeepUsers
  <2>5. CASE c = conn[t] /\ (FindAccount(t) \/ FindNameFree(t))
    <3>1. UNCHANGED <<status, user>> \/ status'[c] \in {"Authenticating", "Registering"}
      BY <2>5, TypedParts DEF FindAccount, FindNameFree, SetStatus, TypedSessions
    <3> QED
      BY <2>1, <2>2, <3>1 DEF BeganAnew, Authenticated
  <2>6. ~(c = conn[t] /\ Logout(t))
    BY <1>3, <2>2, RegistrySteps
  <2>7. ~(c = conn[t] /\ (AcceptAuth(t) \/ AbortAuth(t) \/ InsertAccount(t)))
    BY <2>2 DEF AcceptAuth, AbortAuth, InsertAccount, At, Base, HoldersKnow, Knows
  <2>8. ~(c = conn[t] /\ GiveUp(t) /\ req[t].op = "Register")
    <3>1. GiveUp(t) => Holding(t)
      BY DEF GiveUp, FallibleStages, Holding
    <3> QED
      BY <2>2, <3>1 DEF StrayInv, RegisterInserts, Base, HoldersKnow, Knows
  <2> QED
    BY <2>3, <2>4, <2>5, <2>6, <2>7, <2>8 DEF WhoChange
<1> QED
  BY <1>2, <1>3, RegistrySteps

\* StrayInv is inductive relative to Base.
LEMMA StrayNext ==
    ASSUME Base, StrayInv, [Next /\ Remember]_hvars
    PROVE  StrayInv'
<1>1. [Next]_vars
  BY DEF hvars
<1>2. RegisterInserts'
  BY <1>1, RegisterInsertsNext DEF StrayInv
<1>3. CASE Remember /\ \E t \in Task : Handle(t)
  BY <1>2, <1>3, StrayStep DEF StrayInv
<1>4. CASE Remember /\ ~\E t \in Task : Handle(t)
  <2>1. UNCHANGED <<status, user, userConns>>
    BY <1>1, <1>4, ArrivalsKeep DEF registries
  <2>2. strays \subseteq strays'
    BY <1>4 DEF Remember
  <2> QED
    BY <1>2, <2>1, <2>2 DEF StrayInv, UserRegistrySound, Authenticated
<1>5. CASE UNCHANGED hvars
  BY <1>2, <1>5 DEF hvars, vars, sessions, registries, StrayInv, UserRegistrySound, Authenticated
<1> QED
  BY <1>3, <1>4, <1>5

\* An open connection that has logged in is in the users' registry, so it is
\* told of new rooms and has its cached rights updated.
THEOREM UsersAreRegisteredHolds == Spec => []UsersAreRegistered
<1>1. Init => UsersAreRegistered
  BY DEF Init, UsersAreRegistered, Authenticated
<1>2. Base /\ MembersInv /\ UsersAreRegistered /\ [Next]_vars => UsersAreRegistered'
  BY UsersNext
<1> QED
  BY BaseHolds, MembersInvHolds, <1>1, <1>2, PTL DEF Spec

\* The history variables only record.
LEMMA HistoryImplements == HistorySpec => Spec
<1>1. [Next /\ Remember]_hvars => [Next]_vars
  BY DEF hvars
<1> QED
  BY <1>1, PTL DEF HistorySpec, Spec

\* Whoever is registered for a user is logged in as that user, or began a log
\* in or a registration anew while it was, whatever the clients send.
THEOREM UserRegistrySoundHolds == HistorySpec => []UserRegistrySound
<1>1. Init => StrayInv
  BY DEF Init, StrayInv, UserRegistrySound, RegisterInserts, Holding
<1>2. Base /\ StrayInv /\ [Next /\ Remember]_hvars => StrayInv'
  BY StrayNext
<1>3. StrayInv => UserRegistrySound
  BY DEF StrayInv
<1> QED
  BY BaseHolds, HistoryImplements, <1>1, <1>2, <1>3, PTL DEF HistorySpec

=============================================================================
