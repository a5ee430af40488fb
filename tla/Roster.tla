-------------------------------- MODULE Roster -------------------------------
(***************************************************************************)
(* The people of a room as the server knows them and as every client shows *)
(* them: connections join rooms, log out and in, change names and roles    *)
(* and type, while the notices of that travel to the clients.  Joining is  *)
(* modelled handler step by handler step, as its answer is put together    *)
(* from several looks at what goes on changing.                            *)
(***************************************************************************)
EXTENDS UserList, FiniteSets, FiniteSetsExt, Functions

CONSTANTS
    Conn, User, Room,
    UserOf,         \* the user of every connection
    Name,           \* names a user may take
    NoRoom,
    FirstOwner,     \* the owner of the rooms in the beginning
    MaxRequests     \* bound: requests sent over all connections

ASSUME UsersAssumption == UserOf \in [Conn -> User] /\ FirstOwner \in User

VARIABLES
    members,        \* database: of every room, its members with their roles
    username,       \* database
    session,        \* of every connection: is it logged in, room, rights, name
    registry,       \* of every room, the connections in it
    handler,        \* what a connection's handler is about, under its unique lock
    outbox,         \* requests waiting for the session
    inbox,          \* notices and answers on their way to the client
    client,         \* the chat panel
    requests,
    doubt,          \* history: whom a client cannot know for sure
    untold,         \* history: of whose new role a client was not told
    ghosts          \* history: names whose typing may never end

database == <<members, username>>
vars == <<members, username, session, registry, handler, outbox, inbox, client,
          requests, doubt, untold, ghosts>>

Idle == [stage |-> "idle"]

IsIdle(c) == handler[c] = Idle
NameOf(c) == session[c].name

\* The stages in which a join has begun and not had all its effects, and those
\* in which it has looked at the members and not answered.
Entering == {"depart", "enroll", "query", "notify", "again", "enter"}
Looking  == {"notify", "again", "enter", "list", "walk", "answer"}

\* What a handler is about, other than looking.
Concerns(c) ==
    CASE handler[c].stage \in Entering \cup {"tell"} -> {UserOf[c]}
      [] handler[c].stage = "cache" -> {todo[1] : todo \in ToSet(handler[c].todo)}
      [] OTHER -> {}

\* Something about users us begins: those who look cannot know, and if
\* something about them was under way nobody can.
Disturb(us) ==
    LET clash == us \cap UNION {Concerns(c) : c \in Conn}
    IN  doubt' = [c \in Conn |-> doubt[c] \cup clash
                                \cup (IF handler[c].stage \in Looking THEN us ELSE {})]

\* The manager is needed alone while nobody walks a room.
ManagerFree == \A c \in Conn : handler[c].stage # "walk"

To(cs, notice, boxes) == [c \in Conn |-> IF c \in cs THEN Append(boxes[c], notice) ELSE boxes[c]]

sendToRoom(room, notice) == inbox' = To(registry[room], notice, inbox)
sendToAll(notice) == inbox' = To({c \in Conn : session[c].online}, notice, inbox)

Goto(c, stage) == handler' = [handler EXCEPT ![c].stage = stage]
Finish(c) == handler' = [handler EXCEPT ![c] = Idle]

-----------------------------------------------------------------------------
\* removeConnectionFromRoom: the notice, then the removal, under one lock.
LeaveRoom(c) ==
    LET room == session[c].room
    IN  IF room = NoRoom THEN UNCHANGED <<registry, inbox>>
        ELSE /\ sendToRoom(room, [type |-> "left", id |-> UserOf[c], name |-> NameOf(c)])
             /\ registry' = [registry EXCEPT ![room] = @ \ {c}]

JoinDepart(c) ==
    /\ handler[c].stage = "depart" /\ ManagerFree
    /\ LeaveRoom(c)
    /\ session' = [session EXCEPT ![c].room = NoRoom, ![c].rights = REGULAR]
    /\ Goto(c, "enroll")
    /\ UNCHANGED <<database, outbox, client, requests, doubt, untold, ghosts>>

RoleIn(room, u) == IF u \in DOMAIN members[room] THEN members[room][u] ELSE REGULAR

JoinEnroll(c) ==
    LET room == handler[c].room
        isNew == UserOf[c] \notin DOMAIN members[room]
    IN  /\ handler[c].stage = "enroll"
        /\ members' = IF isNew THEN [members EXCEPT ![room] = @ @@ (UserOf[c] :> REGULAR)]
                      ELSE members
        /\ handler' = [handler EXCEPT ![c] = [stage |-> "query", room |-> room, isNew |-> isNew]]
        /\ UNCHANGED <<username, session, registry, outbox, inbox, client, requests, doubt, untold, ghosts>>

JoinQuery(c) ==
    LET room == handler[c].room
        all  == {Entry(u, username[u], RoleIn(room, u)) : u \in DOMAIN members[room]}
    IN  /\ handler[c].stage = "query"
        /\ handler' = [handler EXCEPT ![c] =
               [stage |-> "notify", room |-> room, isNew |-> @.isNew, all |-> SetToSeq(all)]]
        /\ session' = [session EXCEPT ![c].room = room, ![c].rights = RoleIn(room, UserOf[c])]
        /\ untold' = [untold EXCEPT ![c] = {}]
        /\ doubt' = [doubt EXCEPT ![c] = UNION {Concerns(d) : d \in Conn \ {c}}]
        /\ UNCHANGED <<database, registry, outbox, inbox, client, requests, ghosts>>

Joined(c) == [type |-> "joined", user |-> Entry(UserOf[c], NameOf(c), session[c].rights)]

\* (mutation: the room is told once)
JoinNotifyOnce(c) ==
    /\ handler[c].stage = "notify"
    /\ sendToRoom(handler[c].room, Joined(c))
    /\ Goto(c, "enter")
    /\ UNCHANGED <<database, session, registry, outbox, client, requests, doubt, untold, ghosts>>

\* A second notice follows for a user the room has not listed yet.
JoinNotify(c) ==
    /\ handler[c].stage \in {"notify", "again"}
    /\ sendToRoom(handler[c].room, Joined(c))
    /\ Goto(c, IF handler[c].stage = "notify" /\ handler[c].isNew THEN "again" ELSE "enter")
    /\ UNCHANGED <<database, session, registry, outbox, client, requests, doubt, untold, ghosts>>

JoinEnter(c) ==
    /\ handler[c].stage = "enter" /\ ManagerFree
    /\ registry' = [registry EXCEPT ![handler[c].room] = @ \cup {c}]
    /\ Goto(c, "list")
    /\ UNCHANGED <<database, session, outbox, inbox, client, requests, doubt, untold, ghosts>>

JoinList(c) ==
    /\ handler[c].stage = "list"
    /\ Goto(c, "walk")
    /\ UNCHANGED <<database, session, registry, outbox, inbox, client, requests, doubt, untold, ghosts>>

\* getUsersInRoom waits for every session in the room but its own.
JoinWalk(c) ==
    LET room == handler[c].room
        info(d) == Entry(UserOf[d], NameOf(d), session[d].rights)
        present == SetToSeq(registry[room])
    IN  /\ handler[c].stage = "walk"
        /\ \A d \in registry[room] \ {c} : IsIdle(d)
        /\ handler' = [handler EXCEPT ![c] =
               [stage |-> "answer", all |-> @.all, active |-> [i \in DOMAIN present |-> info(present[i])]]]
        /\ UNCHANGED <<database, session, registry, outbox, inbox, client, requests, doubt, untold, ghosts>>

JoinAnswer(c) ==
    /\ handler[c].stage = "answer"
    /\ inbox' = To({c}, [type |-> "answer", all |-> handler[c].all, active |-> handler[c].active], inbox)
    /\ Finish(c)
    /\ UNCHANGED <<database, session, registry, outbox, client, requests, doubt, untold, ghosts>>

-----------------------------------------------------------------------------
\* The handlers of the other requests, as they begin.
BeginJoin(c, room) ==
    /\ handler' = [handler EXCEPT ![c] = [stage |-> "depart", room |-> room]]
    /\ Disturb({UserOf[c]})
    /\ UNCHANGED <<database, session, registry, inbox>>

LogoutUser(c) ==
    LET told == IF session[c].room = NoRoom THEN inbox
                ELSE To(registry[session[c].room] , [type |-> "left", id |-> UserOf[c], name |-> NameOf(c)], inbox)
    IN  /\ ManagerFree
        /\ inbox' = To({c}, [type |-> "loggedOut"], told)
        /\ registry' = [room \in Room |-> IF room = session[c].room THEN registry[room] \ {c} ELSE registry[room]]
        /\ session' = [session EXCEPT ![c] =
               [online |-> FALSE, room |-> NoRoom, rights |-> REGULAR, name |-> @.name]]
        /\ Disturb({UserOf[c]})
        /\ UNCHANGED <<database, handler>>

\* The new name is committed; the session and the clients are told next.
ChangeUsername(c, name) ==
    /\ IF name \in {username[u] : u \in User}
       THEN UNCHANGED <<username, handler, doubt>>
       ELSE /\ username' = [username EXCEPT ![UserOf[c]] = name]
            /\ handler' = [handler EXCEPT ![c] = [stage |-> "tell", name |-> name]]
            /\ Disturb({UserOf[c]})
    /\ UNCHANGED <<members, session, registry, inbox>>

TellUsername(c) ==
    /\ handler[c].stage = "tell"
    /\ session' = [session EXCEPT ![c].name = handler[c].name]
    /\ sendToAll([type |-> "name", id |-> UserOf[c], name |-> handler[c].name])
    /\ Finish(c)
    /\ UNCHANGED <<database, registry, outbox, client, requests, doubt, untold, ghosts>>

\* The server's condition for a change of roles: the caller's role is the one
\* his session caches, the target's is read.
MayAssign(c, u, role) ==
    LET mine == session[c].rights
    IN  /\ role < mine \/ (mine >= OWNER /\ role = OWNER)
        /\ RoleIn(session[c].room, u) < mine

AssignRole(c, u, role) ==
    LET room == session[c].room
        old  == {v \in DOMAIN members[room] : role = OWNER /\ members[room][v] = OWNER}
        todo == [i \in 1..Cardinality(old) |-> <<SetToSeq(old)[i], MODERATOR>>] \o <<<<u, role>>>>
    IN  IF room = NoRoom \/ ~MayAssign(c, u, role)
        THEN UNCHANGED <<database, session, registry, handler, inbox, doubt>>
        ELSE /\ members' = [members EXCEPT ![room] =
                    [v \in DOMAIN @ |-> IF v = u THEN role ELSE IF v \in old THEN MODERATOR ELSE @[v]]]
             /\ handler' = [handler EXCEPT ![c] = [stage |-> "cache", room |-> room, todo |-> todo]]
             /\ Disturb({u} \cup old)
             /\ UNCHANGED <<username, session, registry, inbox>>

\* The connections that are registered for u.
Registered(u) == {d \in Conn : UserOf[d] = u /\ session[d].online}

\* (mutation: the room is told, and the sessions keep the rights they cached)
TellRoleOnly(c) ==
    LET u == handler[c].todo[1][1]
        role == handler[c].todo[1][2]
    IN  /\ handler[c].stage = "cache"
        /\ \A d \in Registered(u) \ {c} : IsIdle(d)
        /\ IF Registered(u) = {} THEN UNCHANGED inbox
           ELSE sendToRoom(handler[c].room, [type |-> "role", id |-> u, role |-> role])
        /\ IF Len(handler[c].todo) = 1 THEN Finish(c)
           ELSE handler' = [handler EXCEPT ![c].todo = Tail(@)]
        /\ UNCHANGED <<database, session, registry, outbox, client, requests, doubt, untold, ghosts>>

\* updateUserRoomRights waits for every session of the user but its own, and
\* returns before the notice if the user has none.
TellRole(c) ==
    LET u == handler[c].todo[1][1]
        role == handler[c].todo[1][2]
        room == handler[c].room
        here(d) == session[d].room = room
    IN  /\ handler[c].stage = "cache"
        /\ \A d \in Registered(u) \ {c} : IsIdle(d)
        /\ session' = [d \in Conn |-> IF d \in Registered(u) /\ here(d)
                                       THEN [session[d] EXCEPT !.rights = role] ELSE session[d]]
        /\ IF Registered(u) = {}
           THEN /\ untold' = [d \in Conn |-> IF here(d) THEN untold[d] \cup {u} ELSE untold[d]]
                /\ UNCHANGED inbox
           ELSE /\ sendToRoom(room, [type |-> "role", id |-> u, role |-> role])
                /\ untold' = [d \in Conn |-> IF d \in registry[room] THEN untold[d] \ {u} ELSE untold[d]]
        /\ IF Len(handler[c].todo) = 1 THEN Finish(c)
           ELSE handler' = [handler EXCEPT ![c].todo = Tail(@)]
        /\ UNCHANGED <<database, registry, outbox, client, requests, doubt, ghosts>>

\* UserTypingStart and UserTypingStop
TellTyping(c, what) ==
    /\ IF session[c].room = NoRoom THEN UNCHANGED inbox
       ELSE sendToRoom(session[c].room, [type |-> what, id |-> UserOf[c], name |-> NameOf(c)])
    /\ UNCHANGED <<database, session, registry, handler, doubt>>

\* The coroutines that wait for a session get it in any order; what is not
\* first has overtaken what was.
Begin(c, i) ==
    LET request == outbox[c][i]
        halfTyped == client[c].typing \/ <<"stop">> \in ToSet(outbox[c])
    IN  /\ IsIdle(c)
        /\ outbox' = [outbox EXCEPT ![c] = RemoveAt(@, i)]
        /\ ghosts' = ghosts \cup (IF i > 1 \/ (request[1] = "name" /\ halfTyped) THEN {NameOf(c)} ELSE {})
        /\ UNCHANGED <<client, requests, untold>>
        /\ IF ~session[c].online
           THEN UNCHANGED <<database, session, registry, handler, inbox, doubt>>
           ELSE \/ request[1] = "join"   /\ BeginJoin(c, request[2])
                \/ request[1] = "logout" /\ LogoutUser(c)
                \/ request[1] = "name"   /\ ChangeUsername(c, request[2])
                \/ request[1] = "role"   /\ AssignRole(c, request[2], request[3])
                \/ request[1] \in {"start", "stop"} /\ TellTyping(c, request[1])

-----------------------------------------------------------------------------
\* The client's user.
LoggedIn(c) == session[c].online \/ [type |-> "loggedOut"] \in ToSet(inbox[c])

Send(c, request) ==
    /\ LoggedIn(c) /\ requests < MaxRequests
    /\ outbox' = [outbox EXCEPT ![c] = Append(@, request)]
    /\ requests' = requests + 1
    /\ UNCHANGED <<database, session, registry, handler, inbox, doubt, untold>>

\* A join that was asked for and not answered yet.
Moving(c) == \/ ~IsIdle(c) \/ \E request \in ToSet(outbox[c]) : request[1] = "join"
             \/ \E notice \in ToSet(inbox[c]) : notice.type = "answer"

OnInputText(c) ==
    /\ client[c].shown /\ ~client[c].typing
    /\ Send(c, <<"start">>)
    /\ client' = [client EXCEPT ![c].typing = TRUE]
    /\ ghosts' = ghosts \cup (IF Moving(c) THEN {NameOf(c)} ELSE {})

\* The timer rings, or the message is sent.
OnTypingTimer(c) ==
    /\ client[c].typing
    /\ outbox' = [outbox EXCEPT ![c] = Append(@, <<"stop">>)]
    /\ client' = [client EXCEPT ![c].typing = FALSE]
    /\ UNCHANGED <<database, session, registry, handler, inbox, requests, doubt, untold, ghosts>>

Ask(c, request) == Send(c, request) /\ UNCHANGED <<client, ghosts>>

PickFromMenu(c) ==
    \E i \in DOMAIN client[c].users :
        LET target == client[c].users[i]
        IN  /\ client[c].shown
            /\ \E role \in OnUserRightClick(client[c], target) : Ask(c, <<"role", target.id, role>>)

\* Logging in; the current user's role is not known yet.
Login(c) ==
    /\ ~LoggedIn(c) /\ inbox[c] = <<>> /\ outbox[c] = <<>>
    /\ requests < MaxRequests /\ requests' = requests + 1
    /\ session' = [session EXCEPT ![c] =
           [online |-> TRUE, room |-> NoRoom, rights |-> REGULAR, name |-> username[UserOf[c]]]]
    /\ client' = [client EXCEPT ![c].me = Entry(UserOf[c], username[UserOf[c]], REGULAR)]
    /\ UNCHANGED <<database, registry, handler, outbox, inbox, doubt, untold, ghosts>>

\* handleMessage
Shown(panel, notice) ==
    CASE notice.type = "joined" -> AddUser(panel, notice.user)
      [] notice.type = "left"   -> UserLeft(panel, notice.id, notice.name)
      [] notice.type = "role"   -> UpdateUserRole(panel, notice.id, notice.role)
      [] notice.type = "name"   -> UpdateUsername(panel, notice.id, notice.name)
      [] notice.type = "start"  -> UserStartedTyping(panel, notice.id, notice.name)
      [] notice.type = "stop"   -> IF panel.shown THEN UserStoppedTyping(panel, notice.id, notice.name)
                                   ELSE panel
      [] notice.type = "answer" -> ShowChat(panel, notice.all, notice.active)
      [] notice.type = "loggedOut" -> ShowAuth(panel)

Deliver(c) ==
    /\ inbox[c] # <<>>
    /\ client' = [client EXCEPT ![c] = Shown(@, Head(inbox[c]))]
    /\ inbox' = [inbox EXCEPT ![c] = Tail(@)]
    /\ UNCHANGED <<database, session, registry, handler, outbox, requests, doubt, untold, ghosts>>

-----------------------------------------------------------------------------
Init ==
    /\ members = [room \in Room |-> FirstOwner :> OWNER]
    /\ username \in {f \in [User -> Name] : IsInjective(f)}
    /\ session = [c \in Conn |->
           [online |-> TRUE, room |-> NoRoom, rights |-> REGULAR, name |-> username[UserOf[c]]]]
    /\ registry = [room \in Room |-> {}]
    /\ handler = [c \in Conn |-> Idle]
    /\ outbox = [c \in Conn |-> <<>>] /\ inbox = [c \in Conn |-> <<>>]
    /\ client = [c \in Conn |-> NewPanel(Entry(UserOf[c], username[UserOf[c]], REGULAR))]
    /\ requests = 0
    /\ doubt = [c \in Conn |-> {}] /\ untold = [c \in Conn |-> {}] /\ ghosts = {}

JoinStep(c) ==
    \/ JoinDepart(c) \/ JoinEnroll(c) \/ JoinQuery(c) \/ JoinNotify(c)
    \/ JoinEnter(c) \/ JoinList(c) \/ JoinWalk(c) \/ JoinAnswer(c)

ServerStep(c) == JoinStep(c) \/ TellUsername(c) \/ TellRole(c) \/ \E i \in DOMAIN outbox[c] : Begin(c, i)

UserStep(c) ==
    \/ \E room \in Room : Ask(c, <<"join", room>>)
    \/ \E name \in Name : Ask(c, <<"name", name>>)
    \/ Ask(c, <<"logout">>) \/ PickFromMenu(c) \/ Login(c)
    \/ OnInputText(c) \/ OnTypingTimer(c)

Next == \E c \in Conn : ServerStep(c) \/ UserStep(c) \/ Deliver(c)

Spec == Init /\ [][Next]_vars

-----------------------------------------------------------------------------
\* Nothing is under way on the server, and the client has heard everything.
Settled(c) == /\ \A d \in Conn : IsIdle(d)
              /\ session[c].room # NoRoom /\ inbox[c] = <<>>

Present(room, u) == {c \in registry[room] : UserOf[c] = u}

\* Every connection of u knows its name.
NameIsKnown(u) == \A c \in Conn : UserOf[c] = u => NameOf(c) = username[u]

(***************************************************************************)
(* Once everything is told, a client lists the members of its room, each   *)
(* with its role, its name and as many connections as it has there; those  *)
(* who are online first, and among them the higher roles.  Users about     *)
(* whom something changed while the answer was put together, or two things *)
(* at once, are in doubt; a name that a second connection of its user has  *)
(* not heard of may come back with it; and a role that was given to a user *)
(* with no connection is told to nobody, and unknown until a client joins  *)
(* again or the user gets another.                                         *)
(***************************************************************************)
ListsAreTrue ==
    \A c \in Conn : Settled(c) =>
        LET room == session[c].room
            users == client[c].users
        IN  /\ \A u \in User \ doubt[c] :
                  LET entries == {users[i] : i \in Listed(client[c], u)}
                  IN  IF u \in DOMAIN members[room]
                      THEN /\ Cardinality(Listed(client[c], u)) = 1
                           /\ \A e \in entries : /\ e.count = Cardinality(Present(room, u))
                                                 /\ u \notin untold[c] => e.role = members[room][u]
                                                 /\ NameIsKnown(u) => e.name = username[u]
                      ELSE entries = {}
            /\ \A i, j \in DOMAIN users : i < j =>
                  \/ users[i].count # 0 /\ users[j].count = 0
                  \/ (users[i].count = 0) = (users[j].count = 0) /\ users[i].role >= users[j].role

(***************************************************************************)
(* What the menu of a user offers then, the server grants: the menu is     *)
(* built from the client's list, and the server decides by the rights that *)
(* the session caches and the role in the database.  Users in doubt are    *)
(* excepted.  A role nobody was told of need not be: here, only an owner   *)
(* has a menu, and he stays above it or has lost the menu with the room.   *)
(***************************************************************************)
MenusAreHonoured ==
    \A c \in Conn : Settled(c) =>
        \A i \in DOMAIN client[c].users :
            LET target == client[c].users[i]
            IN  {target.id, UserOf[c]} \cap doubt[c] = {} =>
                    \A role \in OnUserRightClick(client[c], target) : MayAssign(c, target.id, role)

(***************************************************************************)
(* Nobody is shown typing for ever: whoever is, and is not one of the      *)
(* ghosts - who began to type while a room was being changed, whose notice *)
(* was overtaken, or who changed name meanwhile - is in the room and       *)
(* typing, or about to say that he stopped.                                *)
(***************************************************************************)
TypingEnds ==
    \A c \in Conn : Settled(c) =>
        \A name \in client[c].typists \ ghosts :
            \E d \in registry[session[c].room] :
                NameOf(d) = name /\ (client[d].typing \/ <<"stop">> \in ToSet(outbox[d]))

=============================================================================
