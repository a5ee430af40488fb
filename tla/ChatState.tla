----------------------------- MODULE ChatState ------------------------------
(***************************************************************************)
(* The state of one chat server and the vocabulary of its handlers.        *)
(*                                                                         *)
(*   sessions    WsData of every WebSocket connection (chat/WsData.h)      *)
(*   registries  the two maps of ChatRoomManager                           *)
(*   database    what the handlers read and write through the ORM          *)
(*   coroutines  the requests in progress                                  *)
(*                                                                         *)
(* A request is a coroutine that first acquires the lock of its own        *)
(* connection's WsData, shared or unique, and keeps it to its end.  It is  *)
(* one atomic action from one co_await to the next: a database operation,  *)
(* an operation of the manager, a peer's lock.  The locks themselves are   *)
(* the reader-writer lock of RWLock, which AsyncSharedMutex implements.    *)
(***************************************************************************)
EXTENDS Integers, FiniteSets

CONSTANTS
    Conn,           \* WebSocket connections, each opened at most once
    User,           \* users: an account name and the id it has in the database
    Room,           \* room ids
    Task,           \* coroutine frames: bounds the requests in progress
    Request,        \* the requests that clients may send
    Admins,         \* users with is_admin set
    PrivateRooms,   \* rooms with is_private set
    Accounts0,      \* the possible sets of accounts in the database at start
    Owner0,         \* the rooms in the database at start, with their owners
    None            \* no value (std::nullopt, id 0, an empty frame)

REGULAR   == 0      \* chat::UserRights
MODERATOR == 1
OWNER     == 2
ADMIN     == 3
Rights    == REGULAR .. ADMIN

SharedOps == {"Close", "SendMessage", "CreateRoom", "DeleteRoom", "BecomeMember"}
UniqueOps == {"AuthInitial", "RegisterInitial", "Auth", "Register", "Logout",
              "JoinRoom", "LeaveRoom", "AssignRole"}

RequestRecord == [op : SharedOps \cup UniqueOps, room : Room \cup {None},
                  user : User \cup {None}, role : Rights]

SessionUser == [name : User, id : User \cup {None}]
CurrentRoom == [id : Room, rights : Rights]

ASSUME ChatAssumption ==
    /\ None \notin Conn \cup User \cup Room \cup Rights
    /\ None \notin RequestRecord \cup SessionUser \cup CurrentRoom
    /\ \A r \in Request :
          /\ r \in RequestRecord /\ r.op # "Close"
          /\ r.op \in {"AuthInitial", "RegisterInitial", "AssignRole"} => r.user # None
          /\ r.op \in {"JoinRoom", "DeleteRoom", "BecomeMember", "AssignRole"} => r.room # None
    /\ Accounts0 \subseteq SUBSET User
    /\ DOMAIN Owner0 \subseteq Room
    /\ \A known \in Accounts0 : Owner0 \in [DOMAIN Owner0 -> known \cup {None}]

VARIABLES
    link,           \* link[c]: "new", "open" or "closed"
    status,         \* WsData::status
    user,           \* WsData::user: None or [id, name], id None standing for 0
    room,           \* WsData::room: None or [id, rights]

    userConns,      \* m_user_id_to_conns
    roomConns,      \* m_room_to_conns

    accounts,       \* table users
    rooms,          \* table rooms: the ids of its rows
    spent,          \* ids the room_id sequence has given out
    owner,          \* rooms.owner_id
    membership,     \* table room_membership, "none" for no row
    moderators,     \* table user_room_data: rows with is_moderator

    pc,             \* where each coroutine is
    conn,           \* the connection whose request it handles
    req,            \* the request
    todo,           \* connections its loop over a registry has not reached
    ownerRead,      \* rooms.owner_id as the coroutine read it
    oldRole         \* handleAssignRole's oldOwnerNewRole_optional

sessions   == <<link, status, user, room>>
registries == <<userConns, roomConns>>
database   == <<accounts, rooms, spent, owner, membership, moderators>>
locals     == <<req, conn, todo, ownerRead, oldRole>>
coroutines == <<pc, locals>>

vars == <<sessions, registries, database, coroutines>>

-----------------------------------------------------------------------------
(* The lock of a session, seen from the coroutines that hold it.           *)

Holding(t) == pc[t] \notin {"idle", "arrived", "spinning"}

SharedHolders(c) == {t \in Task : conn[t] = c /\ Holding(t) /\ req[t].op \in SharedOps}
UniqueHolders(c) == {t \in Task : conn[t] = c /\ Holding(t) /\ req[t].op \in UniqueOps}

CanShare(c) == UniqueHolders(c) = {}
CanOwn(c)   == UniqueHolders(c) = {} /\ SharedHolders(c) = {}

(* The manager's lock: only a loop over a registry keeps it across an      *)
(* await, in shared mode.  Every other use takes and drops it in one step. *)

ListingStages == {"listing", "cachingOld", "cachingNew"}
ManagerFree   == \A t \in Task : pc[t] \notin ListingStages

-----------------------------------------------------------------------------
(* Steps of a coroutine.                                                   *)

Goto(t, stage) ==
    /\ pc' = [pc EXCEPT ![t] = stage]
    /\ UNCHANGED locals

\* The response is sent, the session's guard destroyed and the frame freed.
Finish(t) ==
    /\ pc' = [pc EXCEPT ![t] = "idle"]
    /\ conn' = [conn EXCEPT ![t] = None]
    /\ req' = [req EXCEPT ![t] = None]
    /\ todo' = [todo EXCEPT ![t] = {}]
    /\ ownerRead' = [ownerRead EXCEPT ![t] = None]
    /\ oldRole' = [oldRole EXCEPT ![t] = None]

Available(t) == IF req[t].op \in SharedOps THEN CanShare(conn[t]) ELSE CanOwn(conn[t])

\* A walk over a registry may have c's lock for the moment it takes to pass c.
BeingVisited(c) ==
    \E u \in Task : pc[u] \in ListingStages /\ conn[u] # c /\ c \in todo[u]

(* A new coroutine tries the session's lock in the very task that received *)
(* the message, and a loop runs one task at a time: of the coroutines of   *)
(* one connection a newly arrived one goes first.  Those that failed spin, *)
(* and the lock goes to any of them.                                       *)

LoopBusy(c) == \E u \in Task : conn[u] = c /\ pc[u] = "arrived"

Spin(t) ==
    /\ pc[t] = "arrived"
    /\ ~Available(t) \/ BeingVisited(conn[t])
    /\ Goto(t, "spinning")
    /\ UNCHANGED <<sessions, registries, database>>

\* co_await wsDataGuarded->lock_...(), and the checks up to the next await.
Start(t, op, admitted, stage) ==
    /\ pc[t] = "arrived" \/ (pc[t] = "spinning" /\ ~LoopBusy(conn[t]))
    /\ req[t].op = op
    /\ Available(t)
    /\ IF admitted THEN Goto(t, stage) ELSE Finish(t)
    /\ UNCHANGED <<sessions, registries, database>>

At(t, op, stage) == pc[t] = stage /\ req[t].op = op

Authenticated(c) == status[c] = "Authenticated"
InRoom(c, r)     == room[c] # None /\ room[c].id = r

=============================================================================
