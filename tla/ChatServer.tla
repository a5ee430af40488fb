----------------------------- MODULE ChatServer -----------------------------
(***************************************************************************)
(* One chat server: connections come and go, every binary message starts a *)
(* coroutine (WsController), and the coroutines of all connections         *)
(* interleave at their awaits.                                             *)
(***************************************************************************)
EXTENDS RoleHandlers

CloseRequest == [op |-> "Close", room |-> None, user |-> None, role |-> REGULAR]

\* A free coroutine frame begins to handle request r of connection c.
Spawn(t, c, r) ==
    /\ pc[t] = "idle"
    /\ ~LoopBusy(c)
    /\ pc' = [pc EXCEPT ![t] = "arrived"]
    /\ conn' = [conn EXCEPT ![t] = c]
    /\ req' = [req EXCEPT ![t] = r]
    /\ UNCHANGED <<todo, ownerRead, oldRole>>

\* WsController::handleNewConnection
handleNewConnection(c) ==
    /\ link[c] = "new"
    /\ link' = [link EXCEPT ![c] = "open"]
    /\ UNCHANGED <<status, user, room, registries, database, coroutines>>

(* Every request is open to every connection, whatever its session is and  *)
(* whatever it still waits for: the repository's client, too, sends on     *)
(* every click (authPanel.cpp, where SetButtonsEnabled is commented out).  *)

\* WsController::handleNewMessage
handleNewMessage(t, c, r) ==
    /\ link[c] = "open"
    /\ Spawn(t, c, r)
    /\ UNCHANGED <<sessions, registries, database>>

\* WsController::handleConnectionClosed
handleConnectionClosed(t, c) ==
    /\ link[c] = "open"
    /\ link' = [link EXCEPT ![c] = "closed"]
    /\ Spawn(t, c, CloseRequest)
    /\ UNCHANGED <<status, user, room, registries, database>>

\* A database operation fails, a transaction is rolled back or the request is
\* refused for what is not modelled: the handler answers with a failure.  Only
\* handleRegister changes the session then.
FallibleStages == {"find", "verify", "insert", "findRoom", "membership", "rights",
                   "insertRoom", "delete", "join", "insertMessage",
                   "check", "readOwner", "commit"}
GiveUp(t) ==
    /\ pc[t] \in FallibleStages
    /\ IF req[t].op = "Register" THEN SetStatus(conn[t], "Unauthenticated")
                                 ELSE UNCHANGED status
    /\ Finish(t)
    /\ UNCHANGED <<link, user, room, registries, database>>

-----------------------------------------------------------------------------
Init ==
    /\ link = [c \in Conn |-> "new"]
    /\ status = [c \in Conn |-> "Unauthenticated"]
    /\ user = [c \in Conn |-> None]
    /\ room = [c \in Conn |-> None]
    /\ userConns = [u \in User |-> {}]
    /\ roomConns = [r \in Room |-> {}]
    /\ accounts \in Accounts0
    /\ rooms = DOMAIN Owner0
    /\ spent = DOMAIN Owner0
    /\ owner = [r \in Room |-> IF r \in DOMAIN Owner0 THEN Owner0[r] ELSE None]
    /\ membership = [ur \in User \X Room |->
                        IF ur[2] \in DOMAIN Owner0 /\ Owner0[ur[2]] = ur[1]
                        THEN "INVITED" ELSE "none"]
    /\ moderators = {}
    /\ pc = [t \in Task |-> "idle"]
    /\ conn = [t \in Task |-> None]
    /\ req = [t \in Task |-> None]
    /\ todo = [t \in Task |-> {}]
    /\ ownerRead = [t \in Task |-> None]
    /\ oldRole = [t \in Task |-> None]

Handle(t) == Spin(t) \/ SessionStep(t) \/ RoomStep(t) \/ RoleStep(t) \/ GiveUp(t)

Next ==
    \/ \E c \in Conn : handleNewConnection(c)
    \/ \E t \in Task, c \in Conn :
          \/ handleConnectionClosed(t, c)
          \/ \E r \in Request : handleNewMessage(t, c, r)
    \/ \E t \in Task : Handle(t)

Spec == Init /\ [][Next]_vars

(***************************************************************************)
(* Every coroutine goes on when it can: the IO loops run what is queued,   *)
(* the database answers, and a coroutine that spins for a lock that is     *)
(* free again and again gets it.                                           *)
(***************************************************************************)
FairSpec == Spec /\ \A t \in Task : SF_vars(Handle(t))

-----------------------------------------------------------------------------
Status == {"Unauthenticated", "Registering", "Authenticating", "Authenticated"}
Stage  == {"idle", "arrived", "spinning", "login", "leave", "unregister", "enter", "list", "evict",
           "cacheOld", "cacheNew"} \cup ListingStages \cup FallibleStages

TypeOK ==
    /\ link \in [Conn -> {"new", "open", "closed"}]
    /\ status \in [Conn -> Status]
    /\ user \in [Conn -> SessionUser \cup {None}]
    /\ room \in [Conn -> CurrentRoom \cup {None}]
    /\ userConns \in [User -> SUBSET Conn]
    /\ roomConns \in [Room -> SUBSET Conn]
    /\ accounts \subseteq User
    /\ rooms \subseteq spent /\ spent \subseteq Room
    /\ owner \in [Room -> User \cup {None}]
    /\ membership \in [User \X Room -> {"none", "INVITED", "JOINED"}]
    /\ moderators \subseteq User \X Room
    /\ pc \in [Task -> Stage]
    /\ conn \in [Task -> Conn \cup {None}]
    /\ req \in [Task -> Request \cup {CloseRequest, None}]
    /\ todo \in [Task -> SUBSET Conn]
    /\ ownerRead \in [Task -> User \cup {None}]
    /\ oldRole \in [Task -> Rights \cup {None}]

-----------------------------------------------------------------------------
(***************************************************************************)
(* What the handlers dereference without a test is there: a session in a   *)
(* room has a user, an authenticated one has a real id, and one in the     *)
(* middle of a log in or a registration has the name to finish it with.    *)
(* Several requests of one session interleave with its log out.            *)
(***************************************************************************)
SessionsShaped ==
    \A c \in Conn :
        /\ room[c] # None => user[c] # None
        /\ Authenticated(c) => user[c] # None /\ user[c].id # None
        /\ status[c] \in {"Registering", "Authenticating"} => user[c] # None

(***************************************************************************)
(* Whoever is listed in a room is in that room, hence in one room only: a  *)
(* room never gets another room's messages, nor lists a user who left.     *)
(* The two facts are kept under two different locks.                       *)
(***************************************************************************)
RoomRegistrySound ==
    \A c \in Conn, r \in Room : c \in roomConns[r] => InRoom(c, r)

\* Between the session's and the registry's half of a join, log in or log out.
InTransit(c, stages) == \E t \in Task : conn[t] = c /\ pc[t] \in stages

(***************************************************************************)
(* Conversely, an open connection that is in an existing room is listed    *)
(* there, so it gets the room's messages.                                  *)
(***************************************************************************)
MembersAreListed ==
    \A c \in Conn : link[c] = "open" /\ room[c] # None =>
        \/ c \in roomConns[room[c].id]
        \/ room[c].id \notin rooms
        \/ InTransit(c, {"enter", "unregister"})

(***************************************************************************)
(* An open connection that has logged in gets what is sent to all users,   *)
(* and its role is updated when someone changes it.                        *)
(***************************************************************************)
UsersAreRegistered ==
    \A c \in Conn : link[c] = "open" /\ Authenticated(c) =>
        c \in userConns[user[c].id] \/ InTransit(c, {"login"})

\* The set a coroutine is walking over.
Walked(t) ==
    CASE pc[t] = "listing"    -> roomConns[req[t].room]
      [] pc[t] = "cachingOld" -> userConns[ownerRead[t]]
      [] pc[t] = "cachingNew" -> userConns[req[t].user]

(***************************************************************************)
(* getUsersInRoom and updateUserRoomRights iterate over a set across       *)
(* awaits: while they do, nobody inserts into it or erases from it, which  *)
(* would invalidate the iterator.                                          *)
(***************************************************************************)
IteratorsStayValid ==
    [][\A t \in Task : pc[t] \in ListingStages /\ pc'[t] = pc[t] =>
            Walked(t)' = Walked(t)]_vars

(***************************************************************************)
(* While a handler that keeps a session's lock waits at an await, nobody   *)
(* else changes that session: what it checked before is still true after.  *)
(***************************************************************************)
HeldSessionsAreStable ==
    [][\A t \in Task :
            Holding(t) /\ UNCHANGED <<pc[t], req[t], todo[t]>> =>
                UNCHANGED <<status[conn[t]], user[conn[t]], room[conn[t]]>>]_vars

(***************************************************************************)
(* ChatRoomManager.h:53: unregisterConnection gets its caller's locked     *)
(* session, which "provides access to user and room details without        *)
(* causing a deadlock".  It would if a coroutine t walks a registry, and   *)
(* so keeps the manager's lock, and has to pass the session of a coroutine *)
(* u that waits for the manager's lock to unregister.                      *)
(***************************************************************************)
UnregisterNeverDeadlocks ==
    ~ \E t, u \in Task :
        /\ pc[t] \in ListingStages
        /\ conn[u] \in todo[t] /\ conn[u] # conn[t]
        /\ At(u, "Logout", "leave") \/ At(u, "Logout", "unregister")

(***************************************************************************)
(* ChatRoomManager.h:48: unregisterConnection, called when a connection is *)
(* closed, "ensures the connection is removed from its current room (if    *)
(* any) and from the global user-to-connection map": a closed connection   *)
(* with no request in progress is in neither registry.                     *)
(***************************************************************************)
ClosedAreForgotten ==
    \A c \in Conn : link[c] = "closed" /\ (\A t \in Task : conn[t] # c) =>
        /\ \A u \in User : c \notin userConns[u]
        /\ \A r \in Room : c \notin roomConns[r]

(***************************************************************************)
(* When a connection is closed, everything that was asked over it comes to *)
(* an end, its unregistration included.  The handlers of one connection    *)
(* wait for each other, for the manager, and, in the walks over the        *)
(* registries, for themselves unless isHolding spares them.                *)
(***************************************************************************)
ClosedConnectionsDrain ==
    \A c \in Conn : link[c] = "closed" ~> \A t \in Task : conn[t] # c

=============================================================================
