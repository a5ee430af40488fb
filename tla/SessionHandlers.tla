-------------------------- MODULE SessionHandlers ---------------------------
(***************************************************************************)
(* The handlers that change who a session is: the two-phase log in and     *)
(* registration, log out, and the close of the connection.                 *)
(*                                                                         *)
(* Credentials are not modelled: a log in may be accepted or rejected      *)
(* (GiveUp in ChatServer) whenever the account exists.                     *)
(***************************************************************************)
EXTENDS ChatRoomManager

Me(t) == user[conn[t]]

SetStatus(c, s)  == status' = [status EXCEPT ![c] = s]
SetUser(c, n, i) == user' = [user EXCEPT ![c] = [name |-> n, id |-> i]]

-----------------------------------------------------------------------------
(* handleAuthInitial: any session whose lock is free may begin again.      *)

StartAuthInitial(t) == Start(t, "AuthInitial", TRUE, "find")

FindAccount(t) ==
    /\ At(t, "AuthInitial", "find")
    /\ IF req[t].user \in accounts
       THEN /\ SetStatus(conn[t], "Authenticating")
            /\ SetUser(conn[t], req[t].user, None)
       ELSE UNCHANGED <<status, user>>
    /\ Finish(t)
    /\ UNCHANGED <<link, room, registries, database>>

(* handleRegisterInitial                                                   *)

StartRegisterInitial(t) == Start(t, "RegisterInitial", TRUE, "find")

FindNameFree(t) ==
    /\ At(t, "RegisterInitial", "find")
    /\ IF req[t].user \notin accounts
       THEN /\ SetStatus(conn[t], "Registering")
            /\ SetUser(conn[t], req[t].user, None)
       ELSE UNCHANGED <<status, user>>
    /\ Finish(t)
    /\ UNCHANGED <<link, room, registries, database>>

-----------------------------------------------------------------------------
(* handleAuth: verify, read the rooms, set the session, then room_service  *)
(* .login registers the connection, which is a second await.               *)

StartAuth(t) == Start(t, "Auth", status[conn[t]] = "Authenticating", "verify")

\* (mutation: the session is authenticated without room_service.login)
AcceptAuthOnly(t) ==
    /\ At(t, "Auth", "verify")
    /\ Me(t).name \in accounts
    /\ SetUser(conn[t], Me(t).name, Me(t).name)
    /\ SetStatus(conn[t], "Authenticated")
    /\ Finish(t)
    /\ UNCHANGED <<link, room, registries, database>>

AcceptAuth(t) ==
    /\ At(t, "Auth", "verify")
    /\ Me(t).name \in accounts
    /\ SetUser(conn[t], Me(t).name, Me(t).name)
    /\ SetStatus(conn[t], "Authenticated")
    /\ Goto(t, "login")
    /\ UNCHANGED <<link, room, registries, database>>

\* The transaction that migrates an old password failed.
AbortAuth(t) ==
    /\ At(t, "Auth", "verify")
    /\ SetStatus(conn[t], "Unauthenticated")
    /\ Finish(t)
    /\ UNCHANGED <<link, user, room, registries, database>>

Login(t) ==
    /\ At(t, "Auth", "login")
    /\ registerConnection(Me(t).id, conn[t])
    /\ Finish(t)
    /\ UNCHANGED <<sessions, database>>

(* handleRegister: whatever becomes of the insertion, log in comes next.   *)

StartRegister(t) == Start(t, "Register", status[conn[t]] = "Registering", "insert")

InsertAccount(t) ==
    /\ At(t, "Register", "insert")
    /\ accounts' = accounts \cup {Me(t).name}
    /\ SetStatus(conn[t], "Unauthenticated")
    /\ Finish(t)
    /\ UNCHANGED <<link, user, room, registries, rooms, spent, owner, membership, moderators>>

-----------------------------------------------------------------------------
(* unregisterConnection, called by handleLogoutUser under the session's    *)
(* unique lock and by handleConnectionClosed under its shared lock.  It    *)
(* takes the manager's lock twice.                                         *)

Unregister(t) == IF room[conn[t]] # None THEN "leave" ELSE "unregister"

StartLogout(t) == Start(t, "Logout", Authenticated(conn[t]), Unregister(t))
StartClose(t)  == Start(t, "Close", TRUE, Unregister(t))

UnregisterFromRoom(t) ==
    /\ At(t, "Logout", "leave") \/ At(t, "Close", "leave")
    /\ removeConnectionFromRoom(conn[t])
    /\ Goto(t, "unregister")
    /\ UNCHANGED <<sessions, database>>

\* (mutation: the session forgets its user before the registry is told)
LogoutForgettingFirst(t) ==
    /\ At(t, "Logout", "unregister")
    /\ ManagerFree
    /\ room' = [room EXCEPT ![conn[t]] = None]
    /\ user' = [user EXCEPT ![conn[t]] = None]
    /\ SetStatus(conn[t], "Unauthenticated")
    /\ Finish(t)
    /\ UNCHANGED <<link, registries, database>>

\* (mutation: the status is not reset)
LogoutKeepingStatus(t) ==
    /\ At(t, "Logout", "unregister")
    /\ removeConnectionFromUser(conn[t])
    /\ room' = [room EXCEPT ![conn[t]] = None]
    /\ user' = [user EXCEPT ![conn[t]] = None]
    /\ Finish(t)
    /\ UNCHANGED <<link, status, database>>

Logout(t) ==
    /\ At(t, "Logout", "unregister")
    /\ removeConnectionFromUser(conn[t])
    /\ room' = [room EXCEPT ![conn[t]] = None]
    /\ user' = [user EXCEPT ![conn[t]] = None]
    /\ SetStatus(conn[t], "Unauthenticated")
    /\ Finish(t)
    /\ UNCHANGED <<link, database>>

\* The session itself is left as it is.
Close(t) ==
    /\ At(t, "Close", "unregister")
    /\ removeConnectionFromUser(conn[t])
    /\ Finish(t)
    /\ UNCHANGED <<sessions, database>>

SessionStep(t) ==
    \/ StartAuthInitial(t) \/ FindAccount(t)
    \/ StartRegisterInitial(t) \/ FindNameFree(t)
    \/ StartAuth(t) \/ AcceptAuth(t) \/ AbortAuth(t) \/ Login(t)
    \/ StartRegister(t) \/ InsertAccount(t)
    \/ StartLogout(t) \/ StartClose(t)
    \/ UnregisterFromRoom(t) \/ Logout(t) \/ Close(t)

=============================================================================
