----------------------------- MODULE ChatHistory -----------------------------
(***************************************************************************)
(* The chat server with two history variables: what the properties about   *)
(* users and roles except, which the state no longer shows.  They only     *)
(* record: every behaviour of ChatServer is one of HistorySpec.            *)
(***************************************************************************)
EXTENDS ChatServer

VARIABLES
    strays,     \* <<c, u>>: c was registered for u when its session began anew
    contested   \* <<u, r>>: u's cached rights in r need not be the database's

hvars == <<vars, strays, contested>>

(* handleAuthInitial and handleRegisterInitial accept a first phase from a *)
(* session that is logged in: it forgets its user, the registry does not.  *)
(* A second click on "Log in" before the answer is enough.                 *)
BeganAnew(c) == Authenticated(c) /\ status'[c] \in {"Authenticating", "Registering"}

\* t changes roles of room r: it has checked the caller's and is not done.
AssignStages == {"readOwner", "commit", "cacheOld", "cachingOld", "cacheNew", "cachingNew"}
Assigning(t, r) ==
    pc[t] \in AssignStages /\ req[t].op = "AssignRole" /\ req[t].room = r

CommitsRole(t, r) ==
    Assigning(t, r) /\ pc[t] = "commit" /\ pc'[t] \in {"cacheOld", "cacheNew"}

\* Whose role its commit changes: the target's, and for a hand-over the role
\* of the owner of that moment and of the owner that it read.
RolesChanged(t, r) ==
    {req[t].user} \cup IF req[t].role = OWNER THEN {owner[r], ownerRead[t]} \ {None} ELSE {}

\* t and another request change roles of the room at once.
Contests(t, u, r) ==
    u \in RolesChanged(t, r) /\ \E x \in Task \ {t} : Assigning(x, r)

\* An administrator gives the owner a lower role: the column rooms.owner_id,
\* which takes precedence, stays.
DemotesOwner(t, u, r) == u = req[t].user /\ u = owner[r] /\ req[t].role < OWNER

Remember ==
    /\ strays' = strays \cup
          {cu \in Conn \X User : BeganAnew(cu[1]) /\ cu[1] \in userConns[cu[2]]}
    /\ contested' = contested \cup
          {ur \in User \X Room :
              \E t \in Task :
                 /\ CommitsRole(t, ur[2])
                 /\ Contests(t, ur[1], ur[2]) \/ DemotesOwner(t, ur[1], ur[2])}

HistorySpec == /\ Init /\ strays = {} /\ contested = {}
               /\ [][Next /\ Remember]_hvars

-----------------------------------------------------------------------------
(***************************************************************************)
(* ChatRoomManager.h:146: "Maps a user's ID to the set of their active     *)
(* WebSocket connections": whoever is registered for a user is logged in   *)
(* as that user, whatever the client sends and when.  The exception: a     *)
(* connection over which a log in or a registration began anew while it    *)
(* was logged in may stay registered for the user it was then.             *)
(***************************************************************************)
UserRegistrySound ==
    \A c \in Conn, u \in User :
        c \in userConns[u] /\ <<c, u>> \notin strays => Authenticated(c) /\ user[c].id = u

\* No role of room r is being changed, and c is not on its way in or out.
RolesSettled(c, r) ==
    ~ \E t \in Task :
        /\ Holding(t)
        /\ \/ req[t].op = "AssignRole" /\ req[t].room = r
           \/ req[t].op \in {"JoinRoom", "Logout"} /\ conn[t] = c

IsStray(c) == \E u \in User : <<c, u>> \in strays

(***************************************************************************)
(* WsData.h:45: the rights a session caches are "the user's permission     *)
(* level within this specific room": once all changes of roles are done,   *)
(* they are what the database says.  The exceptions: a connection that     *)
(* began anew, which role changes of the user it was still reach; a user   *)
(* whose role one request changed while another was changing roles of the  *)
(* room, as the later update of the cached rights need not be that of the  *)
(* later commit; and an owner whom an administrator gave a lower role.     *)
(***************************************************************************)
CachedRightsAreTrue ==
    \A c \in Conn : link[c] = "open" /\ room[c] # None /\ ~IsStray(c) =>
        LET r == room[c].id
        IN  r \in rooms /\ RolesSettled(c, r) /\ <<user[c].id, r>> \notin contested =>
                room[c].rights = getUserRights(user[c].id, r, owner[r])

(***************************************************************************)
(* MessageHandlers.cpp:713: "if user is demoted later then code above will *)
(* make sure they are at least `MODERATOR`": an owner who is replaced      *)
(* keeps at least that role.  The exception: an owner by a hand-over that  *)
(* another one, which had read the owner before, did not know of.          *)
(***************************************************************************)
OldOwnersStayModerators ==
    [][\A r \in Room, u \in User :
            owner[r] = u /\ r \in rooms' /\ owner'[r] # u /\ <<u, r>> \notin contested =>
                getUserRights(u, r, owner[r])' >= MODERATOR]_hvars

=============================================================================
