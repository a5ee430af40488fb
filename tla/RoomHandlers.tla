---------------------------- MODULE RoomHandlers ----------------------------
(***************************************************************************)
(* The handlers about rooms: join, leave, create, delete, become a member, *)
(* and sending a message as the example of the handlers that only read     *)
(* this state under the session's shared lock.                             *)
(***************************************************************************)
EXTENDS SessionHandlers

\* (mutation: the optional role is used without value_or)
getUserRightsUnset(u, r, o) ==
    IF u \in Admins /\ u \in accounts THEN ADMIN
    ELSE IF o = u THEN OWNER
    ELSE IF <<u, r>> \in moderators THEN MODERATOR
    ELSE None

\* getUserRights(db, u, r, room object whose owner_id is o), REGULAR if unset.
getUserRights(u, r, o) ==
    IF u \in Admins /\ u \in accounts THEN ADMIN
    ELSE IF o = u THEN OWNER
    ELSE IF <<u, r>> \in moderators THEN MODERATOR
    ELSE REGULAR

SetRoom(c, value) == room' = [room EXCEPT ![c] = value]

-----------------------------------------------------------------------------
(* handleJoinRoom, under the session's unique lock throughout.             *)

StartJoin(t) ==
    Start(t, "JoinRoom", Authenticated(conn[t]),
          IF room[conn[t]] # None THEN "leave" ELSE "findRoom")

\* (mutation: the old room is forgotten without telling the manager)
JoinForgettingOldRoom(t) ==
    /\ At(t, "JoinRoom", "leave")
    /\ SetRoom(conn[t], None)
    /\ Goto(t, "findRoom")
    /\ UNCHANGED <<link, status, user, registries, database>>

JoinLeaveOldRoom(t) ==
    /\ At(t, "JoinRoom", "leave")
    /\ removeConnectionFromRoom(conn[t])
    /\ SetRoom(conn[t], None)
    /\ Goto(t, "findRoom")
    /\ UNCHANGED <<link, status, user, database>>

\* The room object read here is the one the rights are computed from later.
JoinFindRoom(t) ==
    /\ At(t, "JoinRoom", "findRoom")
    /\ IF req[t].room \in rooms
       THEN /\ pc' = [pc EXCEPT ![t] = "membership"]
            /\ ownerRead' = [ownerRead EXCEPT ![t] = owner[req[t].room]]
            /\ UNCHANGED <<conn, req, todo, oldRole>>
       ELSE Finish(t)
    /\ UNCHANGED <<sessions, registries, database>>

\* Read the membership; make it JOINED in a public room.  The result of the
\* write is ignored: in a room deleted meanwhile it changes nothing.
JoinMembership(t) ==
    LET u == Me(t).id
        r == req[t].room
        joined == membership[u, r] = "JOINED"
    IN  /\ At(t, "JoinRoom", "membership")
        /\ IF joined \/ r \notin PrivateRooms THEN Goto(t, "rights") ELSE Finish(t)
        /\ membership' = IF r \in rooms \ PrivateRooms
                         THEN [membership EXCEPT ![<<u, r>>] = "JOINED"]
                         ELSE membership
        /\ UNCHANGED <<sessions, registries, accounts, rooms, spent, owner, moderators>>

JoinSetRoom(t) ==
    /\ At(t, "JoinRoom", "rights")
    /\ SetRoom(conn[t], [id |-> req[t].room,
                         rights |-> getUserRights(Me(t).id, req[t].room, ownerRead[t])])
    /\ Goto(t, "enter")
    /\ UNCHANGED <<link, status, user, registries, database>>

JoinEnter(t) ==
    /\ At(t, "JoinRoom", "enter")
    /\ addConnectionToRoom(conn[t], req[t].room)
    /\ Goto(t, "list")
    /\ UNCHANGED <<sessions, database>>

JoinList(t) ==
    /\ At(t, "JoinRoom", "list")
    /\ Walk(t, roomConns[req[t].room], "listing")
    /\ UNCHANGED <<sessions, registries, database>>

JoinVisit(t, d) ==
    /\ At(t, "JoinRoom", "listing")
    /\ VisitShared(t, d)
    /\ UNCHANGED <<link, status, user, registries, database>>

JoinListed(t) ==
    /\ At(t, "JoinRoom", "listing")
    /\ todo[t] = {}
    /\ Finish(t)
    /\ UNCHANGED <<sessions, registries, database>>

(* handleLeaveRoom                                                         *)

StartLeave(t) ==
    Start(t, "LeaveRoom", Authenticated(conn[t]) /\ room[conn[t]] # None, "leave")

Leave(t) ==
    /\ At(t, "LeaveRoom", "leave")
    /\ removeConnectionFromRoom(conn[t])
    /\ SetRoom(conn[t], None)
    /\ Finish(t)
    /\ UNCHANGED <<link, status, user, database>>

-----------------------------------------------------------------------------
(* handleCreateRoom: one transaction; the creator's membership row gets    *)
(* the column's default, INVITED.                                          *)

StartCreateRoom(t) == Start(t, "CreateRoom", Authenticated(conn[t]), "insertRoom")

InsertRoom(t, r) ==
    /\ At(t, "CreateRoom", "insertRoom")
    /\ r \notin spent
    /\ rooms' = rooms \cup {r}
    /\ spent' = spent \cup {r}
    /\ owner' = [owner EXCEPT ![r] = Me(t).id]
    /\ membership' = [membership EXCEPT ![<<Me(t).id, r>>] = "INVITED"]
    /\ Finish(t)
    /\ UNCHANGED <<sessions, registries, accounts, moderators>>

(* handleDeleteRoom: the rows that refer to the room go with it, then the  *)
(* manager forgets it.  No session is told.                                *)

StartDeleteRoom(t) ==
    LET c == conn[t]
    IN  Start(t, "DeleteRoom",
              Authenticated(c) /\ InRoom(c, req[t].room) /\ room[c].rights >= OWNER,
              "delete")

DeleteRow(t) ==
    LET r == req[t].room
    IN  /\ At(t, "DeleteRoom", "delete")
        /\ IF r \in rooms
           THEN /\ rooms' = rooms \ {r}
                /\ owner' = [owner EXCEPT ![r] = None]
                /\ membership' = [ur \in User \X Room |->
                                    IF ur[2] = r THEN "none" ELSE membership[ur]]
                /\ moderators' = {ur \in moderators : ur[2] # r}
                /\ Goto(t, "evict")
           ELSE Finish(t) /\ UNCHANGED <<rooms, owner, membership, moderators>>
        /\ UNCHANGED <<sessions, registries, accounts, spent>>

Evict(t) ==
    /\ At(t, "DeleteRoom", "evict")
    /\ onRoomDeleted(req[t].room)
    /\ Finish(t)
    /\ UNCHANGED <<sessions, database>>

(* handleBecomeMember                                                      *)

StartBecomeMember(t) == Start(t, "BecomeMember", Authenticated(conn[t]), "join")

BecomeMember(t) ==
    LET u == Me(t).id
        r == req[t].room
    IN  /\ At(t, "BecomeMember", "join")
        /\ membership' = IF r \in rooms /\ (r \in PrivateRooms => membership[u, r] # "none")
                         THEN [membership EXCEPT ![<<u, r>>] = "JOINED"]
                         ELSE membership
        /\ Finish(t)
        /\ UNCHANGED <<sessions, registries, accounts, rooms, spent, owner, moderators>>

(* handleSendMessage: the insertion, then the broadcast.                   *)

StartSendMessage(t) ==
    Start(t, "SendMessage", Authenticated(conn[t]) /\ room[conn[t]] # None, "insertMessage")

SendMessage(t) ==
    /\ At(t, "SendMessage", "insertMessage")
    /\ Finish(t)
    /\ UNCHANGED <<sessions, registries, database>>

RoomStep(t) ==
    \/ StartJoin(t) \/ JoinLeaveOldRoom(t) \/ JoinFindRoom(t) \/ JoinMembership(t)
    \/ JoinSetRoom(t) \/ JoinEnter(t) \/ JoinList(t)
    \/ \E d \in Conn : JoinVisit(t, d)
    \/ JoinListed(t)
    \/ StartLeave(t) \/ Leave(t)
    \/ StartCreateRoom(t) \/ \E r \in Room : InsertRoom(t, r)
    \/ StartDeleteRoom(t) \/ DeleteRow(t) \/ Evict(t)
    \/ StartBecomeMember(t) \/ BecomeMember(t)
    \/ StartSendMessage(t) \/ SendMessage(t)

=============================================================================
