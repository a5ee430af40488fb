---------------------------- MODULE RoleHandlers ----------------------------
(***************************************************************************)
(* handleAssignRole: change the role of a user in the caller's room, which *)
(* includes handing the room over.  The database part is one transaction   *)
(* at READ COMMITTED: the check, the read of the old owner and the writes  *)
(* each see what is committed at that moment.  The rights that sessions    *)
(* cache are updated afterwards, user by user and connection by connection.*)
(***************************************************************************)
EXTENDS RoomHandlers

StartAssignRole(t) ==
    Start(t, "AssignRole", Authenticated(conn[t]) /\ InRoom(conn[t], req[t].room), "check")

\* The caller's own rights are the cached ones, the target's are read.
MayAssign(t) ==
    LET mine   == room[conn[t]].rights
        target == getUserRights(req[t].user, req[t].room, owner[req[t].room])
        role   == req[t].role
    IN  /\ role < mine \/ (mine >= OWNER /\ role = OWNER)
        /\ target < mine

CheckRole(t) ==
    /\ At(t, "AssignRole", "check")
    /\ IF req[t].room \in rooms /\ MayAssign(t)
       THEN Goto(t, IF req[t].role = OWNER THEN "readOwner" ELSE "commit")
       ELSE Finish(t)
    /\ UNCHANGED <<sessions, registries, database>>

ReadOwner(t) ==
    /\ At(t, "AssignRole", "readOwner")
    /\ IF req[t].room \in rooms
       THEN /\ pc' = [pc EXCEPT ![t] = "commit"]
            /\ ownerRead' = [ownerRead EXCEPT ![t] = owner[req[t].room]]
            /\ UNCHANGED <<conn, req, todo, oldRole>>
       ELSE Finish(t)
    /\ UNCHANGED <<sessions, registries, database>>

\* updateUserRoleInDb: user_room_data has a foreign key to room_membership.
HasMembership(u, r) == membership[u, r] # "none"
updateUserRoleInDb(u, r, role) ==
    moderators' = IF role = MODERATOR THEN moderators \cup {<<u, r>>}
                                      ELSE moderators \ {<<u, r>>}

CommitRole(t) ==
    /\ At(t, "AssignRole", "commit")
    /\ req[t].role < OWNER
    /\ IF HasMembership(req[t].user, req[t].room)
       THEN /\ updateUserRoleInDb(req[t].user, req[t].room, req[t].role)
            /\ Goto(t, "cacheNew")
       ELSE Finish(t) /\ UNCHANGED moderators
    /\ UNCHANGED <<sessions, registries, accounts, rooms, spent, owner, membership>>

\* The rights left to the old owner o once n owns room r.
RightsLeft(o, n, r) == getUserRights(o, r, n)

\* (mutation: the old owner gets no row of their own)
CommitOwnerOnly(t) ==
    LET r == req[t].room
        n == req[t].user
        o == ownerRead[t]
    IN  /\ At(t, "AssignRole", "commit")
        /\ req[t].role = OWNER
        /\ IF n \in accounts /\ r \in rooms
           THEN /\ owner' = [owner EXCEPT ![r] = n]
                /\ pc' = [pc EXCEPT ![t] = IF o = None THEN "cacheNew" ELSE "cacheOld"]
                /\ oldRole' = [oldRole EXCEPT ![t] = IF o = None THEN None ELSE RightsLeft(o, n, r)]
                /\ UNCHANGED <<conn, req, todo, ownerRead>>
           ELSE Finish(t) /\ UNCHANGED owner
        /\ UNCHANGED <<sessions, registries, accounts, rooms, spent, membership, moderators>>

\* Hand the room over.  An old owner below MODERATOR gets that role, which
\* fails without a membership row and rolls everything back.  In a room
\* deleted meanwhile the update of the owner matches no row.
CommitOwner(t) ==
    LET r == req[t].room
        n == req[t].user
        o == ownerRead[t]
        demote == o # None /\ RightsLeft(o, n, r) < MODERATOR
        ok == (r \in rooms => n \in accounts) /\ (demote => HasMembership(o, r))
    IN  /\ At(t, "AssignRole", "commit")
        /\ req[t].role = OWNER
        /\ IF ok
           THEN /\ owner' = IF r \in rooms THEN [owner EXCEPT ![r] = n] ELSE owner
                /\ IF demote THEN updateUserRoleInDb(o, r, MODERATOR) ELSE UNCHANGED moderators
                /\ pc' = [pc EXCEPT ![t] = IF o = None THEN "cacheNew" ELSE "cacheOld"]
                /\ oldRole' = [oldRole EXCEPT ![t] =
                                 IF o = None THEN None
                                 ELSE IF demote THEN MODERATOR ELSE RightsLeft(o, n, r)]
                /\ UNCHANGED <<conn, req, todo, ownerRead>>
           ELSE Finish(t) /\ UNCHANGED <<owner, moderators>>
        /\ UNCHANGED <<sessions, registries, accounts, rooms, spent, membership>>

-----------------------------------------------------------------------------
(* updateUserRoomRights, first for the old owner, then for the target.     *)

CacheOld(t) ==
    /\ At(t, "AssignRole", "cacheOld")
    /\ Walk(t, userConns[ownerRead[t]], "cachingOld")
    /\ UNCHANGED <<sessions, registries, database>>

CacheNew(t) ==
    /\ At(t, "AssignRole", "cacheNew")
    /\ Walk(t, userConns[req[t].user], "cachingNew")
    /\ UNCHANGED <<sessions, registries, database>>

CacheVisit(t, d) ==
    /\ \/ At(t, "AssignRole", "cachingOld") /\ VisitUnique(t, d, req[t].room, oldRole[t])
       \/ At(t, "AssignRole", "cachingNew") /\ VisitUnique(t, d, req[t].room, req[t].role)
    /\ UNCHANGED <<link, status, user, registries, database>>

\* (mutation: only the old owner's sessions are updated)
CachedOldAndDone(t) ==
    /\ At(t, "AssignRole", "cachingOld")
    /\ todo[t] = {}
    /\ Finish(t)
    /\ UNCHANGED <<sessions, registries, database>>

CachedOld(t) ==
    /\ At(t, "AssignRole", "cachingOld")
    /\ todo[t] = {}
    /\ Goto(t, "cacheNew")
    /\ UNCHANGED <<sessions, registries, database>>

CachedNew(t) ==
    /\ At(t, "AssignRole", "cachingNew")
    /\ todo[t] = {}
    /\ Finish(t)
    /\ UNCHANGED <<sessions, registries, database>>

RoleStep(t) ==
    \/ StartAssignRole(t) \/ CheckRole(t) \/ ReadOwner(t)
    \/ CommitRole(t) \/ CommitOwner(t)
    \/ CacheOld(t) \/ CacheNew(t)
    \/ \E d \in Conn : CacheVisit(t, d)
    \/ CachedOld(t) \/ CachedNew(t)

=============================================================================
