-------------------------- MODULE ChatRoomManager ---------------------------
(***************************************************************************)
(* server::ChatRoomManager: which connections belong to which user and     *)
(* which are in which room.  Each operation is one step under the          *)
(* manager's unique lock, except the two that walk a registry: they keep   *)
(* the lock shared while they wait for the peers' sessions one by one.     *)
(* The notifications the operations send are not part of this state.       *)
(***************************************************************************)
EXTENDS ChatState

registerConnection(u, c) ==
    /\ ManagerFree
    /\ userConns' = [userConns EXCEPT ![u] = @ \cup {c}]
    /\ UNCHANGED roomConns

\* (mutation: assignment in place of insertion)
setConnectionOfRoom(c, r) ==
    /\ ManagerFree
    /\ roomConns' = [roomConns EXCEPT ![r] = {c}]
    /\ UNCHANGED userConns

addConnectionToRoom(c, r) ==
    /\ ManagerFree
    /\ roomConns' = [roomConns EXCEPT ![r] = @ \cup {c}]
    /\ UNCHANGED userConns

\* (mutation: the manager's lock is taken shared, beside a walk)
removeConnectionBesideWalks(c) ==
    /\ roomConns' = IF user[c] # None /\ room[c] # None
                    THEN [roomConns EXCEPT ![room[c].id] = @ \ {c}]
                    ELSE roomConns
    /\ UNCHANGED userConns

removeConnectionFromRoom(c) ==
    /\ ManagerFree
    /\ roomConns' = IF user[c] # None /\ room[c] # None
                    THEN [roomConns EXCEPT ![room[c].id] = @ \ {c}]
                    ELSE roomConns
    /\ UNCHANGED userConns

\* unregisterConnection, after the room: an unset id (0) is not in the map.
removeConnectionFromUser(c) ==
    /\ ManagerFree
    /\ userConns' = IF user[c] # None /\ user[c].id # None
                    THEN [userConns EXCEPT ![user[c].id] = @ \ {c}]
                    ELSE userConns
    /\ UNCHANGED roomConns

onRoomDeleted(r) ==
    /\ ManagerFree
    /\ roomConns' = [roomConns EXCEPT ![r] = {}]
    /\ UNCHANGED userConns

\* Take the manager's lock shared and begin to walk a registry's set.
Walk(t, set, stage) ==
    /\ pc' = [pc EXCEPT ![t] = stage]
    /\ todo' = [todo EXCEPT ![t] = set]
    /\ UNCHANGED <<conn, req, ownerRead, oldRole>>

\* Pass connection d of the walk.
Pass(t, d) ==
    /\ d \in todo[t]
    /\ todo' = [todo EXCEPT ![t] = @ \ {d}]
    /\ UNCHANGED <<pc, conn, req, ownerRead, oldRole>>

\* (mutation: no isHolding test)
VisitSharedAlways(t, d) ==
    /\ CanShare(d)
    /\ Pass(t, d)
    /\ UNCHANGED room

\* getUsersInRoom: read d's session under its shared lock, or directly if
\* it is the session the caller holds.
VisitShared(t, d) ==
    /\ d = conn[t] \/ CanShare(d)
    /\ Pass(t, d)
    /\ UNCHANGED room

\* (mutation: the peer's session is locked shared)
VisitUniqueShared(t, d, r, rights) ==
    /\ d = conn[t] \/ CanShare(d)
    /\ Pass(t, d)
    /\ room' = IF InRoom(d, r) THEN [room EXCEPT ![d] = [id |-> r, rights |-> rights]]
                               ELSE room

\* updateUserRoomRights: set the rights in d's session under its unique lock,
\* or directly if it is the session the caller holds.
VisitUnique(t, d, r, rights) ==
    /\ d = conn[t] \/ CanOwn(d)
    /\ Pass(t, d)
    /\ room' = IF InRoom(d, r) THEN [room EXCEPT ![d] = [id |-> r, rights |-> rights]]
                               ELSE room

=============================================================================
