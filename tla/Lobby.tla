-------------------------------- MODULE Lobby --------------------------------
(***************************************************************************)
(* Rooms as rows and as items of the clients' lists: creating, renaming    *)
(* and deleting them, handing them over, becoming a member and entering,   *)
(* and the list that comes with a log in.  One user may have several       *)
(* connections.  Handlers read rows, await, and write them back in a       *)
(* transaction; what was written is then announced to every registered     *)
(* client.  Rooms are public, as every room the program creates.           *)
(***************************************************************************)
EXTENDS Rows, RoomsPanel, FiniteSets, Functions

CONSTANTS
    Visitor,        \* connections
    Member,         \* users who may be given a room
    RoomName,
    MaxErrands,     \* bound: what the users ask for
    MaxFaults       \* bound: writes that fail, or commits that seem to

VARIABLES
    db,             \* the tables rooms, membership and roles, and the last room id
    visit,          \* of every connection: user, room (or 0), owner: are the cached
                    \* rights those of an owner; listed: is it registered
    chores,         \* of every connection: requests on their way or in progress
    notices,        \* of every connection: what is on its way to the client
    lobby,          \* of every client: its lists of rooms and its header
    errands, faults,
    wanted,         \* history: of every room, the committed name, owner and former owners
    puzzled,        \* history: rooms of which a client may have heard too early or wrongly
    hasty           \* history: clients that selected or left while a join was under way

lobbyVars == <<db, visit, chores, notices, lobby, errands, faults, wanted, puzzled, hasty>>

Without(f, keys) == Restrict(f, DOMAIN f \ keys)

\* A request with what it does not need left blank; row, object and known, former,
\* mine and public are what its handler keeps over its awaits.
Chore(op) == [op |-> op, stage |-> "new", id |-> 0, name |-> "", user |-> 0, row |-> BlankRoom,
              known |-> FALSE, object |-> BlankMembership, former |-> 0, mine |-> <<>>, public |-> <<>>]

-----------------------------------------------------------------------------
\* Handlers of a connection exclude each other, except those that lock it shared.
Started(v) == {j \in DOMAIN chores[v] : chores[v][j].stage # "new"}
Shared(chore) == chore.op \in {"CreateRoom", "RenameRoom", "DeleteRoom", "BecomeMember"}

At(v, i, op, stage) ==
    /\ chores[v][i].op = op /\ chores[v][i].stage = stage
    /\ stage = "new" => \A j \in Started(v) : Shared(chores[v][i]) /\ Shared(chores[v][j])

Step(v, i, stage, chore) ==
    /\ chores' = [chores EXCEPT ![v][i] = [chore EXCEPT !.stage = stage]]
    /\ UNCHANGED notices

Go(v, i, stage, chore) == Step(v, i, stage, chore) /\ UNCHANGED puzzled

Reply(v, i, reply) ==
    /\ chores' = [chores EXCEPT ![v] = RemoveAt(@, i)]
    /\ notices' = [notices EXCEPT ![v] = Append(@, reply)]

Fail(v, i)    == Reply(v, i, [op |-> chores[v][i].op, ok |-> FALSE])
Refuse(v, i)  == Fail(v, i) /\ UNCHANGED puzzled
Succeed(v, i) == Reply(v, i, [op |-> chores[v][i].op, ok |-> TRUE])

\* Clients in the middle of a log in may miss it.
sendToAll(v, i, notice) ==
    /\ chores' = [chores EXCEPT ![v] = RemoveAt(@, i)]
    /\ notices' = [w \in Visitor |-> notices[w]
           \o (IF visit[w].listed THEN <<notice>> ELSE <<>>)
           \o (IF w = v THEN <<[op |-> chores[v][i].op, ok |-> TRUE]>> ELSE <<>>)]
    /\ puzzled' = puzzled \cup
           (IF \E w \in Visitor : \E j \in Started(w) : chores[w][j].op = "Auth" THEN {notice.id} ELSE {})

\* The tables become after, or the transaction fails, or only seems to.
Commit(v, i, after, id, chore, confusing) ==
    \/ /\ db' = after /\ UNCHANGED faults
       /\ Step(v, i, "tell", chore)
       /\ puzzled' = IF confusing THEN puzzled \cup {id} ELSE puzzled
    \/ /\ db' \in {db, after}
       /\ faults < MaxFaults /\ faults' = faults + 1
       /\ Fail(v, i) /\ puzzled' = puzzled \cup {id}

\* Writing no row, when the room is gone by now, is no error.
UpdatedRoom(id, row) ==
    IF id \in DOMAIN db.rooms THEN [db EXCEPT !.rooms[id] = UpdateRooms(@, row)] ELSE db

Wanted(id, changes) ==
    wanted' = IF db'.rooms = db.rooms THEN wanted ELSE With(wanted, id, changes)

-----------------------------------------------------------------------------
CreateRoom(v, i) ==
    LET id   == db.serial + 1
        user == visit[v].user
        room == setOwnerId(setRoomName(BlankRoom, chores[v][i].name), user)
    IN  /\ At(v, i, "CreateRoom", "new")
        /\ Commit(v, i, [db EXCEPT !.rooms = With(@, id, InsertRooms(room)), !.serial = id,
                                   !.membership = With(@, <<user, id>>, InsertMembership(BlankMembership))],
                  id, [chores[v][i] EXCEPT !.id = id], FALSE)
        /\ Wanted(id, [room_name |-> chores[v][i].name, owner_id |-> user, former |-> {}])
        /\ UNCHANGED <<visit, hasty>>

CreateTell(v, i) ==
    LET chore == chores[v][i]
    IN  /\ At(v, i, "CreateRoom", "tell")
        /\ sendToAll(v, i, [op |-> "NewRoomCreated", id |-> chore.id, name |-> chore.name, owner |-> visit[v].user])
        /\ UNCHANGED <<db, visit, faults, wanted, hasty>>

\* What renaming, deleting and handing over ask of the session.
MayChange(v, id) == visit[v].room = id /\ visit[v].owner

RenameRead(v, i) ==
    LET chore == chores[v][i]
    IN  /\ At(v, i, "RenameRoom", "new")
        /\ IF ~MayChange(v, chore.id) \/ chore.id \notin DOMAIN db.rooms THEN Refuse(v, i)
           ELSE Go(v, i, "write", [chore EXCEPT !.row = setRoomName(Rooms(db.rooms[chore.id]), chore.name)])
        /\ UNCHANGED <<db, visit, faults, wanted, hasty>>

\* Renames that are announced in another order than they were committed in
\* confuse the clients.
RenameWrite(v, i) ==
    LET chore == chores[v][i]
        untold == \E w \in Visitor : \E j \in Started(w) :
                     chores[w][j].op = "RenameRoom" /\ chores[w][j].id = chore.id /\ chores[w][j].stage = "tell"
    IN  /\ At(v, i, "RenameRoom", "write")
        /\ Commit(v, i, UpdatedRoom(chore.id, chore.row), chore.id, chore, untold)
        /\ Wanted(chore.id, [wanted[chore.id] EXCEPT !.room_name = chore.name])
        /\ UNCHANGED <<visit, hasty>>

RenameTell(v, i) ==
    LET chore == chores[v][i]
    IN  /\ At(v, i, "RenameRoom", "tell")
        /\ sendToAll(v, i, [op |-> "NewRoomName", id |-> chore.id, name |-> chore.name])
        /\ UNCHANGED <<db, visit, faults, wanted, hasty>>

\* Membership and roles go with the room.
DeleteRoom(v, i) ==
    LET id == chores[v][i].id
        rows(table) == {key \in DOMAIN table : key[2] = id}
    IN  /\ At(v, i, "DeleteRoom", "new")
        /\ IF ~MayChange(v, id) \/ id \notin DOMAIN db.rooms THEN Refuse(v, i) /\ UNCHANGED <<db, faults>>
           ELSE Commit(v, i, [db EXCEPT !.rooms = Without(@, {id}), !.membership = Without(@, rows(@)),
                                        !.roles = Without(@, rows(@))], id, chores[v][i], FALSE)
        /\ UNCHANGED <<visit, wanted, hasty>>

DeleteTell(v, i) ==
    /\ At(v, i, "DeleteRoom", "tell")
    /\ sendToAll(v, i, [op |-> "RoomDeleted", id |-> chores[v][i].id])
    /\ UNCHANGED <<db, visit, faults, wanted, hasty>>

-----------------------------------------------------------------------------
\* getUserMembershipStatus: what is known of a membership when it is read.
Membership(v, chore) ==
    LET key == <<visit[v].user, chore.id>>
    IN  IF key \in DOMAIN db.membership
        THEN [chore EXCEPT !.known = TRUE, !.object = RoomMembership(db.membership[key])]
        ELSE [chore EXCEPT !.known = FALSE, !.object = BlankMembership]

\* An insertion of what exists by now, or without a room, fails and is ignored.
Enrolled(v, id, known, object) ==
    LET key == <<visit[v].user, id>>
        joined == setMembershipStatus(object, "JOINED")
    IN  IF known /\ key \in DOMAIN db.membership
        THEN [db EXCEPT !.membership[key] = UpdateMembership(@, joined)]
        ELSE IF ~known /\ key \notin DOMAIN db.membership /\ id \in DOMAIN db.rooms
        THEN [db EXCEPT !.membership = With(@, key, InsertMembership(joined))]
        ELSE db

\* Any failure is ignored.
setUserMembershipStatus(v, id, chore) ==
    \/ db' = Enrolled(v, id, chore.known, chore.object) /\ UNCHANGED <<faults, puzzled>>
    \/ /\ faults < MaxFaults /\ faults' = faults + 1
       /\ UNCHANGED db /\ puzzled' = puzzled \cup {id}

BecomeMemberRead(v, i) ==
    LET chore == chores[v][i]
    IN  /\ At(v, i, "BecomeMember", "new")
        /\ IF chore.id \notin DOMAIN db.rooms THEN Refuse(v, i)
           ELSE Go(v, i, "write", Membership(v, chore))
        /\ UNCHANGED <<db, visit, faults, wanted, hasty>>

BecomeMemberWrite(v, i) ==
    /\ At(v, i, "BecomeMember", "write")
    /\ setUserMembershipStatus(v, chores[v][i].id, chores[v][i])
    /\ Succeed(v, i)
    /\ UNCHANGED <<visit, wanted, hasty>>

\* A refused visitor has left the room it was in.
JoinRead(v, i) ==
    LET id    == chores[v][i].id
        found == Membership(v, chores[v][i])
        joined == found.known /\ found.object.values.membership_status = "JOINED"
    IN  /\ At(v, i, "JoinRoom", "new")
        /\ visit' = [visit EXCEPT ![v].room = 0]
        /\ IF id \notin DOMAIN db.rooms THEN Refuse(v, i) /\ hasty' = hasty \cup {v}
           ELSE /\ Go(v, i, IF joined THEN "enter" ELSE "write", [found EXCEPT !.row = Rooms(db.rooms[id])])
                /\ UNCHANGED hasty
        /\ UNCHANGED <<db, faults, wanted>>

JoinWrite(v, i) ==
    /\ At(v, i, "JoinRoom", "write")
    /\ setUserMembershipStatus(v, chores[v][i].id, chores[v][i])
    /\ Step(v, i, "enter", chores[v][i])
    /\ UNCHANGED <<visit, wanted, hasty>>

JoinEnter(v, i) ==
    LET chore == chores[v][i]
    IN  /\ At(v, i, "JoinRoom", "enter")
        /\ visit' = [visit EXCEPT ![v] = [@ EXCEPT !.room = chore.id,
                                                   !.owner = chore.row.values.owner_id = visit[v].user]]
        /\ Succeed(v, i)
        /\ UNCHANGED <<db, faults, wanted, puzzled, hasty>>

-----------------------------------------------------------------------------
\* AssignRole with the role of the owner: the target's rights, then the row,
\* then both writes in the one transaction, then the sessions.
TransferCheck(v, i) ==
    LET chore == chores[v][i]
    IN  /\ At(v, i, "AssignRole", "new")
        /\ IF \/ ~MayChange(v, chore.id) \/ chore.id \notin DOMAIN db.rooms
              \/ db.rooms[chore.id].owner_id = chore.user
           THEN Refuse(v, i) ELSE Go(v, i, "read", chore)
        /\ UNCHANGED <<db, visit, faults, wanted, hasty>>

TransferRead(v, i) ==
    LET chore == chores[v][i]
    IN  /\ At(v, i, "AssignRole", "read")
        /\ IF chore.id \notin DOMAIN db.rooms THEN Refuse(v, i)
           ELSE Go(v, i, "write", [chore EXCEPT !.row = Rooms(db.rooms[chore.id])])
        /\ UNCHANGED <<db, visit, faults, wanted, hasty>>

\* updateUserRoleInDb, for the former owner.
Moderating(roles, key) ==
    IF key \in DOMAIN roles
    THEN [roles EXCEPT ![key] = UpdateUserRoomData(@, setIsModerator(UserRoomData(@), TRUE))]
    ELSE With(roles, key, InsertUserRoomData(setIsModerator(BlankUserRoomData, TRUE)))

TransferWrite(v, i) ==
    LET chore  == chores[v][i]
        former == chore.row.values.owner_id
        after  == UpdatedRoom(chore.id, setOwnerId(chore.row, chore.user))
    IN  /\ At(v, i, "AssignRole", "write")
        /\ IF chore.id \notin DOMAIN db.rooms THEN Refuse(v, i) /\ UNCHANGED <<db, faults>>
           ELSE Commit(v, i, IF former = chore.user THEN after
                             ELSE [after EXCEPT !.roles = Moderating(@, <<former, chore.id>>)],
                       chore.id, [chore EXCEPT !.former = former], FALSE)
        /\ Wanted(chore.id, [wanted[chore.id] EXCEPT !.owner_id = chore.user, !.former = @ \cup ({former} \ {chore.user})])
        /\ UNCHANGED <<visit, hasty>>

\* The sessions of both users, each when its lock is free, but one's own.
TransferTell(v, i) ==
    LET chore == chores[v][i]
        theirs == {w \in Visitor : visit[w].listed /\ visit[w].user \in {chore.former, chore.user}}
    IN  /\ At(v, i, "AssignRole", "tell")
        /\ \A w \in theirs \ {v} : Started(w) = {}
        /\ visit' = [w \in Visitor |-> IF w \in theirs /\ visit[w].room = chore.id
                                       THEN [visit[w] EXCEPT !.owner = visit[w].user = chore.user] ELSE visit[w]]
        /\ Succeed(v, i)
        /\ UNCHANGED <<db, faults, wanted, puzzled, hasty>>

-----------------------------------------------------------------------------
Joined(user) == {id \in DOMAIN db.rooms : <<user, id>> \in DOMAIN db.membership
                                          /\ db.membership[<<user, id>>].membership_status = "JOINED"}

\* A log in: the list, in no order, the registration with the room service, the
\* answer.  A room that is yet to be announced will be listed twice.
AuthList(v, i) ==
    LET mine == Joined(visit[v].user)
        untold == UNION {{chores[w][j].id : j \in {k \in Started(w) : chores[w][k].op = "CreateRoom"}} : w \in Visitor}
        items(ids) == SetToSeq({Item(id, db.rooms[id].room_name) : id \in ids})
    IN  /\ At(v, i, "Auth", "new")
        /\ Step(v, i, "register", [chores[v][i] EXCEPT !.mine = items(mine), !.public = items(DOMAIN db.rooms \ mine)])
        /\ puzzled' = puzzled \cup untold
        /\ UNCHANGED <<db, visit, faults, wanted, hasty>>

AuthRegister(v, i) ==
    /\ At(v, i, "Auth", "register")
    /\ visit' = [visit EXCEPT ![v].listed = TRUE]
    /\ Go(v, i, "answer", chores[v][i])
    /\ UNCHANGED <<db, faults, wanted, hasty>>

AuthReply(v, i) ==
    LET chore == chores[v][i]
    IN  /\ At(v, i, "Auth", "answer")
        /\ Reply(v, i, [op |-> "Auth", ok |-> TRUE, mine |-> chore.mine, public |-> chore.public, user |-> visit[v].user])
        /\ UNCHANGED <<db, visit, faults, wanted, puzzled, hasty>>

HandleRooms(v) ==
    /\ \E i \in DOMAIN chores[v] :
          \/ CreateRoom(v, i) \/ CreateTell(v, i)
          \/ RenameRead(v, i) \/ RenameWrite(v, i) \/ RenameTell(v, i)
          \/ DeleteRoom(v, i) \/ DeleteTell(v, i)
          \/ BecomeMemberRead(v, i) \/ BecomeMemberWrite(v, i)
          \/ JoinRead(v, i) \/ JoinWrite(v, i) \/ JoinEnter(v, i)
          \/ TransferCheck(v, i) \/ TransferRead(v, i) \/ TransferWrite(v, i) \/ TransferTell(v, i)
          \/ AuthList(v, i) \/ AuthRegister(v, i) \/ AuthReply(v, i)
    /\ UNCHANGED <<lobby, errands>>

-----------------------------------------------------------------------------
\* The client.
Ask(v, request) == chores' = [chores EXCEPT ![v] = Append(@, request)]
Inside(v)  == lobby[v].page \in {"rooms", "chat"}
Joining(v) == \E message \in ToSet(chores[v]) \cup ToSet(notices[v]) : message.op \in {"JoinRoom", "BecomeMember"}
Hasten(v)  == hasty' = IF Joining(v) THEN hasty \cup {v} ELSE hasty
Put(v, panel) == lobby' = [lobby EXCEPT ![v] = panel]

Errand(v, request) ==
    /\ errands < MaxErrands /\ errands' = errands + 1
    /\ Ask(v, request)
    /\ UNCHANGED <<db, visit, notices, faults, wanted, puzzled>>

Looking(v, panel) ==
    /\ Inside(v) /\ panel # lobby[v]
    /\ Put(v, panel) /\ Hasten(v)
    /\ UNCHANGED <<db, visit, chores, notices, errands, faults, wanted, puzzled>>

OnPageChanged(v, tab)        == Looking(v, [lobby[v] EXCEPT !.tab = tab])
OnPublicRoomSelected(v, i)   == Looking(v, Select(lobby[v], "public", i))

OnMyRoomSelected(v, i) ==
    /\ Inside(v) /\ Hasten(v)
    /\ Put(v, Select(lobby[v], "mine", i))
    /\ Errand(v, [Chore("JoinRoom") EXCEPT !.id = lobby[v].list.mine[i].id])

OnJoin(v) ==
    /\ Inside(v) /\ HasSelected(lobby[v]) /\ lobby[v].tab = "public"
    /\ Errand(v, [Chore("JoinRoom") EXCEPT !.id = GetSelectedRoom(lobby[v]).id])
    /\ Hasten(v) /\ UNCHANGED lobby

OnCreate(v, name) ==
    /\ Inside(v)
    /\ Errand(v, [Chore("CreateRoom") EXCEPT !.name = name])
    /\ UNCHANGED <<lobby, hasty>>

\* What the settings of the shown room, and its list of users, ask for.
InChat(v, request) ==
    /\ lobby[v].page = "chat"
    /\ Errand(v, [request EXCEPT !.id = lobby[v].header.id])
    /\ UNCHANGED <<lobby, hasty>>

OnRename(v, name)            == InChat(v, [Chore("RenameRoom") EXCEPT !.name = name])
OnDelete(v)                  == InChat(v, Chore("DeleteRoom"))
OnTransferOwnership(v, user) == InChat(v, [Chore("AssignRole") EXCEPT !.user = user])

Visit(v) ==
    \/ \E tab \in {"mine", "public"} : OnPageChanged(v, tab)
    \/ \E i \in DOMAIN lobby[v].list.public : OnPublicRoomSelected(v, i)
    \/ \E i \in DOMAIN lobby[v].list.mine : OnMyRoomSelected(v, i)
    \/ OnJoin(v) \/ OnDelete(v)
    \/ \E name \in RoomName : OnCreate(v, name) \/ OnRename(v, name)
    \/ \E user \in Member \ {lobby[v].me} : OnTransferOwnership(v, user)

Look(v, panel) == Put(v, panel) /\ UNCHANGED <<chores, hasty>>

\* The owner's clients enter the new room at once.
NewRoomCreated(v, notice) ==
    LET owner == notice.owner = lobby[v].me
    IN  /\ Put(v, AddRoom(lobby[v], Item(notice.id, notice.name), owner))
        /\ IF owner THEN Ask(v, [Chore("JoinRoom") EXCEPT !.id = notice.id]) /\ Hasten(v)
           ELSE UNCHANGED <<chores, hasty>>

NewRoomName(v, notice) ==
    Look(v, RenameRoom(SetRoomName(lobby[v], notice.id, notice.name), notice.id, notice.name))

RoomDeleted(v, notice) ==
    LET panel == IF lobby[v].page = "chat" /\ lobby[v].header.id = notice.id THEN ShowRooms(lobby[v]) ELSE lobby[v]
    IN  Look(v, RemoveRoom(panel, notice.id))

JoinRoomResponse(v) ==
    /\ Put(v, ShowChat(lobby[v])) /\ UNCHANGED hasty
    /\ IF OnJoinRoom(lobby[v]) THEN Ask(v, [Chore("BecomeMember") EXCEPT !.id = GetSelectedRoom(lobby[v]).id])
       ELSE UNCHANGED chores

AuthResponse(v, notice) ==
    Look(v, ShowRooms(UpdateRoomList([lobby[v] EXCEPT !.me = notice.user], notice.mine, notice.public)))

\* A refusal is only shown.
Hear(v) ==
    LET notice == Head(notices[v])
    IN  /\ notices[v] # <<>> /\ lobby[v].page # "ended"
        /\ notices' = [notices EXCEPT ![v] = Tail(@)]
        /\ CASE notice.op = "NewRoomCreated"            -> NewRoomCreated(v, notice)
             [] notice.op = "NewRoomName"               -> NewRoomName(v, notice)
             [] notice.op = "RoomDeleted"               -> RoomDeleted(v, notice)
             [] notice.op = "JoinRoom" /\ notice.ok     -> JoinRoomResponse(v)
             [] notice.op = "BecomeMember" /\ notice.ok -> Look(v, OnBecameMember(lobby[v]))
             [] notice.op = "DeleteRoom" /\ notice.ok   -> Look(v, ShowRooms(lobby[v]))
             [] notice.op = "Auth"                      -> AuthResponse(v, notice)
             [] OTHER -> Look(v, lobby[v])
        /\ UNCHANGED <<db, visit, errands, faults, wanted, puzzled>>

NextLobby == \E v \in Visitor : HandleRooms(v) \/ Visit(v) \/ Hear(v)

-----------------------------------------------------------------------------
RoomRow == [room_name : RoomName, owner_id : Nat]

\* Rooms and their members, as the tables' keys have them.
InitTables ==
    /\ db = [rooms |-> db.rooms, serial |-> db.serial, membership |-> db.membership, roles |-> db.roles]
    /\ db.serial \in Nat /\ DOMAIN db.rooms \subseteq 1 .. db.serial
    /\ db.rooms = [id \in DOMAIN db.rooms |-> db.rooms[id]]
    /\ \A id \in DOMAIN db.rooms : db.rooms[id] \in RoomRow
    /\ \A key \in DOMAIN db.membership :
          key \in Nat \X DOMAIN db.rooms /\ db.membership[key] \in [membership_status : {"INVITED", "JOINED"}]
    /\ \A key \in DOMAIN db.roles :
          key \in Nat \X DOMAIN db.rooms /\ db.roles[key] \in [is_moderator : BOOLEAN]

Lists(items, ids) ==
    LET rooms == {Item(id, db.rooms[id].room_name) : id \in ids}
    IN  items \in Seq(rooms) /\ IsInjective(items) /\ ToSet(items) = rooms

\* A client that has nothing to hear, in the list of rooms or in a room.
Arrived(v) ==
    LET user == visit[v].user
        panel == lobby[v]
    IN  /\ visit[v].listed /\ chores[v] = <<>>
        /\ panel = [page |-> panel.page, me |-> user, tab |-> panel.tab, header |-> panel.header,
                    list |-> [mine |-> panel.list.mine, public |-> panel.list.public],
                    selected |-> [mine |-> panel.selected.mine, public |-> panel.selected.public]]
        /\ panel.tab \in {"mine", "public"} /\ panel.header \in [id : Nat, name : RoomName \cup {""}]
        /\ \A tab \in {"mine", "public"} : panel.selected[tab] \in 0 .. Len(panel.list[tab])
        /\ Lists(panel.list.mine, Joined(user)) /\ Lists(panel.list.public, DOMAIN db.rooms \ Joined(user))
        /\ \/ panel.page = "rooms" /\ visit[v].room = 0
           \/ /\ panel.page = "chat" /\ visit[v].room = panel.header.id
              /\ panel.header \in ToSet(panel.list.mine)
              /\ visit[v].owner = (db.rooms[visit[v].room].owner_id = user)

\* A client that has not logged in yet, or whose log in is on its way.
Outside(v) ==
    /\ ~visit[v].listed /\ visit[v].room = 0 /\ ~visit[v].owner
    /\ lobby[v] = NewLobby(0) /\ chores[v] \in {<<>>, <<Chore("Auth")>>}

InitLobby ==
    /\ InitTables
    /\ visit \in [Visitor -> [user : Nat \ {0}, listed : BOOLEAN, room : Nat, owner : BOOLEAN]]
    /\ \A v \in Visitor : Arrived(v) \/ Outside(v)
    /\ chores = [v \in Visitor |-> chores[v]] /\ lobby = [v \in Visitor |-> lobby[v]]
    /\ notices = [v \in Visitor |-> <<>>]
    /\ wanted = [id \in DOMAIN db.rooms |->
           [room_name |-> db.rooms[id].room_name, owner_id |-> db.rooms[id].owner_id, former |-> {}]]
    /\ errands = 0 /\ faults = 0 /\ puzzled = {} /\ hasty = {}

SpecLobby == InitLobby /\ [][NextLobby]_lobbyVars

-----------------------------------------------------------------------------
(***************************************************************************)
(* A room's row has the name it was last given and the owner it was last   *)
(* handed to, whichever of a rename and a transfer read the row first, and *)
(* those it was taken from, as the handlers knew them, are moderators.     *)
(***************************************************************************)
ColumnsAreKept ==
    \A id \in DOMAIN db.rooms :
        LET row == db.rooms[id]
        IN  /\ row.room_name = wanted[id].room_name /\ row.owner_id = wanted[id].owner_id
            /\ \A user \in wanted[id].former :
                  <<user, id>> \in DOMAIN db.roles /\ db.roles[<<user, id>>].is_moderator

\* Nothing is on its way to the client, from it, or about to be announced.
Settled(v) ==
    /\ notices[v] = <<>> /\ chores[v] = <<>> /\ Inside(v)
    /\ \A w \in Visitor : \A chore \in ToSet(chores[w]) : chore.stage # "tell"

(***************************************************************************)
(* Once a client has heard everything, it lists every room of the database *)
(* once and no other, by its name; among its own rooms only those its user *)
(* has joined; and the room it shows is the one the server has it in.      *)
(* Rooms are left out that were renamed twice at once, created, renamed or *)
(* deleted during a log in, or whose commit was reported as failed; and    *)
(* clients that turned elsewhere during a join are only held to the list.  *)
(***************************************************************************)
RoomsAreTrue ==
    \A v \in Visitor : Settled(v) =>
        LET panel == lobby[v]
            ids   == {item.id : item \in ToSet(panel.list.mine \o panel.list.public)}
        IN  /\ \A id \in (ids \cup DOMAIN db.rooms) \ puzzled :
                  /\ Cardinality(Indices(panel, "mine", id)) + Cardinality(Indices(panel, "public", id))
                         = (IF id \in DOMAIN db.rooms THEN 1 ELSE 0)
                  /\ \A item \in ToSet(panel.list.mine \o panel.list.public) :
                        item.id = id => item.name = db.rooms[id].room_name
            /\ v \notin hasty =>
                  /\ \A item \in ToSet(panel.list.mine) : item.id \notin puzzled =>
                        <<panel.me, item.id>> \in DOMAIN db.membership
                        /\ db.membership[<<panel.me, item.id>>].membership_status = "JOINED"
                  /\ panel.page = "chat" /\ panel.header.id \notin puzzled =>
                        /\ panel.header.id = visit[v].room
                        /\ panel.header.name = db.rooms[panel.header.id].room_name

=============================================================================
