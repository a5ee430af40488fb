------------------------------ MODULE TablesProofs -----------------------------
(***************************************************************************)
(* For any number of visitors, rooms, connections, accounts and requests:  *)
(* rows keep what was written to them, however the handlers overlap that   *)
(* read a row, await and write it.                                         *)
(*                                                                         *)
(* Rooms.  ChoreSound says that the object with which a handler waits for  *)
(* its turn to write has set only the column it was asked to change, and   *)
(* to what it was asked for; TablesInv, that ids of rooms are never given  *)
(* out twice, or the history of a deleted room would be taken for that of  *)
(* a new one.  ColumnsAreKept follows.                                     *)
(*                                                                         *)
(* Accounts.  TaskSound says what a request keeps from the step that made  *)
(* it to the one that ends it: the hash and the salt of a new password     *)
(* belong together, and an object has set the columns its handler is asked *)
(* to change.  With RowsHold and MigratesHold, about the rows and the log  *)
(* ins about to write one, PasswordsHold is inductive.  For NamesAreTrue   *)
(* the invariant says where an account's present name is when a client     *)
(* does not show it: a rename is about to tell it (Telling), or it is      *)
(* among the answers on their way, behind the one that says otherwise      *)
(* (Hears).  AloneInv and ListedInv are why: a second rename or log in of  *)
(* the account would have put it among the renamed, and whoever was told a *)
(* name hears of its changes.                                              *)
(*                                                                         *)
(* Lists of rooms.  The last section holds what RoomsProofs builds on: the *)
(* parts of its invariant, what adding, renaming and removing do to a      *)
(* list, and what each step of a handler does to rows and notices.         *)
(***************************************************************************)
EXTENDS Accounts, Lobby, TLAPS, FiniteSetTheorems, SequenceTheorems, WellFoundedInduction

ChoreFields == {"op", "stage", "id", "name", "user", "row", "known", "object", "former", "mine", "public"}
RoomColumns == {"room_name", "owner_id"}

\* The object of a request that is about to write its room.
ChoreSound(chore) ==
    /\ DOMAIN chore = ChoreFields
    /\ chore.op = "RenameRoom" /\ chore.stage = "write" =>
          chore.row.dirty = {"room_name"} /\ chore.row.values.room_name = chore.name
    /\ chore.op = "AssignRole" /\ chore.stage = "write" =>
          chore.row.dirty = {} /\ DOMAIN chore.row.values = RoomColumns

IsSeq(s) == \E S : s \in Seq(S)

ChoresInv ==
    /\ chores = [v \in Visitor |-> chores[v]]
    /\ \A v \in Visitor : IsSeq(chores[v]) /\ \A i \in DOMAIN chores[v] : ChoreSound(chores[v][i])

TablesInv ==
    /\ DOMAIN db = {"rooms", "serial", "membership", "roles"}
    /\ db.serial \in Nat /\ DOMAIN db.rooms \subseteq 1 .. db.serial
    /\ \A id \in DOMAIN db.rooms : DOMAIN db.rooms[id] = RoomColumns
    /\ \A key \in DOMAIN db.roles : DOMAIN db.roles[key] = {"is_moderator"}
    /\ DOMAIN db.rooms \subseteq DOMAIN wanted
    /\ \A id \in DOMAIN wanted : DOMAIN wanted[id] = {"room_name", "owner_id", "former"}

LobbyInv == ChoresInv /\ TablesInv /\ ColumnsAreKept

-----------------------------------------------------------------------------
(***************************************************************************)
(* Sequences of requests.                                                  *)
(***************************************************************************)

LEMMA RemoveOne ==
    ASSUME NEW S, NEW s \in Seq(S), NEW i \in 1 .. Len(s)
    PROVE  /\ RemoveAt(s, i) \in Seq(S)
           /\ Len(RemoveAt(s, i)) = Len(s) - 1
           /\ \A j \in 1 .. Len(s) - 1 : RemoveAt(s, i)[j] = IF j < i THEN s[j] ELSE s[j + 1]
<1> DEFINE front == SubSeq(s, 1, i - 1)
           back  == SubSeq(s, i + 1, Len(s))
<1>1. front \in Seq(S) /\ Len(front) = i - 1 /\ \A j \in 1 .. i - 1 : front[j] = s[j]
  OBVIOUS
<1>2. back \in Seq(S) /\ Len(back) = Len(s) - i /\ \A j \in 1 .. Len(s) - i : back[j] = s[i + j]
  OBVIOUS
<1>3. RemoveAt(s, i) = front \o back
  BY DEF RemoveAt
<1> HIDE DEF front, back
<1>4. /\ front \o back \in Seq(S) /\ Len(front \o back) = Len(s) - 1
      /\ \A j \in 1 .. Len(s) - 1 : (front \o back)[j] = IF j <= i - 1 THEN front[j] ELSE back[j - (i - 1)]
  <2>1. /\ front \o back \in Seq(S) /\ Len(front \o back) = Len(front) + Len(back)
        /\ \A j \in 1 .. Len(front) + Len(back) :
              (front \o back)[j] = IF j <= Len(front) THEN front[j] ELSE back[j - Len(front)]
    BY <1>1, <1>2, ConcatProperties
  <2>2. Len(front) = i - 1 /\ Len(front) + Len(back) = Len(s) - 1
    BY <1>1, <1>2
  <2> QED
    BY <2>1, <2>2
<1>5. ASSUME NEW j \in 1 .. Len(s) - 1 PROVE RemoveAt(s, i)[j] = IF j < i THEN s[j] ELSE s[j + 1]
  <2>1. CASE j < i
    BY <1>1, <1>3, <1>4, <2>1
  <2>2. CASE ~(j < i)
    <3>1. RemoveAt(s, i)[j] = back[j - (i - 1)]
      BY <1>3, <1>4, <2>2
    <3>2. j - (i - 1) \in 1 .. Len(s) - i /\ i + (j - (i - 1)) = j + 1
      BY <2>2
    <3>3. back[j - (i - 1)] = s[i + (j - (i - 1))]
      BY <1>2, <3>2
    <3> QED
      BY <2>2, <3>1, <3>2, <3>3
  <2> QED
    BY <2>1, <2>2
<1> QED
  BY <1>3, <1>4, <1>5

LEMMA AppendOne ==
    ASSUME NEW s, IsSeq(s), NEW e
    PROVE  /\ IsSeq(Append(s, e))
           /\ \A i \in DOMAIN Append(s, e) : Append(s, e)[i] = e \/ (i \in DOMAIN s /\ Append(s, e)[i] = s[i])
<1>1. PICK S : s \in Seq(S)
  BY DEF IsSeq
<1> DEFINE T == S \cup {e}
<1>2. s \in Seq(T) /\ e \in T
  BY <1>1
<1>3. /\ Append(s, e) \in Seq(T) /\ Len(Append(s, e)) = Len(s) + 1
      /\ \A i \in 1 .. Len(s) : Append(s, e)[i] = s[i]
      /\ Append(s, e)[Len(s) + 1] = e
  BY <1>2, AppendProperties
<1>4. DOMAIN Append(s, e) = 1 .. Len(s) + 1 /\ DOMAIN s = 1 .. Len(s) /\ Len(s) \in Nat
  BY <1>2, <1>3
<1> QED
  BY <1>3, <1>4 DEF IsSeq

LEMMA RemoveAny ==
    ASSUME NEW s, IsSeq(s), NEW i \in DOMAIN s
    PROVE  /\ IsSeq(RemoveAt(s, i))
           /\ \A j \in DOMAIN RemoveAt(s, i) : \E k \in DOMAIN s : RemoveAt(s, i)[j] = s[k]
<1>1. PICK S : s \in Seq(S)
  BY DEF IsSeq
<1>2. DOMAIN s = 1 .. Len(s) /\ Len(s) \in Nat /\ i \in 1 .. Len(s)
  BY <1>1
<1>3. /\ RemoveAt(s, i) \in Seq(S) /\ Len(RemoveAt(s, i)) = Len(s) - 1
      /\ \A j \in 1 .. Len(s) - 1 : RemoveAt(s, i)[j] = IF j < i THEN s[j] ELSE s[j + 1]
  BY <1>1, <1>2, RemoveOne
<1>4. DOMAIN RemoveAt(s, i) = 1 .. Len(s) - 1
  BY <1>2, <1>3
<1>5. ASSUME NEW j \in 1 .. Len(s) - 1 PROVE \E k \in DOMAIN s : RemoveAt(s, i)[j] = s[k]
  <2>1. j \in DOMAIN s /\ j + 1 \in DOMAIN s
    BY <1>2
  <2> QED
    BY <1>3, <2>1
<1>6. IsSeq(RemoveAt(s, i))
  BY <1>3 DEF IsSeq
<1> QED
  BY <1>4, <1>5, <1>6

LEMMA ReplaceOne ==
    ASSUME NEW s, IsSeq(s), NEW i \in DOMAIN s, NEW e
    PROVE  /\ IsSeq([s EXCEPT ![i] = e]) /\ DOMAIN [s EXCEPT ![i] = e] = DOMAIN s
           /\ \A j \in DOMAIN s : [s EXCEPT ![i] = e][j] = IF j = i THEN e ELSE s[j]
<1>1. PICK S : s \in Seq(S)
  BY DEF IsSeq
<1> DEFINE T == S \cup {e}
<1>2. s \in Seq(T) /\ e \in T
  BY <1>1
<1>3. [s EXCEPT ![i] = e] \in Seq(T)
  BY <1>2
<1> QED
  BY <1>3 DEF IsSeq

-----------------------------------------------------------------------------
(***************************************************************************)
(* How the requests may change.                                            *)
(***************************************************************************)

LEMMA Stepped ==
    ASSUME ChoresInv, NEW v \in Visitor, NEW i \in DOMAIN chores[v], NEW stage, NEW chore,
           Step(v, i, stage, chore), ChoreSound([chore EXCEPT !.stage = stage])
    PROVE  ChoresInv'
<1> DEFINE new  == [chore EXCEPT !.stage = stage]
           mine == [chores[v] EXCEPT ![i] = new]
<1>1. chores' = [chores EXCEPT ![v] = mine]
  BY DEF Step
<1>2. IsSeq(chores[v]) /\ \A j \in DOMAIN chores[v] : ChoreSound(chores[v][j])
  BY DEF ChoresInv
<1>3. ChoreSound(new)
  OBVIOUS
<1> HIDE DEF new
<1>4. IsSeq(mine) /\ DOMAIN mine = DOMAIN chores[v]
      /\ \A j \in DOMAIN chores[v] : mine[j] = IF j = i THEN new ELSE chores[v][j]
  BY <1>2, ReplaceOne
<1>5. \A j \in DOMAIN mine : ChoreSound(mine[j])
  BY <1>2, <1>3, <1>4
<1> HIDE DEF mine
<1> QED
  BY <1>1, <1>4, <1>5 DEF ChoresInv

LEMMA Removed ==
    ASSUME ChoresInv, NEW v \in Visitor, NEW i \in DOMAIN chores[v],
           chores' = [chores EXCEPT ![v] = RemoveAt(@, i)]
    PROVE  ChoresInv'
<1> DEFINE mine == RemoveAt(chores[v], i)
<1>1. chores' = [chores EXCEPT ![v] = mine]
  OBVIOUS
<1>2. IsSeq(chores[v]) /\ \A j \in DOMAIN chores[v] : ChoreSound(chores[v][j])
  BY DEF ChoresInv
<1>3. IsSeq(mine) /\ \A j \in DOMAIN mine : \E k \in DOMAIN chores[v] : mine[j] = chores[v][k]
  BY <1>2, RemoveAny
<1>4. \A j \in DOMAIN mine : ChoreSound(mine[j])
  BY <1>2, <1>3
<1> HIDE DEF mine
<1> QED
  BY <1>1, <1>3, <1>4 DEF ChoresInv

LEMMA Asked ==
    ASSUME ChoresInv, NEW v \in Visitor, NEW request, Ask(v, request), ChoreSound(request)
    PROVE  ChoresInv'
<1> DEFINE mine == Append(chores[v], request)
<1>1. chores' = [chores EXCEPT ![v] = mine]
  BY DEF Ask
<1>2. IsSeq(chores[v]) /\ \A j \in DOMAIN chores[v] : ChoreSound(chores[v][j])
  BY DEF ChoresInv
<1>3. IsSeq(mine) /\ \A j \in DOMAIN mine :
          mine[j] = request \/ (j \in DOMAIN chores[v] /\ mine[j] = chores[v][j])
  BY <1>2, AppendOne
<1>4. \A j \in DOMAIN mine : ChoreSound(mine[j])
  BY <1>2, <1>3
<1> HIDE DEF mine
<1> QED
  BY <1>1, <1>3, <1>4 DEF ChoresInv

LEMMA Committed ==
    ASSUME ChoresInv, NEW v \in Visitor, NEW i \in DOMAIN chores[v],
           NEW after, NEW id, NEW chore, NEW confusing,
           Commit(v, i, after, id, chore, confusing), ChoreSound([chore EXCEPT !.stage = "tell"])
    PROVE  ChoresInv' /\ db' \in {db, after}
<1>1. CASE Step(v, i, "tell", chore) /\ db' = after
  BY <1>1, Stepped
<1>2. CASE chores' = [chores EXCEPT ![v] = RemoveAt(@, i)] /\ db' \in {db, after}
  BY <1>2, Removed
<1> QED
  BY <1>1, <1>2 DEF Commit, Fail, Reply

-----------------------------------------------------------------------------
(***************************************************************************)
(* How the tables may change.                                              *)
(***************************************************************************)

\* The rooms and roles stay as they are.
QuietTables ==
    /\ DOMAIN db' = DOMAIN db
    /\ db'.rooms = db.rooms /\ db'.roles = db.roles /\ db'.serial = db.serial
    /\ UNCHANGED wanted

LEMMA QuietKeeps ==
    ASSUME TablesInv, ColumnsAreKept, QuietTables
    PROVE  TablesInv' /\ ColumnsAreKept'
BY DEF TablesInv, ColumnsAreKept, QuietTables

\* The row of a new room.
LEMMA InsertedRoom ==
    ASSUME NEW name, NEW user
    PROVE  LET row == InsertRooms(setOwnerId(setRoomName(BlankRoom, name), user))
           IN  DOMAIN row = RoomColumns /\ row.room_name = name /\ row.owner_id = user
BY DEF InsertRooms, Inserted, setOwnerId, setRoomName, Set, BlankRoom, Read, RoomColumns

\* An update writes what was set, and nothing else.
LEMMA UpdatedRow ==
    ASSUME NEW row, DOMAIN row = RoomColumns, NEW object
    PROVE  LET new == UpdateRooms(row, object)
           IN  /\ DOMAIN new = RoomColumns
               /\ new.room_name = IF "room_name" \in object.dirty THEN object.values.room_name ELSE row.room_name
               /\ new.owner_id = IF "owner_id" \in object.dirty THEN object.values.owner_id ELSE row.owner_id
BY DEF UpdateRooms, Updated, updateColumns, RoomColumns

LEMMA RoomAdded ==
    ASSUME TablesInv, ColumnsAreKept, NEW id, id = db.serial + 1, NEW name, NEW user, NEW members,
           NEW row, DOMAIN row = RoomColumns, row.room_name = name, row.owner_id = user,
           db' \in {db, [db EXCEPT !.rooms = With(@, id, row), !.serial = id, !.membership = members]},
           Wanted(id, [room_name |-> name, owner_id |-> user, former |-> {}])
    PROVE  TablesInv' /\ ColumnsAreKept'
<1> DEFINE due == [room_name |-> name, owner_id |-> user, former |-> {}]
<1>1. CASE db' = db
  BY <1>1, QuietKeeps DEF QuietTables, Wanted
<1>2. CASE db' # db
  <2>2. id \notin DOMAIN db.rooms /\ id \in Nat /\ DOMAIN db.rooms \subseteq 1 .. id /\ id \in 1 .. id
    BY DEF TablesInv
  <2>3. /\ DOMAIN db' = DOMAIN db /\ db'.rooms = With(db.rooms, id, row)
        /\ db'.serial = id /\ db'.roles = db.roles
    BY <1>2 DEF TablesInv
  <2>4. DOMAIN db'.rooms = DOMAIN db.rooms \cup {id}
        /\ \A other \in DOMAIN db'.rooms : db'.rooms[other] = IF other = id THEN row ELSE db.rooms[other]
    BY <2>3 DEF With
  <2>5. wanted' = With(wanted, id, due)
    BY <2>2, <2>4 DEF Wanted
  <2>6. DOMAIN wanted' = DOMAIN wanted \cup {id}
        /\ \A other \in DOMAIN wanted' : wanted'[other] = IF other = id THEN due ELSE wanted[other]
    BY <2>5 DEF With
  <2>7. TablesInv'
    BY <2>2, <2>3, <2>4, <2>6 DEF TablesInv
  <2>8. ColumnsAreKept'
    BY <2>3, <2>4, <2>6 DEF TablesInv, ColumnsAreKept
  <2> QED
    BY <2>7, <2>8
<1> QED
  BY <1>1, <1>2

\* A rename: the object has set the name only.
LEMMA RoomRenamed ==
    ASSUME TablesInv, ColumnsAreKept, NEW id, NEW row, NEW name,
           row.dirty = {"room_name"}, row.values.room_name = name,
           db' \in {db, UpdatedRoom(id, row)}, Wanted(id, [wanted[id] EXCEPT !.room_name = name])
    PROVE  TablesInv' /\ ColumnsAreKept'
<1>1. CASE db' = db
  BY <1>1, QuietKeeps DEF QuietTables, Wanted
<1>2. CASE db' # db
  <2>1. id \in DOMAIN db.rooms /\ db' = [db EXCEPT !.rooms[id] = UpdateRooms(@, row)]
    BY <1>2 DEF UpdatedRoom
  <2> DEFINE new == UpdateRooms(db.rooms[id], row)
  <2>2. DOMAIN new = RoomColumns /\ new.room_name = name /\ new.owner_id = db.rooms[id].owner_id
    BY <2>1, UpdatedRow DEF TablesInv
  <2> HIDE DEF new
  <2>3. /\ DOMAIN db' = DOMAIN db /\ db'.rooms = [db.rooms EXCEPT ![id] = new]
        /\ db'.serial = db.serial /\ db'.roles = db.roles
    BY <2>1 DEF TablesInv, new
  <2>4. DOMAIN db'.rooms = DOMAIN db.rooms
        /\ \A other \in DOMAIN db.rooms : db'.rooms[other] = IF other = id THEN new ELSE db.rooms[other]
    BY <2>1, <2>3
  <2> DEFINE due == [wanted[id] EXCEPT !.room_name = name]
  <2>5. DOMAIN due = DOMAIN wanted[id] /\ due.room_name = name
        /\ due.owner_id = wanted[id].owner_id /\ due.former = wanted[id].former
    BY <2>1 DEF TablesInv
  <2> HIDE DEF due
  <2>6. \/ UNCHANGED wanted /\ db'.rooms = db.rooms
        \/ /\ DOMAIN wanted' = DOMAIN wanted
           /\ \A other \in DOMAIN wanted : wanted'[other] = IF other = id THEN due ELSE wanted[other]
    BY <2>1 DEF Wanted, With, TablesInv, due
  <2>7. CASE UNCHANGED wanted /\ db'.rooms = db.rooms
    BY <2>3, <2>7, QuietKeeps DEF QuietTables
  <2>8. CASE /\ DOMAIN wanted' = DOMAIN wanted
             /\ \A other \in DOMAIN wanted : wanted'[other] = IF other = id THEN due ELSE wanted[other]
    <3>1. TablesInv'
      BY <2>1, <2>2, <2>3, <2>4, <2>5, <2>8 DEF TablesInv
    <3>2. ColumnsAreKept'
      BY <2>1, <2>2, <2>3, <2>4, <2>5, <2>8 DEF TablesInv, ColumnsAreKept
    <3> QED
      BY <3>1, <3>2
  <2> QED
    BY <2>6, <2>7, <2>8
<1> QED
  BY <1>1, <1>2

LEMMA RoomRemoved ==
    ASSUME TablesInv, ColumnsAreKept, NEW id, UNCHANGED wanted, NEW members, NEW keys,
           keys = {key \in DOMAIN db.roles : key[2] = id},
           db' \in {db, [db EXCEPT !.rooms = Without(@, {id}), !.membership = members, !.roles = Without(@, keys)]}
    PROVE  TablesInv' /\ ColumnsAreKept'
<1>1. CASE db' = db
  BY <1>1, QuietKeeps DEF QuietTables
<1>2. CASE db' # db
  <2>1. /\ DOMAIN db' = DOMAIN db /\ db'.serial = db.serial
        /\ db'.rooms = Without(db.rooms, {id}) /\ db'.roles = Without(db.roles, keys)
    BY <1>2 DEF TablesInv
  <2>2. DOMAIN db'.rooms = DOMAIN db.rooms \ {id}
        /\ \A other \in DOMAIN db'.rooms : db'.rooms[other] = db.rooms[other]
    BY <2>1 DEF Without, Restrict
  <2>3. DOMAIN db'.roles = DOMAIN db.roles \ keys
        /\ \A key \in DOMAIN db'.roles : db'.roles[key] = db.roles[key]
    BY <2>1 DEF Without, Restrict
  <2>4. TablesInv'
    BY <2>1, <2>2, <2>3 DEF TablesInv
  <2>5. \A user : \A other \in DOMAIN db'.rooms : <<user, other>> \in DOMAIN db.roles => <<user, other>> \in DOMAIN db'.roles
    BY <2>2, <2>3
  <2>6. ColumnsAreKept'
    BY <2>2, <2>3, <2>5 DEF ColumnsAreKept
  <2> QED
    BY <2>4, <2>6
<1> QED
  BY <1>1, <1>2

\* A moderator is made without unmaking another.
RolesShaped(roles) == \A key \in DOMAIN roles : DOMAIN roles[key] = {"is_moderator"}

NowModerates(new, roles, key) ==
    /\ DOMAIN new = DOMAIN roles \cup {key} /\ RolesShaped(new)
    /\ new[key].is_moderator
    /\ \A other \in DOMAIN roles : other # key => new[other] = roles[other]

LEMMA ModeratorMade ==
    ASSUME NEW roles, RolesShaped(roles), NEW key, NEW new, new = Moderating(roles, key)
    PROVE  NowModerates(new, roles, key)
<1>1. CASE key \in DOMAIN roles
  <2> DEFINE row == UpdateUserRoomData(roles[key], setIsModerator(UserRoomData(roles[key]), TRUE))
  <2>1. DOMAIN row = {"is_moderator"} /\ row.is_moderator
    BY <1>1 DEF RolesShaped, UpdateUserRoomData, setIsModerator, UserRoomData, Read, Set, Updated, updateColumns
  <2>2. new = [roles EXCEPT ![key] = row]
    BY <1>1 DEF Moderating
  <2> HIDE DEF row
  <2> QED
    BY <1>1, <2>1, <2>2 DEF NowModerates, RolesShaped
<1>2. CASE key \notin DOMAIN roles
  <2> DEFINE row == InsertUserRoomData(setIsModerator(BlankUserRoomData, TRUE))
  <2>1. DOMAIN row = {"is_moderator"} /\ row.is_moderator
    BY DEF InsertUserRoomData, Inserted, setIsModerator, BlankUserRoomData, Read, Set
  <2>2. new = With(roles, key, row)
    BY <1>2 DEF Moderating
  <2> HIDE DEF row
  <2> QED
    BY <1>2, <2>1, <2>2 DEF With, NowModerates, RolesShaped
<1> QED
  BY <1>1, <1>2

\* A transfer: the object has set nothing before, and the owner it was read
\* with becomes a moderator in the same transaction.
LEMMA RoomHandedOver ==
    ASSUME TablesInv, ColumnsAreKept, NEW id \in DOMAIN db.rooms, NEW row, NEW user,
           row.dirty = {}, DOMAIN row.values = RoomColumns, NEW former,
           NEW moved, moved = UpdatedRoom(id, setOwnerId(row, user)),
           db' \in {db, IF former = user THEN moved ELSE [moved EXCEPT !.roles = Moderating(@, <<former, id>>)]},
           Wanted(id, [wanted[id] EXCEPT !.owner_id = user, !.former = @ \cup ({former} \ {user})])
    PROVE  TablesInv' /\ ColumnsAreKept'
<1> DEFINE new   == UpdateRooms(db.rooms[id], setOwnerId(row, user))
           rooms == [db.rooms EXCEPT ![id] = new]
           roles == IF former = user THEN db.roles ELSE Moderating(db.roles, <<former, id>>)
           due   == [wanted[id] EXCEPT !.owner_id = user, !.former = @ \cup ({former} \ {user})]
<1>1. CASE db' = db
  BY <1>1, QuietKeeps DEF QuietTables, Wanted
<1>2. CASE db' # db
  <2>0. \A key \in DOMAIN db.roles : DOMAIN db.roles[key] = {"is_moderator"}
    BY DEF TablesInv
  <2>1. moved = [db EXCEPT !.rooms = rooms]
    BY DEF UpdatedRoom, TablesInv
  <2>2. DOMAIN new = RoomColumns /\ new.owner_id = user /\ new.room_name = db.rooms[id].room_name
    <3>1. setOwnerId(row, user).dirty = {"owner_id"} /\ setOwnerId(row, user).values.owner_id = user
      BY DEF setOwnerId, Set, RoomColumns
    <3> QED
      BY <3>1, UpdatedRow DEF TablesInv
  <2>3. DOMAIN due = DOMAIN wanted[id] /\ due.owner_id = user /\ due.room_name = wanted[id].room_name
        /\ due.former = wanted[id].former \cup ({former} \ {user})
    BY DEF TablesInv
  <2> HIDE DEF new, due
  <2>4. DOMAIN rooms = DOMAIN db.rooms
        /\ \A other \in DOMAIN db.rooms : rooms[other] = IF other = id THEN new ELSE db.rooms[other]
    OBVIOUS
  <2>5. /\ DOMAIN db.roles \subseteq DOMAIN roles
        /\ \A key \in DOMAIN roles : DOMAIN roles[key] = {"is_moderator"}
        /\ \A key \in DOMAIN db.roles : db.roles[key].is_moderator => roles[key].is_moderator
        /\ former # user => <<former, id>> \in DOMAIN roles /\ roles[<<former, id>>].is_moderator
    <3>1. CASE former = user
      <4>1. roles = db.roles
        BY <3>1
      <4> HIDE DEF roles
      <4>2. \A key \in DOMAIN roles : DOMAIN roles[key] = {"is_moderator"}
        BY <2>0, <4>1, Zenon
      <4>3. \A key \in DOMAIN db.roles : db.roles[key].is_moderator => roles[key].is_moderator
        BY <4>1, Zenon
      <4> QED
        BY <3>1, <4>1, <4>2, <4>3
    <3>2. CASE former # user
      <4>a. PICK key : key = <<former, id>>
        OBVIOUS
      <4>b. PICK made : made = Moderating(db.roles, key)
        OBVIOUS
      <4>c. PICK held : held = db.roles
        OBVIOUS
      <4>1. NowModerates(made, held, key)
        BY <2>0, <4>b, <4>c, ModeratorMade DEF RolesShaped
      <4>2. \A other \in DOMAIN db.roles : db.roles[other].is_moderator => made[other].is_moderator
        BY <4>1, <4>c DEF NowModerates
      <4>3. roles = made
        BY <3>2, <4>a, <4>b
      <4> HIDE DEF roles
      <4> QED
        BY <4>a, <4>c, <4>1, <4>2, <4>3 DEF NowModerates, RolesShaped
    <3> QED
      BY <3>1, <3>2
  <2> HIDE DEF rooms
  <2>6. DOMAIN db' = DOMAIN db /\ db'.rooms = rooms /\ db'.serial = db.serial /\ db'.roles = roles
    <3>1. {"rooms", "serial", "membership", "roles"} = DOMAIN db
      BY DEF TablesInv
    <3> QED
      BY <1>2, <2>1, <3>1
  <2> HIDE DEF roles
  <2>7. CASE rooms = db.rooms
    <3>1. UNCHANGED wanted
      BY <2>6, <2>7 DEF Wanted
    <3>2. TablesInv'
      BY <2>5, <2>6, <2>7, <3>1 DEF TablesInv
    <3>3. ColumnsAreKept'
      BY <2>5, <2>6, <2>7, <3>1 DEF ColumnsAreKept
    <3> QED
      BY <3>2, <3>3
  <2>8. CASE rooms # db.rooms
    <3>1. DOMAIN wanted' = DOMAIN wanted
          /\ \A other \in DOMAIN wanted : wanted'[other] = IF other = id THEN due ELSE wanted[other]
      BY <2>6, <2>8 DEF Wanted, With, TablesInv, due
    <3>2. TablesInv'
      BY <2>2, <2>3, <2>4, <2>5, <2>6, <3>1 DEF TablesInv
    <3>3. ASSUME NEW other \in DOMAIN db'.rooms
          PROVE  /\ db'.rooms[other].room_name = wanted'[other].room_name
                 /\ db'.rooms[other].owner_id = wanted'[other].owner_id
      BY <2>2, <2>3, <2>4, <2>6, <3>1 DEF TablesInv, ColumnsAreKept
    <3>4. ASSUME NEW other \in DOMAIN db'.rooms, NEW had \in wanted'[other].former
          PROVE  <<had, other>> \in DOMAIN db'.roles /\ db'.roles[<<had, other>>].is_moderator
      <4>1. CASE other # id
        BY <2>4, <2>5, <2>6, <3>1, <4>1 DEF TablesInv, ColumnsAreKept
      <4>2. CASE other = id /\ had \in wanted[id].former
        BY <2>5, <2>6, <4>2 DEF ColumnsAreKept
      <4>3. CASE other = id /\ had = former /\ former # user
        BY <2>5, <2>6, <4>3
      <4>4. other = id => had \in wanted[id].former \/ (had = former /\ former # user)
        BY <2>3, <3>1 DEF TablesInv
      <4> QED
        BY <4>1, <4>2, <4>3, <4>4
    <3> QED
      BY <3>2, <3>3, <3>4 DEF ColumnsAreKept
  <2> QED
    BY <2>7, <2>8
<1> QED
  BY <1>1, <1>2

-----------------------------------------------------------------------------
(***************************************************************************)
(* The handlers.                                                           *)
(***************************************************************************)

LEMMA Unarmed ==
    ASSUME NEW chore, DOMAIN chore = ChoreFields, NEW stage,
           stage # "write" \/ chore.op \notin {"RenameRoom", "AssignRole"}
    PROVE  ChoreSound([chore EXCEPT !.stage = stage])
BY DEF ChoreSound, ChoreFields

\* Everything that only moves the request and leaves rooms and roles alone.
LEMMA PassedOn ==
    ASSUME LobbyInv, NEW v \in Visitor, NEW i \in DOMAIN chores[v], NEW stage, NEW chore,
           Step(v, i, stage, chore), DOMAIN chore = ChoreFields,
           stage # "write" \/ chore.op \notin {"RenameRoom", "AssignRole"}, QuietTables
    PROVE  LobbyInv'
<1>1. ChoresInv'
  BY Unarmed, Stepped DEF LobbyInv
<1> QED
  BY <1>1, QuietKeeps DEF LobbyInv

LEMMA Finished ==
    ASSUME LobbyInv, NEW v \in Visitor, NEW i \in DOMAIN chores[v],
           chores' = [chores EXCEPT ![v] = RemoveAt(@, i)], QuietTables
    PROVE  LobbyInv'
<1>1. ChoresInv'
  BY Removed DEF LobbyInv
<1> QED
  BY <1>1, QuietKeeps DEF LobbyInv

LEMMA QuietStep ==
    ASSUME LobbyInv, UNCHANGED <<chores, db, wanted>>
    PROVE  LobbyInv'
BY DEF LobbyInv, ChoresInv, TablesInv, ColumnsAreKept

LEMMA CreateRoomStep ==
    ASSUME LobbyInv, NEW v \in Visitor, NEW i \in DOMAIN chores[v], CreateRoom(v, i)
    PROVE  LobbyInv'
<1> DEFINE id   == db.serial + 1
           user == visit[v].user
           name == chores[v][i].name
           row  == InsertRooms(setOwnerId(setRoomName(BlankRoom, name), user))
           members == With(db.membership, <<user, id>>, InsertMembership(BlankMembership))
           after == [db EXCEPT !.rooms = With(@, id, row), !.serial = id, !.membership = members]
           told == [chores[v][i] EXCEPT !.id = id]
<1>1. Commit(v, i, after, id, told, FALSE)
  BY DEF CreateRoom
<1>2. Wanted(id, [room_name |-> name, owner_id |-> user, former |-> {}])
  BY DEF CreateRoom
<1>3. DOMAIN told = ChoreFields
  BY DEF LobbyInv, ChoresInv, ChoreSound
<1> HIDE DEF told
<1>4. ChoresInv' /\ db' \in {db, after}
  <2>1. ChoreSound([told EXCEPT !.stage = "tell"])
    BY <1>3, Unarmed
  <2> HIDE DEF after
  <2> QED
    BY <1>1, <2>1, Committed DEF LobbyInv
<1>5. DOMAIN row = RoomColumns /\ row.room_name = name /\ row.owner_id = user
  BY InsertedRoom
<1>6. TablesInv' /\ ColumnsAreKept'
  <2> HIDE DEF row, members, name, user
  <2> QED
    BY <1>2, <1>4, <1>5, RoomAdded, Zenon DEF LobbyInv
<1> QED
  BY <1>4, <1>6 DEF LobbyInv

LEMMA RenameReadStep ==
    ASSUME LobbyInv, NEW v \in Visitor, NEW i \in DOMAIN chores[v], RenameRead(v, i)
    PROVE  LobbyInv'
<1> DEFINE chore == chores[v][i]
           row   == setRoomName(Rooms(db.rooms[chore.id]), chore.name)
<1>0. DOMAIN chore = ChoreFields /\ chore.op = "RenameRoom"
  BY DEF LobbyInv, ChoresInv, ChoreSound, RenameRead, At
<1>1. QuietTables
  BY DEF RenameRead, QuietTables
<1>2. CASE Refuse(v, i)
  BY <1>1, <1>2, Finished DEF Refuse, Fail, Reply
<1>3. CASE chore.id \in DOMAIN db.rooms /\ Step(v, i, "write", [chore EXCEPT !.row = row])
  <2>1. row.dirty = {"room_name"} /\ row.values.room_name = chore.name
    BY <1>3 DEF setRoomName, Set, Rooms, Read, LobbyInv, TablesInv, RoomColumns
  <2> HIDE DEF row
  <2>2. ChoreSound([[chore EXCEPT !.row = row] EXCEPT !.stage = "write"])
    <3> HIDE DEF chore
    <3> QED
      BY <1>0, <2>1 DEF ChoreSound, ChoreFields
  <2>3. ChoresInv'
    BY <1>3, <2>2, Stepped DEF LobbyInv
  <2> QED
    BY <1>1, <2>3, QuietKeeps DEF LobbyInv
<1> QED
  BY <1>2, <1>3 DEF RenameRead, Go

LEMMA RenameWriteStep ==
    ASSUME LobbyInv, NEW v \in Visitor, NEW i \in DOMAIN chores[v], RenameWrite(v, i)
    PROVE  LobbyInv'
<1> DEFINE chore == chores[v][i]
           after == UpdatedRoom(chore.id, chore.row)
<1>1. /\ DOMAIN chore = ChoreFields
      /\ chore.row.dirty = {"room_name"} /\ chore.row.values.room_name = chore.name
  BY DEF LobbyInv, ChoresInv, ChoreSound, RenameWrite, At
<1>2. PICK untold : Commit(v, i, after, chore.id, chore, untold)
  BY DEF RenameWrite
<1>3. Wanted(chore.id, [wanted[chore.id] EXCEPT !.room_name = chore.name])
  BY DEF RenameWrite
<1> HIDE DEF chore
<1>4. ChoresInv' /\ db' \in {db, after}
  <2>1. ChoreSound([chore EXCEPT !.stage = "tell"])
    BY <1>1, Unarmed
  <2> HIDE DEF after
  <2> QED
    BY <1>2, <2>1, Committed DEF LobbyInv
<1>5. TablesInv' /\ ColumnsAreKept'
  BY <1>1, <1>3, <1>4, RoomRenamed DEF LobbyInv
<1> QED
  BY <1>4, <1>5 DEF LobbyInv

LEMMA DeleteRoomStep ==
    ASSUME LobbyInv, NEW v \in Visitor, NEW i \in DOMAIN chores[v], DeleteRoom(v, i)
    PROVE  LobbyInv'
<1> DEFINE id    == chores[v][i].id
           keys  == {key \in DOMAIN db.roles : key[2] = id}
           gone  == {key \in DOMAIN db.membership : key[2] = id}
           members == Without(db.membership, gone)
           after == [db EXCEPT !.rooms = Without(@, {id}), !.membership = members, !.roles = Without(@, keys)]
<1>0. UNCHANGED wanted
  BY DEF DeleteRoom
<1>1. CASE Refuse(v, i) /\ UNCHANGED db
  BY <1>0, <1>1, Finished DEF Refuse, Fail, Reply, QuietTables
<1>2. CASE Commit(v, i, after, id, chores[v][i], FALSE)
  <2>1. ChoreSound([chores[v][i] EXCEPT !.stage = "tell"])
    BY Unarmed DEF LobbyInv, ChoresInv, ChoreSound
  <2>2. ChoresInv' /\ db' \in {db, after}
    <3> HIDE DEF after
    <3> QED
      BY <1>2, <2>1, Committed DEF LobbyInv
  <2> HIDE DEF members, id
  <2>3. TablesInv' /\ ColumnsAreKept'
    BY <1>0, <2>2, RoomRemoved, Zenon DEF LobbyInv
  <2> QED
    BY <2>2, <2>3 DEF LobbyInv
<1> QED
  BY <1>1, <1>2 DEF DeleteRoom

LEMMA TransferReadStep ==
    ASSUME LobbyInv, NEW v \in Visitor, NEW i \in DOMAIN chores[v], TransferRead(v, i)
    PROVE  LobbyInv'
<1> DEFINE chore == chores[v][i]
           row   == Rooms(db.rooms[chore.id])
<1>0. DOMAIN chore = ChoreFields /\ chore.op = "AssignRole"
  BY DEF LobbyInv, ChoresInv, ChoreSound, TransferRead, At
<1>1. QuietTables
  BY DEF TransferRead, QuietTables
<1>2. CASE Refuse(v, i)
  BY <1>1, <1>2, Finished DEF Refuse, Fail, Reply
<1>3. CASE chore.id \in DOMAIN db.rooms /\ Step(v, i, "write", [chore EXCEPT !.row = row])
  <2>1. row.dirty = {} /\ DOMAIN row.values = RoomColumns
    BY <1>3 DEF Rooms, Read, LobbyInv, TablesInv
  <2> HIDE DEF row
  <2>2. ChoreSound([[chore EXCEPT !.row = row] EXCEPT !.stage = "write"])
    <3> HIDE DEF chore
    <3> QED
      BY <1>0, <2>1 DEF ChoreSound, ChoreFields
  <2>3. ChoresInv'
    BY <1>3, <2>2, Stepped DEF LobbyInv
  <2> QED
    BY <1>1, <2>3, QuietKeeps DEF LobbyInv
<1> QED
  BY <1>2, <1>3 DEF TransferRead, Go

LEMMA TransferWriteStep ==
    ASSUME LobbyInv, NEW v \in Visitor, NEW i \in DOMAIN chores[v], TransferWrite(v, i)
    PROVE  LobbyInv'
<1> DEFINE chore  == chores[v][i]
           id     == chore.id
           row    == chore.row
           user   == chore.user
           former == row.values.owner_id
           moved  == UpdatedRoom(id, setOwnerId(row, user))
           after  == IF former = user THEN moved ELSE [moved EXCEPT !.roles = Moderating(@, <<former, id>>)]
           told   == [chore EXCEPT !.former = former]
<1>1. DOMAIN chore = ChoreFields /\ row.dirty = {} /\ DOMAIN row.values = RoomColumns
  BY DEF LobbyInv, ChoresInv, ChoreSound, TransferWrite, At
<1>2. Wanted(id, [wanted[id] EXCEPT !.owner_id = user, !.former = @ \cup ({former} \ {user})])
  BY DEF TransferWrite
<1>3. CASE Refuse(v, i) /\ UNCHANGED db
  BY <1>2, <1>3, Finished DEF Refuse, Fail, Reply, QuietTables, Wanted
<1>4. CASE id \in DOMAIN db.rooms /\ Commit(v, i, after, id, told, FALSE)
  <2>1. DOMAIN told = ChoreFields
    BY <1>1
  <2> HIDE DEF told, chore
  <2>2. ChoreSound([told EXCEPT !.stage = "tell"])
    BY <2>1, Unarmed
  <2>3. ChoresInv' /\ db' \in {db, after}
    <3> HIDE DEF after, id
    <3> QED
      BY <1>4, <2>2, Committed DEF LobbyInv
  <2>4. TablesInv' /\ ColumnsAreKept'
    <3>1. moved = UpdatedRoom(id, setOwnerId(row, user))
      OBVIOUS
    <3> HIDE DEF id, row, user, former, moved
    <3> QED
      BY <1>1, <1>2, <1>4, <2>3, <3>1, RoomHandedOver, Zenon DEF LobbyInv
  <2> QED
    BY <2>3, <2>4 DEF LobbyInv
<1> QED
  BY <1>3, <1>4 DEF TransferWrite

\* Of the membership only the roles and rooms know nothing.
LEMMA EnrolledQuietly ==
    ASSUME LobbyInv, NEW v, NEW id, NEW known, NEW object,
           db' \in {db, Enrolled(v, id, known, object)}, UNCHANGED wanted
    PROVE  QuietTables
BY DEF Enrolled, QuietTables, LobbyInv, TablesInv

LEMMA ReadMembership ==
    ASSUME NEW v, NEW chore, DOMAIN chore = ChoreFields
    PROVE  DOMAIN Membership(v, chore) = ChoreFields /\ Membership(v, chore).op = chore.op
BY DEF Membership, ChoreFields

LEMMA HandleStep ==
    ASSUME LobbyInv, NEW v \in Visitor, HandleRooms(v)
    PROVE  LobbyInv'
<1>0. ASSUME NEW i \in DOMAIN chores[v] PROVE DOMAIN chores[v][i] = ChoreFields
  <2>1. ChoreSound(chores[v][i])
    BY DEF LobbyInv, ChoresInv
  <2> QED
    BY <2>1 DEF ChoreSound
<1>1. ASSUME NEW i \in DOMAIN chores[v], CreateRoom(v, i) PROVE LobbyInv'
  BY <1>1, CreateRoomStep
<1>2. ASSUME NEW i \in DOMAIN chores[v], CreateTell(v, i) \/ RenameTell(v, i) \/ DeleteTell(v, i)
      PROVE  LobbyInv'
  BY <1>2, Finished DEF CreateTell, RenameTell, DeleteTell, sendToAll, QuietTables
<1>3. ASSUME NEW i \in DOMAIN chores[v], RenameRead(v, i) PROVE LobbyInv'
  BY <1>3, RenameReadStep
<1>4. ASSUME NEW i \in DOMAIN chores[v], RenameWrite(v, i) PROVE LobbyInv'
  BY <1>4, RenameWriteStep
<1>5. ASSUME NEW i \in DOMAIN chores[v], DeleteRoom(v, i) PROVE LobbyInv'
  BY <1>5, DeleteRoomStep
<1>6. ASSUME NEW i \in DOMAIN chores[v], BecomeMemberRead(v, i) PROVE LobbyInv'
  <2> DEFINE found == Membership(v, chores[v][i])
  <2>1. DOMAIN found = ChoreFields /\ found.op = "BecomeMember"
    BY <1>0, <1>6, ReadMembership DEF BecomeMemberRead, At
  <2>2. QuietTables
    BY <1>6 DEF BecomeMemberRead, QuietTables
  <2>3. CASE Refuse(v, i)
    BY <2>2, <2>3, Finished DEF Refuse, Fail, Reply
  <2>4. CASE Step(v, i, "write", found)
    <3> HIDE DEF found
    <3> QED
      BY <2>1, <2>2, <2>4, PassedOn
  <2> QED
    BY <1>6, <2>3, <2>4 DEF BecomeMemberRead, Go
<1>7. ASSUME NEW i \in DOMAIN chores[v], BecomeMemberWrite(v, i) PROVE LobbyInv'
  <2>1. QuietTables
    <3>1. db' \in {db, Enrolled(v, chores[v][i].id, chores[v][i].known, chores[v][i].object)} /\ UNCHANGED wanted
      BY <1>7 DEF BecomeMemberWrite, setUserMembershipStatus
    <3> QED
      BY <3>1, EnrolledQuietly
  <2> QED
    BY <1>7, <2>1, Finished DEF BecomeMemberWrite, Succeed, Reply
<1>8. ASSUME NEW i \in DOMAIN chores[v], JoinRead(v, i) PROVE LobbyInv'
  <2> DEFINE found == Membership(v, chores[v][i])
             row   == Rooms(db.rooms[chores[v][i].id])
             told  == [found EXCEPT !.row = row]
  <2>1. DOMAIN found = ChoreFields /\ found.op = "JoinRoom"
    BY <1>0, <1>8, ReadMembership DEF JoinRead, At
  <2>2. QuietTables
    BY <1>8 DEF JoinRead, QuietTables
  <2>3. CASE Refuse(v, i)
    BY <2>2, <2>3, Finished DEF Refuse, Fail, Reply
  <2>4. ASSUME NEW stage, Step(v, i, stage, told) PROVE LobbyInv'
    <3> HIDE DEF found, row
    <3>1. DOMAIN told = ChoreFields /\ told.op = "JoinRoom"
      BY <2>1 DEF ChoreFields
    <3> HIDE DEF told
    <3> QED
      BY <2>2, <2>4, <3>1, PassedOn
  <2> QED
    BY <1>8, <2>3, <2>4 DEF JoinRead, Go
<1>9. ASSUME NEW i \in DOMAIN chores[v], JoinWrite(v, i) PROVE LobbyInv'
  <2>1. QuietTables
    <3>1. db' \in {db, Enrolled(v, chores[v][i].id, chores[v][i].known, chores[v][i].object)} /\ UNCHANGED wanted
      BY <1>9 DEF JoinWrite, setUserMembershipStatus
    <3> QED
      BY <3>1, EnrolledQuietly
  <2> QED
    BY <1>0, <1>9, <2>1, PassedOn DEF JoinWrite
<1>10. ASSUME NEW i \in DOMAIN chores[v], JoinEnter(v, i) \/ TransferTell(v, i) \/ AuthReply(v, i)
       PROVE  LobbyInv'
  BY <1>10, Finished DEF JoinEnter, TransferTell, AuthReply, Succeed, Reply, QuietTables
<1>11. ASSUME NEW i \in DOMAIN chores[v], TransferCheck(v, i) PROVE LobbyInv'
  <2>1. QuietTables
    BY <1>11 DEF TransferCheck, QuietTables
  <2>2. CASE Refuse(v, i)
    BY <2>1, <2>2, Finished DEF Refuse, Fail, Reply
  <2>3. CASE Step(v, i, "read", chores[v][i])
    BY <1>0, <2>1, <2>3, PassedOn
  <2> QED
    BY <1>11, <2>2, <2>3 DEF TransferCheck, Go
<1>12. ASSUME NEW i \in DOMAIN chores[v], TransferRead(v, i) PROVE LobbyInv'
  BY <1>12, TransferReadStep
<1>13. ASSUME NEW i \in DOMAIN chores[v], TransferWrite(v, i) PROVE LobbyInv'
  BY <1>13, TransferWriteStep
<1>14. ASSUME NEW i \in DOMAIN chores[v], AuthList(v, i) PROVE LobbyInv'
  <2>1. PICK mine, public : Step(v, i, "register", [chores[v][i] EXCEPT !.mine = mine, !.public = public])
    BY <1>14, Zenon DEF AuthList
  <2>2. DOMAIN [chores[v][i] EXCEPT !.mine = mine, !.public = public] = ChoreFields
    BY <1>0
  <2>3. QuietTables
    BY <1>14 DEF AuthList, QuietTables
  <2> QED
    BY <2>1, <2>2, <2>3, PassedOn
<1>15. ASSUME NEW i \in DOMAIN chores[v], AuthRegister(v, i) PROVE LobbyInv'
  BY <1>0, <1>15, PassedOn DEF AuthRegister, Go, QuietTables
<1> QED
  BY <1>1, <1>2, <1>3, <1>4, <1>5, <1>6, <1>7, <1>8, <1>9, <1>10, <1>11, <1>12, <1>13, <1>14, <1>15
  DEF HandleRooms

-----------------------------------------------------------------------------
(***************************************************************************)
(* The clients.                                                            *)
(***************************************************************************)

\* A new request has read nothing.
LEMMA FreshChore ==
    ASSUME NEW op, NEW id, NEW name, NEW user
    PROVE  /\ ChoreSound([Chore(op) EXCEPT !.id = id])
           /\ ChoreSound([Chore(op) EXCEPT !.name = name])
           /\ ChoreSound([[Chore(op) EXCEPT !.name = name] EXCEPT !.id = id])
           /\ ChoreSound([[Chore(op) EXCEPT !.user = user] EXCEPT !.id = id])
           /\ ChoreSound(Chore(op))
BY DEF ChoreSound, Chore, ChoreFields

LEMMA AskedQuietly ==
    ASSUME LobbyInv, NEW v \in Visitor, NEW request, Ask(v, request), ChoreSound(request), UNCHANGED <<db, wanted>>
    PROVE  LobbyInv'
<1>1. ChoresInv'
  BY Asked DEF LobbyInv
<1> QED
  BY <1>1, QuietKeeps DEF LobbyInv, QuietTables

LEMMA VisitStep ==
    ASSUME LobbyInv, NEW v \in Visitor, Visit(v)
    PROVE  LobbyInv'
<1>1. ASSUME NEW tab, OnPageChanged(v, tab) PROVE LobbyInv'
  BY <1>1, QuietStep DEF OnPageChanged, Looking
<1>2. ASSUME NEW i, OnPublicRoomSelected(v, i) PROVE LobbyInv'
  BY <1>2, QuietStep DEF OnPublicRoomSelected, Looking
<1>3. ASSUME NEW i, OnMyRoomSelected(v, i) PROVE LobbyInv'
  BY <1>3, FreshChore, AskedQuietly, Zenon DEF OnMyRoomSelected, Errand
<1>4. CASE OnJoin(v)
  BY <1>4, FreshChore, AskedQuietly, Zenon DEF OnJoin, Errand
<1>5. CASE OnDelete(v)
  BY <1>5, FreshChore, AskedQuietly, Zenon DEF OnDelete, InChat, Errand
<1>6. ASSUME NEW name, OnCreate(v, name) PROVE LobbyInv'
  BY <1>6, FreshChore, AskedQuietly, Zenon DEF OnCreate, Errand
<1>7. ASSUME NEW name, OnRename(v, name) PROVE LobbyInv'
  BY <1>7, FreshChore, AskedQuietly, Zenon DEF OnRename, InChat, Errand
<1>8. ASSUME NEW user, OnTransferOwnership(v, user) PROVE LobbyInv'
  BY <1>8, FreshChore, AskedQuietly, Zenon DEF OnTransferOwnership, InChat, Errand
<1> QED
  BY <1>1, <1>2, <1>3, <1>4, <1>5, <1>6, <1>7, <1>8 DEF Visit

LEMMA HearStep ==
    ASSUME LobbyInv, NEW v \in Visitor, Hear(v)
    PROVE  LobbyInv'
<1>0. UNCHANGED <<db, wanted>>
  BY DEF Hear
<1>1. ASSUME NEW panel, Look(v, panel) PROVE LobbyInv'
  BY <1>0, <1>1, QuietStep DEF Look
<1>2. ASSUME NEW notice, NewRoomCreated(v, notice) PROVE LobbyInv'
  BY <1>0, <1>2, FreshChore, AskedQuietly, QuietStep, Zenon DEF NewRoomCreated
<1>3. CASE JoinRoomResponse(v)
  BY <1>0, <1>3, FreshChore, AskedQuietly, QuietStep, Zenon DEF JoinRoomResponse
<1>4. ASSUME NEW notice, NewRoomName(v, notice) \/ RoomDeleted(v, notice) \/ AuthResponse(v, notice)
      PROVE  LobbyInv'
  BY <1>1, <1>4 DEF NewRoomName, RoomDeleted, AuthResponse
<1> QED
  BY <1>1, <1>2, <1>3, <1>4 DEF Hear

LEMMA LobbyStart == InitLobby => LobbyInv
<1> SUFFICES ASSUME InitLobby PROVE LobbyInv
  OBVIOUS
<1>1. ASSUME NEW v \in Visitor PROVE chores[v] \in {<<>>, <<Chore("Auth")>>}
  BY Zenon DEF InitLobby, Arrived, Outside
<1>2. ASSUME NEW v \in Visitor PROVE IsSeq(chores[v]) /\ \A i \in DOMAIN chores[v] : ChoreSound(chores[v][i])
  <2>1. CASE chores[v] = <<>>
    BY <2>1 DEF IsSeq
  <2>2. CASE chores[v] = <<Chore("Auth")>>
    <3> DEFINE auth == Chore("Auth")
    <3>1. ChoreSound(auth)
      BY FreshChore, Zenon
    <3> HIDE DEF auth
    <3>2. <<auth>> \in Seq({auth}) /\ \A i \in DOMAIN <<auth>> : <<auth>>[i] = auth
      OBVIOUS
    <3>3. chores[v] = <<auth>>
      BY <2>2 DEF auth
    <3> QED
      BY <3>1, <3>2, <3>3 DEF IsSeq
  <2> QED
    BY <1>1, <2>1, <2>2
<1>3. ChoresInv
  BY <1>2 DEF ChoresInv, InitLobby
<1>4. TablesInv
  BY DEF TablesInv, InitLobby, InitTables, RoomRow, RoomColumns
<1>5. ColumnsAreKept
  BY DEF ColumnsAreKept, InitLobby
<1> QED
  BY <1>3, <1>4, <1>5 DEF LobbyInv

LEMMA LobbyStep == LobbyInv /\ [NextLobby]_lobbyVars => LobbyInv'
BY HandleStep, VisitStep, HearStep, QuietStep DEF NextLobby, lobbyVars

(***************************************************************************)
(* Rooms keep the name and the owner they were last given, and those they  *)
(* were taken from are their moderators, however many renames, transfers,  *)
(* deletions and failed commits overlap: handleRenameRoom and              *)
(* handleAssignRole write the rows they read some awaits before.           *)
(***************************************************************************)
THEOREM ColumnsAreKeptHolds == SpecLobby => []ColumnsAreKept
<1>1. LobbyInv => ColumnsAreKept
  BY DEF LobbyInv
<1> QED
  BY <1>1, LobbyStart, LobbyStep, PTL DEF SpecLobby

-----------------------------------------------------------------------------
(***************************************************************************)
(* Accounts.  Base gives the types, and says that a request keeps what it  *)
(* was made with: the hash and the salt of a new password belong together, *)
(* and an object has set the columns its handler is asked to change.       *)
(***************************************************************************)

Text   == Name \cup {"", NULL}
Secret == Password \cup {""}
Salt   == Nat \cup {NULL}

UserRow    == [username : Text, hash_password : Hash \cup {NULL}, salt : Salt]
UserObject == [values : UserRow, dirty : SUBSET {"username", "hash_password", "salt"}]

Requests   == {"InitialAuth", "InitialRegister", "Auth", "Register", "ChangeUsername", "GetMySalt", "ChangePassword"}
Operations == Requests \cup {"UsernameChanged"}
TaskStages == {"new", "migrate", "login", "answer", "update", "tell"}

Task  == [op : Requests, stage : TaskStages, name : Text, password : Secret,
          hash : Hash \cup {NULL}, old : Hash \cup {NULL}, salt : Salt, migrates : BOOLEAN,
          object : UserObject, id : Nat]
Told == [op : Operations, ok : BOOLEAN, salt : Salt, id : Nat, name : Text]
Form  == [panel : {"auth", "rooms"}, id : Nat, name : Text, password : Secret, old : Secret, new : Secret,
          busy : BOOLEAN]
Session == [status : {"Unauthenticated", "Authenticating", "Registering", "Authenticated"}, id : Nat,
            name : Text, listed : BOOLEAN]

\* The object writes a password with its salt.
WritesPassword(task) ==
    /\ task.object.dirty = {"hash_password", "salt"}
    /\ task.object.values.hash_password = task.hash /\ task.object.values.salt = task.salt

\* A request when there are n accounts.
TaskSound(task, n) ==
    /\ task.op \in {"Auth", "Register", "ChangePassword"} => task.hash \in Hash /\ task.hash.salt = task.salt
    /\ task.op = "Auth" => task.hash.password = task.password
    /\ task.stage # "new" => task.id \in 1 .. n
    /\ task.stage \in {"migrate", "login", "answer"} => task.op = "Auth"
    /\ task.stage = "migrate" => WritesPassword(task)
    /\ task.stage = "update" => task.op \in {"ChangeUsername", "ChangePassword"}
    /\ task.stage = "update" /\ task.op = "ChangePassword" => WritesPassword(task)
    /\ task.stage = "update" /\ task.op = "ChangeUsername" =>
          task.object.dirty = {"username"} /\ task.object.values.username = task.name
    /\ task.stage = "tell" => task.op = "ChangeUsername"

\* What the client will take for the name of an account.
TellsName(answer) == (answer.op = "Auth" /\ answer.ok) \/ answer.op = "UsernameChanged"

UsersInv ==
    /\ users \in Seq(UserRow) /\ salts \in Nat /\ failures \in Nat
    /\ believed \in Seq(SUBSET Secret) /\ Len(believed) = Len(users)

TasksInv ==
    /\ tasks \in [Line -> Seq(Task)]
    /\ \A c \in Line : \A i \in 1 .. Len(tasks[c]) : TaskSound(tasks[c][i], Len(users))

AnswersInv ==
    /\ answers \in [Line -> Seq(Told)]
    /\ \A c \in Line : \A k \in 1 .. Len(answers[c]) :
          TellsName(answers[c][k]) => answers[c][k].id \in 1 .. Len(users)

FormsInv ==
    /\ form \in [Line -> Form]
    /\ \A c \in Line : form[c].panel = "rooms" => form[c].id \in 1 .. Len(users)

LoginsInv ==
    /\ login \in [Line -> Session]
    /\ \A c \in Line : login[c].status = "Authenticated" => login[c].id \in 1 .. Len(users)

Base == UsersInv /\ TasksInv /\ AnswersInv /\ FormsInv /\ LoginsInv

\* The passwords: of every row, and of the log ins that are about to write one.
RowsHold ==
    \A id \in 1 .. Len(users) :
        /\ users[id].hash_password \in Hash /\ users[id].hash_password.salt = users[id].salt
        /\ id \notin doubt => users[id].hash_password.password \in believed[id]

MigratesHold ==
    \A c \in Line : \A i \in 1 .. Len(tasks[c]) :
        tasks[c][i].stage = "migrate" /\ tasks[c][i].id \notin doubt => tasks[c][i].password \in believed[tasks[c][i].id]

\* The names.  An account's present name is on its way to a client, behind
\* its k-th answer, or is about to be sent to everybody.
Telling(id) == \E c \in Line : \E i \in 1 .. Len(tasks[c]) : tasks[c][i].stage = "tell" /\ tasks[c][i].id = id

Hears(c, id, k) ==
    \E j \in 1 .. Len(answers[c]) :
        /\ k < j /\ TellsName(answers[c][j])
        /\ answers[c][j].id = id /\ answers[c][j].name = users[id].username

NameComes(c, id, name, k) == name = users[id].username \/ Telling(id) \/ Hears(c, id, k)

NamesDiffer ==
    \A id, other \in 1 .. Len(users) : users[id].username = users[other].username => id = other

ShownInv ==
    \A c \in Line : form[c].panel = "rooms" /\ form[c].id \notin renamed => NameComes(c, form[c].id, form[c].name, 0)

ToldInv ==
    \A c \in Line : \A k \in 1 .. Len(answers[c]) :
        TellsName(answers[c][k]) /\ answers[c][k].id \notin renamed =>
            NameComes(c, answers[c][k].id, answers[c][k].name, k)

\* A log in that has read the row knows the account's name; a rename that has
\* written it, too.
KnownInv ==
    \A c \in Line : \A i \in 1 .. Len(tasks[c]) : tasks[c][i].id \notin renamed =>
        /\ tasks[c][i].stage \in {"migrate", "login", "answer"} =>
              tasks[c][i].object.values.username = users[tasks[c][i].id].username
        /\ tasks[c][i].stage = "tell" => tasks[c][i].name = users[tasks[c][i].id].username

\* Two requests in progress that overlap on the name of an account.
Overlap(task, other) ==
    /\ task.stage # "new" /\ other.stage # "new" /\ task.id = other.id
    /\ task.op = "ChangeUsername" /\ other.op \in {"Auth", "ChangeUsername"}

AloneInv ==
    \A c, d \in Line : \A i \in 1 .. Len(tasks[c]), j \in 1 .. Len(tasks[d]) :
        tasks[c][i].id \notin renamed /\ Overlap(tasks[c][i], tasks[d][j]) => c = d /\ i = j

\* Whoever has been told a name, or is about to be, hears of its changes.
ListedInv ==
    \A c \in Line :
        /\ form[c].panel = "rooms" => login[c].listed
        /\ \A k \in 1 .. Len(answers[c]) : TellsName(answers[c][k]) => login[c].listed
        /\ \A i \in 1 .. Len(tasks[c]) : tasks[c][i].stage = "answer" => login[c].listed

AccountsInv ==
    /\ Base /\ RowsHold /\ MigratesHold
    /\ NamesDiffer /\ ShownInv /\ ToldInv /\ KnownInv /\ AloneInv /\ ListedInv

-----------------------------------------------------------------------------
(***************************************************************************)
(* What the parts of a step do to the invariant's parts.                   *)
(***************************************************************************)

\* What a request leaves behind: the others, in their order.  Was is where a
\* request was in its queue, before the i-th of c was answered.
Was(d, j, c, i) == IF d = c /\ ~(j < i) THEN j + 1 ELSE j

Gone(c, i) ==
    /\ \A d \in Line : \A j \in 1 .. Len(tasks'[d]) :
          Was(d, j, c, i) \in 1 .. Len(tasks[d]) /\ tasks'[d][j] = tasks[d][Was(d, j, c, i)]
    /\ \A d \in Line : \A k \in 1 .. Len(tasks[d]) :
          (d = c /\ k = i) \/ \E j \in 1 .. Len(tasks'[d]) : tasks'[d][j] = tasks[d][k]

Replaced(c, i, new) ==
    /\ \A d \in Line : Len(tasks'[d]) = Len(tasks[d])
    /\ \A d \in Line : \A j \in 1 .. Len(tasks[d]) :
          tasks'[d][j] = IF d = c /\ j = i THEN new ELSE tasks[d][j]

Added(c, request) ==
    /\ \A d \in Line : Len(tasks'[d]) = IF d = c THEN Len(tasks[d]) + 1 ELSE Len(tasks[d])
    /\ \A d \in Line : \A j \in 1 .. Len(tasks'[d]) :
          tasks'[d][j] = IF d = c /\ j = Len(tasks[d]) + 1 THEN request ELSE tasks[d][j]

Said(c, answer) ==
    /\ \A d \in Line : Len(answers'[d]) = IF d = c THEN Len(answers[d]) + 1 ELSE Len(answers[d])
    /\ \A d \in Line : \A k \in 1 .. Len(answers'[d]) :
          answers'[d][k] = IF d = c /\ k = Len(answers[d]) + 1 THEN answer ELSE answers[d][k]

\* Of the names, the histories and the room service's list.
NamesKept  == \A id \in 1 .. Len(users) : id \notin renamed' => users'[id].username = users[id].username
BelievedKept ==
    \A c \in Line : \A i \in 1 .. Len(tasks[c]) :
        tasks[c][i].stage = "migrate" /\ tasks[c][i].id \notin doubt' =>
            believed[tasks[c][i].id] \subseteq believed'[tasks[c][i].id]
HistoryGrows == renamed \subseteq renamed' /\ doubt \subseteq doubt'
ListedKept   == \A d \in Line : login[d].listed => login'[d].listed

\* No account is ever deleted.
Grown == Len(users) \in Nat /\ Len(users') \in Nat /\ Len(users) <= Len(users')

LEMMA TaskStaysSound ==
    ASSUME NEW task, NEW n \in Nat, NEW m \in Nat, n <= m, TaskSound(task, n)
    PROVE  TaskSound(task, m)
BY DEF TaskSound

LEMMA TasksKept ==
    ASSUME TasksInv, Grown, UNCHANGED tasks
    PROVE  TasksInv'
<1>1. ASSUME NEW c \in Line, NEW i \in 1 .. Len(tasks[c]) PROVE TaskSound(tasks[c][i], Len(users'))
  BY TaskStaysSound DEF TasksInv, Grown
<1> QED
  BY <1>1 DEF TasksInv

\* One request goes on, one is answered, one is sent.
LEMMA TaskAdvanced ==
    ASSUME TasksInv, Grown, NEW c \in Line, NEW i \in 1 .. Len(tasks[c]),
           NEW new \in Task, TaskSound(new, Len(users')), tasks' = [tasks EXCEPT ![c][i] = new]
    PROVE  TasksInv' /\ Replaced(c, i, new)
<1> DEFINE mine == [tasks[c] EXCEPT ![i] = new]
<1>0. tasks \in [Line -> Seq(Task)] /\ tasks[c] \in Seq(Task)
  BY DEF TasksInv
<1>1. mine \in Seq(Task) /\ Len(mine) = Len(tasks[c])
      /\ \A j \in 1 .. Len(tasks[c]) : mine[j] = IF j = i THEN new ELSE tasks[c][j]
  BY <1>0
<1>2. tasks' = [tasks EXCEPT ![c] = mine]
  BY <1>0
<1> HIDE DEF mine
<1>3. /\ tasks' \in [Line -> Seq(Task)]
      /\ \A d \in Line : Len(tasks'[d]) = Len(tasks[d])
      /\ \A d \in Line : \A j \in 1 .. Len(tasks[d]) :
            tasks'[d][j] = IF d = c /\ j = i THEN new ELSE tasks[d][j]
  BY <1>0, <1>1, <1>2
<1>4. ASSUME NEW d \in Line, NEW j \in 1 .. Len(tasks'[d]) PROVE TaskSound(tasks'[d][j], Len(users'))
  <2>1. CASE d = c /\ j = i
    BY <1>3, <2>1
  <2>2. CASE ~(d = c /\ j = i)
    BY <1>3, <2>2, TaskStaysSound DEF TasksInv, Grown
  <2> QED
    BY <2>1, <2>2
<1> QED
  BY <1>3, <1>4 DEF TasksInv, Replaced

LEMMA TaskAnswered ==
    ASSUME TasksInv, Grown, NEW c \in Line, NEW i \in 1 .. Len(tasks[c]),
           tasks' = [tasks EXCEPT ![c] = RemoveAt(@, i)]
    PROVE  TasksInv' /\ Gone(c, i)
<1> DEFINE mine == RemoveAt(tasks[c], i)
<1>0. tasks \in [Line -> Seq(Task)] /\ tasks[c] \in Seq(Task)
  BY DEF TasksInv
<1>1. mine \in Seq(Task) /\ Len(mine) = Len(tasks[c]) - 1
      /\ \A j \in 1 .. Len(tasks[c]) - 1 : mine[j] = IF j < i THEN tasks[c][j] ELSE tasks[c][j + 1]
  BY <1>0, RemoveOne
<1>2. tasks' = [tasks EXCEPT ![c] = mine]
  OBVIOUS
<1> HIDE DEF mine
<1>3. /\ tasks' \in [Line -> Seq(Task)] /\ tasks'[c] = mine
      /\ \A d \in Line : d # c => tasks'[d] = tasks[d]
  BY <1>0, <1>1, <1>2
<1>4. \A d \in Line : Len(tasks'[d]) = IF d = c THEN Len(tasks[d]) - 1 ELSE Len(tasks[d])
  BY <1>1, <1>3
<1>5. ASSUME NEW d \in Line, NEW j \in 1 .. Len(tasks'[d])
      PROVE  Was(d, j, c, i) \in 1 .. Len(tasks[d]) /\ tasks'[d][j] = tasks[d][Was(d, j, c, i)]
  <2>0. Len(tasks[d]) \in Nat
    BY <1>0
  <2>1. CASE d = c
    BY <1>1, <1>3, <1>4, <2>0, <2>1 DEF Was
  <2>2. CASE d # c
    BY <1>3, <2>0, <2>2 DEF Was
  <2> QED
    BY <2>1, <2>2
<1>6. ASSUME NEW d \in Line, NEW j \in 1 .. Len(tasks'[d]) PROVE TaskSound(tasks'[d][j], Len(users'))
  <2>1. PICK k \in 1 .. Len(tasks[d]) : tasks'[d][j] = tasks[d][k]
    BY <1>5
  <2>2. TaskSound(tasks[d][k], Len(users))
    BY DEF TasksInv
  <2> QED
    BY <2>1, <2>2, TaskStaysSound DEF Grown
<1>7. ASSUME NEW d \in Line, NEW k \in 1 .. Len(tasks[d]), ~(d = c /\ k = i)
      PROVE  \E j \in 1 .. Len(tasks'[d]) : tasks'[d][j] = tasks[d][k]
  <2> DEFINE j == IF d = c /\ i < k THEN k - 1 ELSE k
  <2>0. Len(tasks[d]) \in Nat /\ k \in Nat /\ i \in Nat
    BY <1>0
  <2>1. j \in 1 .. Len(tasks'[d]) /\ Was(d, j, c, i) = k
    BY <1>4, <1>7, <2>0 DEF Was
  <2> HIDE DEF j
  <2> QED
    BY <1>5, <2>1
<1> QED
  BY <1>3, <1>4, <1>5, <1>6, <1>7 DEF TasksInv, Gone

LEMMA TaskSent ==
    ASSUME TasksInv, Grown, NEW c \in Line, NEW request \in Task, TaskSound(request, Len(users')), Send(c, request)
    PROVE  TasksInv' /\ Added(c, request)
<1> DEFINE mine == Append(tasks[c], request)
<1>0. tasks \in [Line -> Seq(Task)] /\ tasks[c] \in Seq(Task)
  BY DEF TasksInv
<1>1. mine \in Seq(Task) /\ Len(mine) = Len(tasks[c]) + 1
      /\ \A j \in 1 .. Len(tasks[c]) + 1 : mine[j] = IF j = Len(tasks[c]) + 1 THEN request ELSE tasks[c][j]
  BY <1>0
<1>2. tasks' = [tasks EXCEPT ![c] = mine]
  BY DEF Send
<1> HIDE DEF mine
<1>3. /\ tasks' \in [Line -> Seq(Task)] /\ tasks'[c] = mine
      /\ \A d \in Line : d # c => tasks'[d] = tasks[d]
  BY <1>0, <1>1, <1>2
<1>4. ASSUME NEW d \in Line
      PROVE  Len(tasks[d]) \in Nat /\ Len(tasks'[d]) = IF d = c THEN Len(tasks[d]) + 1 ELSE Len(tasks[d])
  BY <1>0, <1>1, <1>3
<1>5. ASSUME NEW d \in Line, NEW j \in 1 .. Len(tasks'[d])
      PROVE  tasks'[d][j] = IF d = c /\ j = Len(tasks[d]) + 1 THEN request ELSE tasks[d][j]
  BY <1>1, <1>3, <1>4
<1>6. ASSUME NEW d \in Line, NEW j \in 1 .. Len(tasks'[d]) PROVE TaskSound(tasks'[d][j], Len(users'))
  <2>1. CASE d = c /\ j = Len(tasks[d]) + 1
    BY <1>5, <2>1
  <2>2. CASE ~(d = c /\ j = Len(tasks[d]) + 1)
    BY <1>4, <1>5, <2>2, TaskStaysSound DEF TasksInv, Grown
  <2> QED
    BY <2>1, <2>2
<1> QED
  BY <1>3, <1>4, <1>5, <1>6 DEF TasksInv, Added

LEMMA AnswersKept ==
    ASSUME AnswersInv, Grown, UNCHANGED answers
    PROVE  AnswersInv'
BY DEF AnswersInv, Grown

LEMMA OneMoreAnswer ==
    ASSUME AnswersInv, Grown, NEW c \in Line, NEW answer \in Told,
           TellsName(answer) => answer.id \in 1 .. Len(users'),
           answers' = [answers EXCEPT ![c] = Append(@, answer)]
    PROVE  AnswersInv' /\ Said(c, answer)
<1> DEFINE mine == Append(answers[c], answer)
<1>0. answers \in [Line -> Seq(Told)] /\ answers[c] \in Seq(Told)
  BY DEF AnswersInv
<1>1. mine \in Seq(Told) /\ Len(mine) = Len(answers[c]) + 1
      /\ \A k \in 1 .. Len(answers[c]) + 1 : mine[k] = IF k = Len(answers[c]) + 1 THEN answer ELSE answers[c][k]
  BY <1>0
<1>2. answers' = [answers EXCEPT ![c] = mine]
  OBVIOUS
<1> HIDE DEF mine
<1>3. /\ answers' \in [Line -> Seq(Told)] /\ answers'[c] = mine
      /\ \A d \in Line : d # c => answers'[d] = answers[d]
  BY <1>0, <1>1, <1>2
<1>4. ASSUME NEW d \in Line
      PROVE  Len(answers[d]) \in Nat
             /\ Len(answers'[d]) = IF d = c THEN Len(answers[d]) + 1 ELSE Len(answers[d])
  BY <1>0, <1>1, <1>3
<1>5. ASSUME NEW d \in Line, NEW k \in 1 .. Len(answers'[d])
      PROVE  answers'[d][k] = IF d = c /\ k = Len(answers[d]) + 1 THEN answer ELSE answers[d][k]
  BY <1>1, <1>3, <1>4
<1>6. ASSUME NEW d \in Line, NEW k \in 1 .. Len(answers'[d]), TellsName(answers'[d][k])
      PROVE  answers'[d][k].id \in 1 .. Len(users')
  <2>1. CASE d = c /\ k = Len(answers[d]) + 1
    BY <1>5, <1>6, <2>1
  <2>2. CASE ~(d = c /\ k = Len(answers[d]) + 1)
    <3>1. k \in 1 .. Len(answers[d]) /\ answers'[d][k] = answers[d][k]
      BY <1>4, <1>5, <2>2
    <3> QED
      BY <1>6, <3>1 DEF AnswersInv, Grown
  <2> QED
    BY <2>1, <2>2
<1> QED
  BY <1>3, <1>4, <1>5, <1>6 DEF AnswersInv, Said

LEMMA ResultTyped ==
    ASSUME NEW op \in Operations, NEW ok \in BOOLEAN
    PROVE  Result(op, ok) \in Told /\ Result(op, ok).op = op /\ Result(op, ok).ok = ok
BY DEF Result, Told, Salt, Text

LEMMA Answered ==
    ASSUME Base, Grown, NEW c \in Line, NEW i \in 1 .. Len(tasks[c]), NEW answer \in Told,
           TellsName(answer) => answer.id \in 1 .. Len(users'), Answer(c, i, answer)
    PROVE  TasksInv' /\ AnswersInv' /\ Gone(c, i) /\ Said(c, answer)
BY TaskAnswered, OneMoreAnswer DEF Base, Answer

\* The request is answered, and the answer names nobody.
Closes(c, i) == \E answer \in Told : ~TellsName(answer) /\ Answer(c, i, answer)

LEMMA Denied ==
    ASSUME Base, NEW c \in Line, NEW i \in 1 .. Len(tasks[c]), Deny(c, i)
    PROVE  Closes(c, i)
<1> DEFINE answer == Result(tasks[c][i].op, FALSE)
<1>1. tasks[c][i] \in Task
  BY DEF Base, TasksInv
<1>2. answer \in Told /\ ~TellsName(answer)
  BY <1>1, ResultTyped DEF TellsName, Requests, Operations, Task
<1> HIDE DEF answer
<1>3. Answer(c, i, answer)
  BY DEF Deny, answer
<1> QED
  BY <1>2, <1>3 DEF Closes

LEMMA Granted ==
    ASSUME Base, NEW c \in Line, NEW i \in 1 .. Len(tasks[c]), tasks[c][i].op # "Auth", Grant(c, i)
    PROVE  Closes(c, i)
<1> DEFINE answer == Result(tasks[c][i].op, TRUE)
<1>1. tasks[c][i] \in Task
  BY DEF Base, TasksInv
<1>2. answer \in Told /\ ~TellsName(answer)
  BY <1>1, ResultTyped DEF TellsName, Requests, Operations, Task
<1> HIDE DEF answer
<1>3. Answer(c, i, answer)
  BY DEF Grant, answer
<1> QED
  BY <1>2, <1>3 DEF Closes

\* An answer with an account's salt.
LEMMA SaltTold ==
    ASSUME NEW c \in Line, NEW i, NEW op \in {"InitialAuth", "GetMySalt"}, NEW salt \in Salt,
           Answer(c, i, [Result(op, TRUE) EXCEPT !.salt = salt])
    PROVE  Closes(c, i)
<1> DEFINE answer == [Result(op, TRUE) EXCEPT !.salt = salt]
<1>1. answer \in Told /\ ~TellsName(answer)
  BY Zenon DEF Result, Told, TellsName, Requests, Operations, Salt, Text
<1> HIDE DEF answer
<1>2. Answer(c, i, answer)
  BY DEF answer
<1> QED
  BY <1>1, <1>2 DEF Closes

\* A handler goes on to its next stage with what it has read.
GoneOn(task, stage, object, id) == [task EXCEPT !.stage = stage, !.object = object, !.id = id]

LEMMA GoneOnTyped ==
    ASSUME NEW task \in Task, NEW stage \in TaskStages, NEW object \in UserObject, NEW id \in Nat
    PROVE  LET new == GoneOn(task, stage, object, id)
           IN  /\ new \in Task /\ new.stage = stage /\ new.object = object /\ new.id = id
               /\ new.op = task.op /\ new.name = task.name /\ new.password = task.password
               /\ new.hash = task.hash /\ new.salt = task.salt
BY DEF GoneOn, Task

LEMMA WentOn ==
    ASSUME Base, Grown, NEW c \in Line, NEW i \in 1 .. Len(tasks[c]),
           NEW stage \in TaskStages, NEW object \in UserObject, NEW id \in Nat,
           TaskSound(GoneOn(tasks[c][i], stage, object, id), Len(users')), Proceed(c, i, stage, object, id)
    PROVE  TasksInv' /\ AnswersInv' /\ Replaced(c, i, GoneOn(tasks[c][i], stage, object, id))
<1> DEFINE new == GoneOn(tasks[c][i], stage, object, id)
<1>1. tasks[c][i] \in Task /\ tasks \in [Line -> Seq(Task)]
  BY DEF Base, TasksInv
<1>2. new \in Task
  BY <1>1, GoneOnTyped
<1>3. tasks' = [tasks EXCEPT ![c][i] = new]
  BY <1>1 DEF Proceed, GoneOn
<1> HIDE DEF new
<1>4. TaskSound(new, Len(users'))
  BY DEF new
<1>5. TasksInv' /\ Replaced(c, i, new)
  BY <1>2, <1>3, <1>4, TaskAdvanced DEF Base
<1> QED
  BY <1>5, AnswersKept DEF Base, Proceed, new

\* The objects the handlers make of a row.
LEMMA ObjectTyped ==
    ASSUME NEW user \in UserObject, NEW name \in Text, NEW hash \in Hash \cup {NULL}, NEW salt \in Salt
    PROVE  /\ LET new == setUsername(user, name)
              IN  /\ new \in UserObject /\ new.dirty = user.dirty \cup {"username"}
                  /\ new.values.username = name
                  /\ new.values.hash_password = user.values.hash_password /\ new.values.salt = user.values.salt
           /\ LET new == setSalt(setHashPassword(user, hash), salt)
              IN  /\ new \in UserObject /\ new.dirty = user.dirty \cup {"hash_password", "salt"}
                  /\ new.values.hash_password = hash /\ new.values.salt = salt
                  /\ new.values.username = user.values.username
BY DEF setUsername, setHashPassword, setSalt, Set, UserObject, UserRow

LEMMA ReadTyped ==
    ASSUME NEW row \in UserRow
    PROVE  Users(row) \in UserObject /\ Users(row).values = row /\ Users(row).dirty = {}
BY DEF Users, Read, UserObject

\* An update writes what was set, and nothing else.
LEMMA UpdatedUser ==
    ASSUME NEW row \in UserRow, NEW object \in UserObject
    PROVE  LET new == UpdateUsers(row, object)
           IN  /\ new \in UserRow
               /\ new.username = IF "username" \in object.dirty THEN object.values.username ELSE row.username
               /\ new.hash_password = IF "hash_password" \in object.dirty THEN object.values.hash_password
                                      ELSE row.hash_password
               /\ new.salt = IF "salt" \in object.dirty THEN object.values.salt ELSE row.salt
<1> DEFINE new == UpdateUsers(row, object)
<1>1. new.username = IF "username" \in object.dirty THEN object.values.username ELSE row.username
  BY DEF UpdateUsers, Updated, updateColumns, UserRow, UserObject
<1>2. new.hash_password = IF "hash_password" \in object.dirty THEN object.values.hash_password
                          ELSE row.hash_password
  BY DEF UpdateUsers, Updated, updateColumns, UserRow, UserObject
<1>3. new.salt = IF "salt" \in object.dirty THEN object.values.salt ELSE row.salt
  BY DEF UpdateUsers, Updated, updateColumns, UserRow, UserObject
<1>4. new \in UserRow
  BY DEF UpdateUsers, Updated, updateColumns, UserRow, UserObject
<1> QED
  BY <1>1, <1>2, <1>3, <1>4

LEMMA InsertedUser ==
    ASSUME NEW name \in Text, NEW hash \in Hash \cup {NULL}, NEW salt \in Salt
    PROVE  LET new == InsertUsers(setSalt(setHashPassword(setUsername(BlankUser, name), hash), salt))
           IN  new \in UserRow /\ new.username = name /\ new.hash_password = hash /\ new.salt = salt
BY Zenon DEF InsertUsers, Inserted, setUsername, setHashPassword, setSalt, Set, BlankUser, Read, UserRow, Salt, Text

-----------------------------------------------------------------------------
(***************************************************************************)
(* A request is answered or goes on: what is left of the invariant.        *)
(***************************************************************************)

LEMMA TaskTyped ==
    ASSUME Base, NEW c \in Line, NEW i \in 1 .. Len(tasks[c])
    PROVE  tasks[c][i] \in Task /\ TaskSound(tasks[c][i], Len(users))
BY DEF Base, TasksInv

LEMMA TaskOfSomeone ==
    ASSUME Base, NEW c \in Line, NEW i \in 1 .. Len(tasks[c]), tasks[c][i].stage # "new"
    PROVE  tasks[c][i].id \in 1 .. Len(users)
BY TaskTyped DEF TaskSound

LEMMA MigratesGone ==
    ASSUME Base, MigratesHold, BelievedKept, HistoryGrows, NEW c \in Line, NEW i, Gone(c, i)
    PROVE  MigratesHold'
<1> SUFFICES ASSUME NEW d \in Line, NEW j \in 1 .. Len(tasks'[d]),
                    tasks'[d][j].stage = "migrate", tasks'[d][j].id \notin doubt'
             PROVE  tasks'[d][j].password \in believed'[tasks'[d][j].id]
  BY DEF MigratesHold
<1>1. PICK k \in 1 .. Len(tasks[d]) : tasks'[d][j] = tasks[d][k]
  BY DEF Gone
<1> QED
  BY <1>1 DEF MigratesHold, BelievedKept, HistoryGrows

LEMMA KnownGone ==
    ASSUME Base, KnownInv, NamesKept, HistoryGrows, NEW c \in Line, NEW i, Gone(c, i)
    PROVE  KnownInv'
<1> SUFFICES ASSUME NEW d \in Line, NEW j \in 1 .. Len(tasks'[d]), tasks'[d][j].id \notin renamed',
                    tasks'[d][j].stage \in {"migrate", "login", "answer", "tell"}
             PROVE  /\ tasks'[d][j].stage \in {"migrate", "login", "answer"} =>
                          tasks'[d][j].object.values.username = users'[tasks'[d][j].id].username
                    /\ tasks'[d][j].stage = "tell" => tasks'[d][j].name = users'[tasks'[d][j].id].username
  BY DEF KnownInv
<1>1. PICK k \in 1 .. Len(tasks[d]) : tasks'[d][j] = tasks[d][k]
  BY DEF Gone
<1>2. users'[tasks[d][k].id].username = users[tasks[d][k].id].username
  BY <1>1, TaskOfSomeone DEF NamesKept
<1> QED
  BY <1>1, <1>2 DEF KnownInv, HistoryGrows

LEMMA AloneGone ==
    ASSUME Base, AloneInv, HistoryGrows, NEW c \in Line, NEW i \in 1 .. Len(tasks[c]), Gone(c, i)
    PROVE  AloneInv'
<1> SUFFICES ASSUME NEW d \in Line, NEW e \in Line, NEW j \in 1 .. Len(tasks'[d]), NEW k \in 1 .. Len(tasks'[e]),
                    tasks'[d][j].id \notin renamed', Overlap(tasks'[d][j], tasks'[e][k])
             PROVE  d = e /\ j = k
  BY DEF AloneInv, Overlap
<1>1. Was(d, j, c, i) \in 1 .. Len(tasks[d]) /\ tasks'[d][j] = tasks[d][Was(d, j, c, i)]
  BY DEF Gone
<1>2. Was(e, k, c, i) \in 1 .. Len(tasks[e]) /\ tasks'[e][k] = tasks[e][Was(e, k, c, i)]
  BY DEF Gone
<1>3. d = e /\ Was(d, j, c, i) = Was(e, k, c, i)
  BY <1>1, <1>2 DEF AloneInv, HistoryGrows
<1> QED
  BY <1>3 DEF Was

LEMMA TellingGone ==
    ASSUME NEW c \in Line, NEW i, Gone(c, i), NEW id, tasks[c][i].stage # "tell" \/ tasks[c][i].id # id, Telling(id)
    PROVE  Telling(id)'
<1>1. PICK d \in Line : \E j \in 1 .. Len(tasks[d]) : tasks[d][j].stage = "tell" /\ tasks[d][j].id = id
  BY DEF Telling
<1>2. PICK j \in 1 .. Len(tasks[d]) : tasks[d][j].stage = "tell" /\ tasks[d][j].id = id
  BY <1>1
<1>3. ~(d = c /\ j = i)
  BY <1>2
<1>4. \E k \in 1 .. Len(tasks'[d]) : tasks'[d][k] = tasks[d][j]
  BY <1>3 DEF Gone
<1> QED
  BY <1>2, <1>4 DEF Telling

LEMMA HearsOn ==
    ASSUME Base, NEW c \in Line, NEW answer, Said(c, answer), NEW id, users'[id].username = users[id].username,
           NEW d \in Line, NEW k, Hears(d, id, k)
    PROVE  Hears(d, id, k)'
<1>1. PICK j \in 1 .. Len(answers[d]) :
          /\ k < j /\ TellsName(answers[d][j])
          /\ answers[d][j].id = id /\ answers[d][j].name = users[id].username
  BY DEF Hears
<1>2. Len(answers[d]) \in Nat
  BY DEF Base, AnswersInv
<1>3. j \in 1 .. Len(answers'[d]) /\ answers'[d][j] = answers[d][j]
  BY <1>2 DEF Said
<1> QED
  BY <1>1, <1>3 DEF Hears

LEMMA AnswerHeard ==
    ASSUME Base, HistoryGrows, NamesKept, NEW c \in Line, NEW answer, Said(c, answer),
           \A id \in 1 .. Len(users) : id \notin renamed' /\ Telling(id) => Telling(id)',
           NEW d \in Line, NEW id \in 1 .. Len(users), NEW name, NEW k,
           id \notin renamed' /\ NameComes(d, id, name, k)
    PROVE  NameComes(d, id, name, k)'
BY HearsOn DEF NameComes, NamesKept

LEMMA ShownSaid ==
    ASSUME Base, ShownInv, HistoryGrows, NamesKept, NEW c \in Line, NEW answer, Said(c, answer),
           \A id \in 1 .. Len(users) : id \notin renamed' /\ Telling(id) => Telling(id)', UNCHANGED form
    PROVE  ShownInv'
<1> SUFFICES ASSUME NEW d \in Line, NEW id, NEW name,
                    id = form[d].id, name = form[d].name, form[d].panel = "rooms", id \notin renamed'
             PROVE  NameComes(d, id, name, 0)'
  BY DEF ShownInv, NameComes, Telling, Hears
<1>1. id \in 1 .. Len(users) /\ NameComes(d, id, name, 0)
  BY DEF Base, FormsInv, ShownInv, HistoryGrows
<1> QED
  BY <1>1, AnswerHeard

LEMMA ToldSaid ==
    ASSUME Base, Base', ToldInv, HistoryGrows, NamesKept, NEW c \in Line, NEW answer, Said(c, answer),
           \A id \in 1 .. Len(users) : id \notin renamed' /\ Telling(id) => Telling(id)',
           TellsName(answer) /\ answer.id \notin renamed' => answer.name = users'[answer.id].username
    PROVE  ToldInv'
<1> SUFFICES ASSUME NEW d \in Line, NEW k \in 1 .. Len(answers'[d]),
                    TellsName(answers[d][k])', (answers[d][k].id \notin renamed)'
             PROVE  NameComes(d, answers[d][k].id, answers[d][k].name, k)'
  BY DEF ToldInv
<1> SUFFICES ASSUME NEW id, NEW name, id = answers'[d][k].id, name = answers'[d][k].name
             PROVE  NameComes(d, id, name, k)'
  BY DEF NameComes, Telling, Hears
<1>1. TellsName(answers'[d][k]) /\ id \notin renamed'
  BY DEF TellsName
<1>2. Len(answers[d]) \in Nat
  BY DEF Base, AnswersInv
<1>3. CASE d = c /\ k = Len(answers[d]) + 1
  BY <1>1, <1>3 DEF Said, NameComes
<1>4. CASE ~(d = c /\ k = Len(answers[d]) + 1)
  <2>1. k \in 1 .. Len(answers[d]) /\ answers'[d][k] = answers[d][k]
    BY <1>2, <1>4 DEF Said
  <2>2. id \in 1 .. Len(users) /\ NameComes(d, id, name, k)
    BY <1>1, <2>1 DEF Base, AnswersInv, ToldInv, HistoryGrows
  <2> QED
    BY <1>1, <2>2, AnswerHeard
<1> QED
  BY <1>3, <1>4

LEMMA ListedSaid ==
    ASSUME Base, ListedInv, ListedKept, NEW c \in Line, NEW i, NEW answer, Said(c, answer), Gone(c, i),
           TellsName(answer) => login[c].listed, UNCHANGED form
    PROVE  ListedInv'
<1> SUFFICES ASSUME NEW d \in Line
             PROVE  /\ form[d].panel = "rooms" => login'[d].listed
                    /\ \A k \in 1 .. Len(answers'[d]) : TellsName(answers'[d][k]) => login'[d].listed
                    /\ \A j \in 1 .. Len(tasks'[d]) : tasks'[d][j].stage = "answer" => login'[d].listed
  BY DEF ListedInv, TellsName
<1>1. form[d].panel = "rooms" => login'[d].listed
  BY DEF ListedInv, ListedKept
<1>2. ASSUME NEW k \in 1 .. Len(answers'[d]), TellsName(answers'[d][k]) PROVE login'[d].listed
  <2>0. Len(answers[d]) \in Nat
    BY DEF Base, AnswersInv
  <2>1. CASE d = c /\ k = Len(answers[d]) + 1
    BY <1>2, <2>1 DEF Said, ListedKept
  <2>2. CASE ~(d = c /\ k = Len(answers[d]) + 1)
    <3>1. k \in 1 .. Len(answers[d]) /\ answers'[d][k] = answers[d][k]
      BY <2>0, <2>2 DEF Said
    <3> QED
      BY <1>2, <3>1 DEF ListedInv, ListedKept
  <2> QED
    BY <2>1, <2>2
<1>3. ASSUME NEW j \in 1 .. Len(tasks'[d]), tasks'[d][j].stage = "answer" PROVE login'[d].listed
  BY <1>3 DEF Gone, ListedInv, ListedKept
<1> QED
  BY <1>1, <1>2, <1>3

\* What a step that answers or goes on does to the rows and the sessions.
Writes ==
    /\ Grown /\ HistoryGrows /\ NamesKept /\ BelievedKept /\ ListedKept
    /\ UsersInv' /\ LoginsInv' /\ RowsHold' /\ NamesDiffer'
    /\ UNCHANGED form

LEMMA FormsKept ==
    ASSUME Base, Grown, UNCHANGED form
    PROVE  FormsInv'
BY DEF Base, FormsInv, Grown

LEMMA Replied ==
    ASSUME AccountsInv, NEW c \in Line, NEW i \in 1 .. Len(tasks[c]), tasks[c][i].stage # "tell",
           NEW answer \in Told, Answer(c, i, answer), Writes,
           TellsName(answer) =>
              /\ answer.id \in 1 .. Len(users') /\ login[c].listed
              /\ answer.id \notin renamed' => answer.name = users'[answer.id].username
    PROVE  AccountsInv'
<1>1. TasksInv' /\ AnswersInv' /\ Gone(c, i) /\ Said(c, answer)
  BY Answered DEF AccountsInv, Writes
<1>2. Base'
  BY <1>1, FormsKept DEF AccountsInv, Base, Writes
<1>3. MigratesHold' /\ KnownInv' /\ AloneInv'
  BY <1>1, MigratesGone, KnownGone, AloneGone DEF AccountsInv, Writes
<1>4. \A id \in 1 .. Len(users) : id \notin renamed' /\ Telling(id) => Telling(id)'
  BY <1>1, TellingGone
<1>5. ShownInv' /\ ToldInv' /\ ListedInv'
  BY <1>1, <1>2, <1>4, ShownSaid, ToldSaid, ListedSaid DEF AccountsInv, Writes
<1> QED
  BY <1>2, <1>3, <1>5 DEF AccountsInv, Writes

LEMMA Closed ==
    ASSUME AccountsInv, NEW c \in Line, NEW i \in 1 .. Len(tasks[c]), tasks[c][i].stage # "tell",
           Closes(c, i), Writes
    PROVE  AccountsInv'
BY Replied DEF Closes

LEMMA MigratesReplaced ==
    ASSUME Base, MigratesHold, BelievedKept, HistoryGrows,
           NEW c \in Line, NEW i \in 1 .. Len(tasks[c]), NEW new, Replaced(c, i, new),
           new.stage = "migrate" /\ new.id \notin doubt' => new.password \in believed'[new.id]
    PROVE  MigratesHold'
<1> SUFFICES ASSUME NEW d \in Line, NEW j \in 1 .. Len(tasks'[d]),
                    tasks'[d][j].stage = "migrate", tasks'[d][j].id \notin doubt'
             PROVE  tasks'[d][j].password \in believed'[tasks'[d][j].id]
  BY DEF MigratesHold
<1>1. j \in 1 .. Len(tasks[d]) /\ tasks'[d][j] = IF d = c /\ j = i THEN new ELSE tasks[d][j]
  BY DEF Replaced
<1> QED
  BY <1>1 DEF MigratesHold, BelievedKept, HistoryGrows

LEMMA KnownReplaced ==
    ASSUME Base, KnownInv, NamesKept, HistoryGrows,
           NEW c \in Line, NEW i \in 1 .. Len(tasks[c]), NEW new, Replaced(c, i, new),
           new.id \notin renamed' =>
              /\ new.stage \in {"migrate", "login", "answer"} =>
                    new.object.values.username = users'[new.id].username
              /\ new.stage = "tell" => new.name = users'[new.id].username
    PROVE  KnownInv'
<1> SUFFICES ASSUME NEW d \in Line, NEW j \in 1 .. Len(tasks'[d]), tasks'[d][j].id \notin renamed',
                    tasks'[d][j].stage \in {"migrate", "login", "answer", "tell"}
             PROVE  /\ tasks'[d][j].stage \in {"migrate", "login", "answer"} =>
                          tasks'[d][j].object.values.username = users'[tasks'[d][j].id].username
                    /\ tasks'[d][j].stage = "tell" => tasks'[d][j].name = users'[tasks'[d][j].id].username
  BY DEF KnownInv
<1>1. j \in 1 .. Len(tasks[d]) /\ tasks'[d][j] = IF d = c /\ j = i THEN new ELSE tasks[d][j]
  BY DEF Replaced
<1>2. CASE d = c /\ j = i
  BY <1>1, <1>2
<1>3. CASE ~(d = c /\ j = i)
  <2>1. users'[tasks[d][j].id].username = users[tasks[d][j].id].username
    BY <1>1, <1>3, TaskOfSomeone DEF NamesKept
  <2> QED
    BY <1>1, <1>3, <2>1 DEF KnownInv, HistoryGrows
<1> QED
  BY <1>2, <1>3

\* No other request overlaps with what the i-th of c becomes.
Alone(c, i, new) ==
    \A d \in Line : \A j \in 1 .. Len(tasks[d]) :
        new.id \notin renamed' /\ (Overlap(new, tasks[d][j]) \/ Overlap(tasks[d][j], new)) => d = c /\ j = i

LEMMA AloneReplaced ==
    ASSUME Base, AloneInv, HistoryGrows, NEW c \in Line, NEW i \in 1 .. Len(tasks[c]), NEW new,
           Replaced(c, i, new), Alone(c, i, new)
    PROVE  AloneInv'
<1> SUFFICES ASSUME NEW d \in Line, NEW e \in Line, NEW j \in 1 .. Len(tasks'[d]), NEW k \in 1 .. Len(tasks'[e]),
                    tasks'[d][j].id \notin renamed', Overlap(tasks'[d][j], tasks'[e][k])
             PROVE  d = e /\ j = k
  BY DEF AloneInv, Overlap
<1>1. j \in 1 .. Len(tasks[d]) /\ tasks'[d][j] = IF d = c /\ j = i THEN new ELSE tasks[d][j]
  BY DEF Replaced
<1>2. k \in 1 .. Len(tasks[e]) /\ tasks'[e][k] = IF e = c /\ k = i THEN new ELSE tasks[e][k]
  BY DEF Replaced
<1>3. tasks'[d][j].id = tasks'[e][k].id
  BY DEF Overlap
<1>4. CASE d = c /\ j = i
  BY <1>1, <1>2, <1>4 DEF Alone
<1>5. CASE e = c /\ k = i
  BY <1>1, <1>2, <1>3, <1>5 DEF Alone
<1>6. CASE ~(d = c /\ j = i) /\ ~(e = c /\ k = i)
  BY <1>1, <1>2, <1>6 DEF AloneInv, HistoryGrows
<1> QED
  BY <1>4, <1>5, <1>6

LEMMA TellingReplaced ==
    ASSUME NEW c \in Line, NEW i \in 1 .. Len(tasks[c]), NEW new, Replaced(c, i, new),
           tasks[c][i].stage # "tell", NEW id, Telling(id)
    PROVE  Telling(id)'
<1>0. PICK d \in Line : \E j \in 1 .. Len(tasks[d]) : tasks[d][j].stage = "tell" /\ tasks[d][j].id = id
  BY DEF Telling
<1>1. PICK j \in 1 .. Len(tasks[d]) : tasks[d][j].stage = "tell" /\ tasks[d][j].id = id
  BY <1>0
<1>2. j \in 1 .. Len(tasks'[d]) /\ tasks'[d][j] = tasks[d][j]
  BY <1>1 DEF Replaced
<1> QED
  BY <1>1, <1>2 DEF Telling

\* Whether a name is told to everybody now, or is what it was.
NamesMove ==
    \A id \in 1 .. Len(users) : id \notin renamed' =>
        Telling(id)' \/ (users'[id].username = users[id].username /\ ~Telling(id))

LEMMA ComesStill ==
    ASSUME NamesMove, UNCHANGED answers, NEW d \in Line, NEW id \in 1 .. Len(users), NEW name, NEW k,
           id \notin renamed', NameComes(d, id, name, k)
    PROVE  NameComes(d, id, name, k)'
<1>1. CASE Telling(id)'
  BY <1>1 DEF NameComes
<1>2. CASE users'[id].username = users[id].username /\ ~Telling(id)
  <2>1. name = users[id].username \/ Hears(d, id, k)
    BY <1>2 DEF NameComes
  <2>2. Hears(d, id, k) => Hears(d, id, k)'
    BY <1>2 DEF Hears
  <2> QED
    BY <1>2, <2>1, <2>2 DEF NameComes
<1> QED
  BY <1>1, <1>2 DEF NamesMove

LEMMA NothingSaid ==
    ASSUME Base, ShownInv, ToldInv, HistoryGrows, NamesMove, UNCHANGED <<answers, form>>
    PROVE  ShownInv' /\ ToldInv'
<1>1. ASSUME NEW d \in Line, NEW id, NEW name,
             id = form[d].id, name = form[d].name, form[d].panel = "rooms", id \notin renamed'
      PROVE  NameComes(d, id, name, 0)'
  <2>1. id \in 1 .. Len(users) /\ NameComes(d, id, name, 0)
    BY <1>1 DEF Base, FormsInv, ShownInv, HistoryGrows
  <2> QED
    BY <1>1, <2>1, ComesStill
<1>2. ShownInv'
  BY <1>1 DEF ShownInv, NameComes, Telling, Hears
<1>3. ASSUME NEW d \in Line, NEW k \in 1 .. Len(answers'[d]),
             TellsName(answers[d][k])', (answers[d][k].id \notin renamed)'
      PROVE  NameComes(d, answers[d][k].id, answers[d][k].name, k)'
  <2> SUFFICES ASSUME NEW id, NEW name, id = answers'[d][k].id, name = answers'[d][k].name
               PROVE  NameComes(d, id, name, k)'
    BY DEF NameComes, Telling, Hears
  <2>1. k \in 1 .. Len(answers[d]) /\ TellsName(answers[d][k]) /\ id \notin renamed'
    BY <1>3 DEF TellsName
  <2>2. id \in 1 .. Len(users) /\ NameComes(d, id, name, k)
    BY <2>1 DEF Base, AnswersInv, ToldInv, HistoryGrows
  <2> QED
    BY <2>1, <2>2, ComesStill
<1>4. ToldInv'
  BY <1>3 DEF ToldInv
<1> QED
  BY <1>2, <1>4

LEMMA ListedReplaced ==
    ASSUME ListedInv, ListedKept, UNCHANGED <<answers, form>>,
           NEW c \in Line, NEW i \in 1 .. Len(tasks[c]), NEW new, Replaced(c, i, new),
           new.stage = "answer" => login'[c].listed
    PROVE  ListedInv'
<1> SUFFICES ASSUME NEW d \in Line
             PROVE  /\ form[d].panel = "rooms" => login'[d].listed
                    /\ \A k \in 1 .. Len(answers[d]) : TellsName(answers[d][k]) => login'[d].listed
                    /\ \A j \in 1 .. Len(tasks'[d]) : tasks'[d][j].stage = "answer" => login'[d].listed
  BY DEF ListedInv, TellsName
<1>1. form[d].panel = "rooms" => login'[d].listed
  BY DEF ListedInv, ListedKept
<1>2. \A k \in 1 .. Len(answers[d]) : TellsName(answers[d][k]) => login'[d].listed
  BY DEF ListedInv, ListedKept
<1>3. ASSUME NEW j \in 1 .. Len(tasks'[d]), tasks'[d][j].stage = "answer" PROVE login'[d].listed
  <2>1. j \in 1 .. Len(tasks[d]) /\ tasks'[d][j] = IF d = c /\ j = i THEN new ELSE tasks[d][j]
    BY DEF Replaced
  <2>2. (tasks'[d][j] = new /\ d = c) \/ tasks'[d][j] = tasks[d][j]
    BY <2>1
  <2> QED
    BY <1>3, <2>1, <2>2 DEF ListedInv, ListedKept
<1> QED
  BY <1>1, <1>2, <1>3

\* What a request must have to go on as new.
MayGoOn(c, i, new) ==
    /\ TaskSound(new, Len(users')) /\ Alone(c, i, new)
    /\ new.stage = "migrate" /\ new.id \notin doubt' => new.password \in believed'[new.id]
    /\ new.id \notin renamed' =>
          /\ new.stage \in {"migrate", "login", "answer"} => new.object.values.username = users'[new.id].username
          /\ new.stage = "tell" => new.name = users'[new.id].username
    /\ new.stage = "answer" => login'[c].listed

LEMMA Advanced ==
    ASSUME AccountsInv, NEW c \in Line, NEW i \in 1 .. Len(tasks[c]), tasks[c][i].stage # "tell",
           NEW stage \in TaskStages, NEW object \in UserObject, NEW id \in Nat,
           Proceed(c, i, stage, object, id), MayGoOn(c, i, GoneOn(tasks[c][i], stage, object, id)), Writes
    PROVE  AccountsInv'
<1> DEFINE new == GoneOn(tasks[c][i], stage, object, id)
<1>1. TasksInv' /\ AnswersInv' /\ Replaced(c, i, new)
  BY WentOn DEF AccountsInv, Writes, MayGoOn
<1>2. MayGoOn(c, i, new) /\ UNCHANGED <<answers, form>>
  BY DEF Proceed, Writes
<1> HIDE DEF new
<1>3. Base'
  BY <1>1, FormsKept DEF AccountsInv, Base, Writes
<1>4. PICK it : it = new
  OBVIOUS
<1>5. Replaced(c, i, it) /\ MayGoOn(c, i, it)
  BY <1>1, <1>2, <1>4
<1>6. MigratesHold' /\ KnownInv' /\ AloneInv' /\ ListedInv'
  BY <1>2, <1>5, MigratesReplaced, KnownReplaced, AloneReplaced, ListedReplaced DEF AccountsInv, Writes, MayGoOn
<1>7. ASSUME NEW other \in 1 .. Len(users), other \notin renamed'
      PROVE  Telling(other)' \/ (users'[other].username = users[other].username /\ ~Telling(other))
  BY <1>5, <1>7, TellingReplaced DEF Writes, NamesKept
<1>8. ShownInv' /\ ToldInv'
  BY <1>2, <1>7, NothingSaid DEF AccountsInv, Writes, NamesMove
<1> QED
  BY <1>3, <1>6, <1>8 DEF AccountsInv, Writes

-----------------------------------------------------------------------------
(***************************************************************************)
(* The handlers.                                                           *)
(***************************************************************************)

\* What Handle says besides the handler.
Aside ==
    /\ doubt' = doubt \cup {id \in DOMAIN believed : believed'[id] # believed[id] /\ Migrating(id)}
    /\ UNCHANGED <<form, salts, clicks>>

LEMMA Positions ==
    ASSUME Base
    PROVE  /\ DOMAIN users = 1 .. Len(users) /\ DOMAIN believed = 1 .. Len(users) /\ Len(users) \in Nat
           /\ \A c \in Line : DOMAIN tasks[c] = 1 .. Len(tasks[c])
<1>1. users \in Seq(UserRow) /\ believed \in Seq(SUBSET Secret) /\ Len(believed) = Len(users)
  BY DEF Base, UsersInv
<1>2. \A c \in Line : tasks[c] \in Seq(Task)
  BY DEF Base, TasksInv
<1> QED
  BY <1>1, <1>2

LEMMA LoginKept ==
    ASSUME Base, Grown, UNCHANGED login
    PROVE  LoginsInv' /\ ListedKept
BY DEF Base, LoginsInv, Grown, ListedKept

LEMMA StatusSet ==
    ASSUME Base, Grown, NEW c \in Line, NEW status \in {"Unauthenticated", "Authenticating", "Registering"},
           Status(c, status)
    PROVE  LoginsInv' /\ ListedKept
<1>0. login \in [Line -> Session]
  BY DEF Base, LoginsInv
<1>1. login' = [login EXCEPT ![c].status = status]
  BY DEF Status
<1>2. login' \in [Line -> Session]
  BY <1>0, <1>1 DEF Session
<1>3. \A d \in Line : login'[d].listed = login[d].listed /\ login'[d].id = login[d].id
                      /\ (login'[d].status = login[d].status \/ login'[d].status = status)
  BY <1>0, <1>1 DEF Session
<1> QED
  BY <1>2, <1>3 DEF Base, LoginsInv, Grown, ListedKept

LEMMA NewUserSet ==
    ASSUME Base, Grown, NEW c \in Line, NEW status \in {"Unauthenticated", "Authenticating", "Registering"},
           NEW name \in Text, NewUser(c, status, name)
    PROVE  LoginsInv' /\ ListedKept
<1>0. login \in [Line -> Session]
  BY DEF Base, LoginsInv
<1>1. login' = [login EXCEPT ![c] = [status |-> status, id |-> 0, name |-> name, listed |-> login[c].listed]]
  BY <1>0 DEF NewUser
<1>2. login' \in [Line -> Session]
  BY <1>0, <1>1 DEF Session
<1>3. \A d \in Line : login'[d].listed = login[d].listed
                      /\ (login'[d] = login[d] \/ login'[d].status = status)
  BY <1>0, <1>1 DEF Session
<1> QED
  BY <1>2, <1>3 DEF Base, LoginsInv, Grown, ListedKept

LEMMA NothingWritten ==
    ASSUME AccountsInv, UNCHANGED <<users, believed, form, salts>>, failures' \in Nat,
           HistoryGrows, LoginsInv', ListedKept
    PROVE  Writes
<1>1. Grown /\ UsersInv' /\ BelievedKept /\ NamesKept
  BY Positions DEF AccountsInv, Base, UsersInv, Grown, BelievedKept, NamesKept
<1>2. RowsHold' /\ NamesDiffer'
  BY DEF AccountsInv, RowsHold, NamesDiffer, HistoryGrows
<1> QED
  BY <1>1, <1>2 DEF Writes

\* A request that is answered, with no account changed.
LEMMA Dismissed ==
    ASSUME AccountsInv, Aside, NEW c \in Line, NEW i \in 1 .. Len(tasks[c]), tasks[c][i].stage # "tell",
           Closes(c, i), UNCHANGED <<users, believed, failures, renamed>>,
           \/ UNCHANGED login
           \/ \E status \in {"Unauthenticated", "Authenticating", "Registering"} :
                 Status(c, status) \/ \E name \in Text : NewUser(c, status, name)
    PROVE  AccountsInv'
<1>0. Grown /\ HistoryGrows /\ failures' \in Nat
  BY Positions DEF AccountsInv, Base, UsersInv, Grown, HistoryGrows, Aside
<1>1. LoginsInv' /\ ListedKept
  BY <1>0, LoginKept, StatusSet, NewUserSet DEF AccountsInv
<1>2. Writes
  BY <1>0, <1>1, NothingWritten DEF Aside
<1> QED
  BY <1>2, Closed

LEMMA TheFound ==
    ASSUME NEW ids, ids # {}
    PROVE  TheOne(ids) \in ids
BY DEF TheOne

LEMMA UserTyped ==
    ASSUME Base, NEW id \in 1 .. Len(users)
    PROVE  users[id] \in UserRow
BY DEF Base, UsersInv

LEMMA AuthInitialStep ==
    ASSUME AccountsInv, Aside, NEW c \in Line, NEW i \in 1 .. Len(tasks[c]), handleAuthInitial(c, i)
    PROVE  AccountsInv'
<1>1. Base /\ tasks[c][i].stage # "tell" /\ UNCHANGED <<users, believed, failures, renamed>>
  BY DEF AccountsInv, handleAuthInitial, Turn
<1>2. CASE Deny(c, i) /\ UNCHANGED login
  BY <1>1, <1>2, Denied, Dismissed
<1>3. ASSUME NEW id, id = TheOne(Named(tasks[c][i].name)), Named(tasks[c][i].name) # {},
             NewUser(c, "Authenticating", tasks[c][i].name),
             Answer(c, i, [Result("InitialAuth", TRUE) EXCEPT !.salt = users[id].salt])
      PROVE  AccountsInv'
  <2>1. id \in 1 .. Len(users)
    BY <1>1, <1>3, TheFound, Positions DEF Named
  <2>2. users[id].salt \in Salt /\ tasks[c][i].name \in Text
    BY <1>1, <2>1, UserTyped, TaskTyped DEF UserRow, Task
  <2>3. Closes(c, i)
    BY <1>3, <2>2, SaltTold
  <2> QED
    BY <1>1, <1>3, <2>2, <2>3, Dismissed
<1> QED
  BY <1>2, <1>3 DEF handleAuthInitial

LEMMA RegisterInitialStep ==
    ASSUME AccountsInv, Aside, NEW c \in Line, NEW i \in 1 .. Len(tasks[c]), handleRegisterInitial(c, i)
    PROVE  AccountsInv'
<1>1. Base /\ tasks[c][i].stage # "tell" /\ tasks[c][i].op = "InitialRegister"
      /\ UNCHANGED <<users, believed, failures, renamed>>
  BY DEF AccountsInv, handleRegisterInitial, Turn
<1>2. CASE Deny(c, i) /\ UNCHANGED login
  BY <1>1, <1>2, Denied, Dismissed
<1>3. CASE NewUser(c, "Registering", tasks[c][i].name) /\ Grant(c, i)
  <2>1. tasks[c][i].name \in Text
    BY <1>1, TaskTyped DEF Task
  <2> QED
    BY <1>1, <1>3, <2>1, Granted, Dismissed
<1> QED
  BY <1>2, <1>3 DEF handleRegisterInitial

LEMMA GetSaltStep ==
    ASSUME AccountsInv, Aside, NEW c \in Line, NEW i \in 1 .. Len(tasks[c]), handleGetSalt(c, i)
    PROVE  AccountsInv'
<1>1. Base /\ tasks[c][i].stage # "tell" /\ UNCHANGED <<users, believed, failures, renamed, login>>
  BY DEF AccountsInv, handleGetSalt, Turn
<1>2. CASE Deny(c, i)
  BY <1>1, <1>2, Denied, Dismissed
<1>3. CASE login[c].status = "Authenticated"
           /\ Answer(c, i, [Result("GetMySalt", TRUE) EXCEPT !.salt = users[login[c].id].salt])
  <2>1. users[login[c].id].salt \in Salt
    BY <1>1, <1>3, UserTyped DEF Base, LoginsInv, UserRow
  <2>2. Closes(c, i)
    BY <1>3, <2>1, SaltTold
  <2> QED
    BY <1>1, <2>2, Dismissed
<1> QED
  BY <1>2, <1>3 DEF handleGetSalt

\* A log in goes on with the row it has read.
LEMMA AuthGoesOn ==
    ASSUME AccountsInv, Aside, NEW c \in Line, NEW i \in 1 .. Len(tasks[c]), Turn(c, i, "Auth", "new"),
           NEW id \in 1 .. Len(users), NEW stage \in {"migrate", "login"}, NEW object \in UserObject,
           object.values.username = users[id].username,
           stage = "migrate" =>
              /\ object.dirty = {"hash_password", "salt"} /\ object.values.hash_password = tasks[c][i].hash
              /\ object.values.salt = tasks[c][i].salt
              /\ users[id].hash_password = hash_password(tasks[c][i].password, NULL),
           Proceed(c, i, stage, object, id), renamed' = renamed \cup (IF Renaming(id) THEN {id} ELSE {}),
           UNCHANGED <<users, login, failures, believed>>
    PROVE  AccountsInv'
<1>0. PICK task : task = tasks[c][i]
  OBVIOUS
<1>1. task \in Task /\ TaskSound(task, Len(users)) /\ task.op = "Auth" /\ task.stage = "new"
  BY <1>0, TaskTyped DEF AccountsInv, Turn
<1>2. PICK it : it = GoneOn(task, stage, object, id)
  OBVIOUS
<1>3. /\ it \in Task /\ it.stage = stage /\ it.object = object /\ it.id = id /\ it.op = "Auth"
      /\ it.hash = task.hash /\ it.salt = task.salt /\ it.password = task.password
  <2>1. stage \in TaskStages /\ id \in Nat
    BY Positions DEF TaskStages, AccountsInv
  <2> QED
    BY <1>1, <1>2, <2>1, GoneOnTyped
<1>4. Base /\ Grown /\ HistoryGrows /\ failures' \in Nat
  BY Positions DEF AccountsInv, Base, UsersInv, Grown, HistoryGrows, Aside
<1>5. Writes
  BY <1>4, LoginKept, NothingWritten DEF Aside
<1>6. TaskSound(it, Len(users'))
  BY <1>0, <1>1, <1>3 DEF TaskSound, WritesPassword
<1>7. Alone(c, i, it)
  <2> SUFFICES ASSUME NEW d \in Line, NEW j \in 1 .. Len(tasks[d]), id \notin renamed', Overlap(tasks[d][j], it)
               PROVE  FALSE
    BY <1>3 DEF Alone, Overlap
  <2>1. j \in Holding(d) /\ tasks[d][j].op = "ChangeUsername" /\ tasks[d][j].id = id
    BY <1>3, <1>4, Positions DEF Overlap, Holding
  <2>2. Renaming(id)
    BY <2>1 DEF Renaming
  <2> QED
    BY <2>2
<1>8. stage = "migrate" /\ id \notin doubt' => task.password \in believed'[id]
  <2> HAVE stage = "migrate" /\ id \notin doubt'
  <2>1. users[id].hash_password.password \in believed[id]
    BY <1>4 DEF AccountsInv, RowsHold, HistoryGrows
  <2> QED
    BY <1>0, <2>1 DEF hash_password
<1>9. MayGoOn(c, i, it)
  BY <1>3, <1>6, <1>7, <1>8 DEF MayGoOn
<1>10. stage \in TaskStages /\ id \in Nat /\ tasks[c][i].stage # "tell"
  BY <1>0, <1>1, <1>4, Positions DEF TaskStages
<1> QED
  BY <1>0, <1>2, <1>5, <1>9, <1>10, Advanced

LEMMA AuthReadStep ==
    ASSUME AccountsInv, Aside, NEW c \in Line, NEW i \in 1 .. Len(tasks[c]), AuthRead(c, i)
    PROVE  AccountsInv'
<1>1. Base /\ tasks[c][i].stage # "tell" /\ UNCHANGED <<users, believed, failures>>
  BY DEF AccountsInv, AuthRead, Turn
<1>2. CASE Deny(c, i) /\ UNCHANGED <<login, renamed>>
  BY <1>1, <1>2, Denied, Dismissed
<1>3. CASE Deny(c, i) /\ Status(c, "Unauthenticated") /\ UNCHANGED renamed
  BY <1>1, <1>3, Denied, Dismissed
<1>0. PICK id : id = TheOne(Named(login[c].name))
  OBVIOUS
<1> DEFINE legacy == Users(users[id]).values.salt = NULL
<1>4. ASSUME Named(login[c].name) # {}, UNCHANGED login,
             ~(legacy # tasks[c][i].migrates
               \/ Users(users[id]).values.hash_password #
                     (IF legacy THEN hash_password(tasks[c][i].password, NULL) ELSE tasks[c][i].hash)),
             Proceed(c, i, IF legacy THEN "migrate" ELSE "login",
                     IF legacy THEN setSalt(setHashPassword(Users(users[id]), tasks[c][i].hash), tasks[c][i].salt)
                     ELSE Users(users[id]), id),
             renamed' = renamed \cup (IF Renaming(id) THEN {id} ELSE {})
      PROVE  AccountsInv'
  <2>1. id \in 1 .. Len(users)
    BY <1>0, <1>1, <1>4, TheFound, Positions DEF Named
  <2>2. PICK user : user = Users(users[id])
    OBVIOUS
  <2>3. user \in UserObject /\ user.values = users[id] /\ user.dirty = {}
    BY <1>1, <2>1, <2>2, UserTyped, ReadTyped
  <2>4. Turn(c, i, "Auth", "new")
    BY DEF AuthRead
  <2>5. CASE legacy
    <3>1. PICK object : object = setSalt(setHashPassword(user, tasks[c][i].hash), tasks[c][i].salt)
      OBVIOUS
    <3>2. tasks[c][i].hash \in Hash \cup {NULL} /\ tasks[c][i].salt \in Salt
      BY <1>1, TaskTyped DEF Task
    <3>3. \E name : name \in Text
      BY Zenon DEF Text
    <3>4. /\ object \in UserObject /\ object.dirty = {"hash_password", "salt"}
          /\ object.values.hash_password = tasks[c][i].hash /\ object.values.salt = tasks[c][i].salt
          /\ object.values.username = users[id].username
      BY <2>3, <3>1, <3>2, <3>3, ObjectTyped
    <3>5. Proceed(c, i, "migrate", object, id)
      BY <1>4, <2>2, <2>5, <3>1
    <3>6. users[id].hash_password = hash_password(tasks[c][i].password, NULL)
      BY <1>4, <2>2, <2>3, <2>5
    <3> QED
      BY <1>1, <1>4, <2>1, <2>4, <3>4, <3>5, <3>6, AuthGoesOn
  <2>6. CASE ~legacy
    <3>1. Proceed(c, i, "login", user, id)
      BY <1>4, <2>2, <2>6
    <3> QED
      BY <1>1, <1>4, <2>1, <2>3, <2>4, <3>1, AuthGoesOn
  <2> QED
    BY <2>5, <2>6
<1> QED
  BY <1>0, <1>2, <1>3, <1>4 DEF AuthRead

LEMMA AuthLoginStep ==
    ASSUME AccountsInv, Aside, NEW c \in Line, NEW i \in 1 .. Len(tasks[c]), AuthLogin(c, i)
    PROVE  AccountsInv'
<1>0. PICK task : task = tasks[c][i]
  OBVIOUS
<1>1. /\ Base /\ UNCHANGED <<users, believed, failures, renamed>>
      /\ task.op = "Auth" /\ task.stage = "login"
      /\ login' = [login EXCEPT ![c] = [@ EXCEPT !.status = "Authenticated", !.id = task.id, !.listed = TRUE]]
      /\ Proceed(c, i, "answer", task.object, task.id)
  BY <1>0 DEF AccountsInv, AuthLogin, Turn
<1>2. task \in Task /\ TaskSound(task, Len(users)) /\ task.id \in 1 .. Len(users)
      /\ task.object \in UserObject /\ task.id \in Nat
  BY <1>0, <1>1, TaskTyped DEF TaskSound, Task
<1>3. PICK it : it = GoneOn(task, "answer", task.object, task.id)
  OBVIOUS
<1>4. /\ it \in Task /\ it.stage = "answer" /\ it.object = task.object /\ it.id = task.id /\ it.op = "Auth"
      /\ it.hash = task.hash /\ it.salt = task.salt /\ it.password = task.password
  <2>1. task \in Task /\ "answer" \in TaskStages /\ task.object \in UserObject /\ task.id \in Nat /\ task.op = "Auth"
    BY <1>1, <1>2 DEF TaskStages
  <2> QED
    BY <1>3, <2>1, GoneOnTyped
<1>5. Grown /\ HistoryGrows /\ failures' \in Nat
  BY <1>1, Positions DEF Grown, HistoryGrows, Aside, Base, UsersInv
<1>6. LoginsInv' /\ ListedKept /\ login'[c].listed
  <2>0. login \in [Line -> Session]
    BY <1>1 DEF Base, LoginsInv
  <2>1. login' \in [Line -> Session]
    BY <1>1, <1>2, <2>0 DEF Session
  <2>2. \A d \in Line : IF d = c THEN login'[d].listed /\ login'[d].id = task.id ELSE login'[d] = login[d]
    BY <1>1, <2>0 DEF Session
  <2> QED
    BY <1>1, <1>2, <2>1, <2>2 DEF Base, LoginsInv, ListedKept
<1>7. Writes
  BY <1>1, <1>5, <1>6, NothingWritten DEF Aside
<1>8. TaskSound(it, Len(users'))
  BY <1>1, <1>2, <1>4 DEF TaskSound
<1>9. Alone(c, i, it)
  BY <1>0, <1>1, <1>4 DEF Alone, AccountsInv, AloneInv, Overlap
<1>10. MayGoOn(c, i, it)
  BY <1>0, <1>1, <1>4, <1>6, <1>8, <1>9 DEF MayGoOn, AccountsInv, KnownInv
<1> QED
  BY <1>0, <1>1, <1>2, <1>3, <1>7, <1>10, Advanced DEF TaskStages

\* An object that has set a password and its salt is written.
LEMMA SecretWritten ==
    ASSUME AccountsInv, HistoryGrows, NEW id \in 1 .. Len(users), NEW object \in UserObject, NEW hash \in Hash,
           object.dirty = {"hash_password", "salt"}, object.values.hash_password = hash,
           object.values.salt = hash.salt,
           users' = [users EXCEPT ![id] = UpdateUsers(@, object)],
           believed' \in Seq(SUBSET Secret), Len(believed') = Len(users),
           \A other \in 1 .. Len(users) : other # id => believed'[other] = believed[other],
           id \notin doubt' => hash.password \in believed'[id],
           failures' \in Nat, UNCHANGED salts
    PROVE  Grown /\ UsersInv' /\ RowsHold' /\ NamesDiffer' /\ NamesKept
<1>0. Base /\ users \in Seq(UserRow) /\ Len(users) \in Nat
  BY Positions DEF AccountsInv, Base, UsersInv
<1>1. PICK new : new = UpdateUsers(users[id], object)
  OBVIOUS
<1>2. /\ new \in UserRow /\ new.username = users[id].username
      /\ new.hash_password = hash /\ new.salt = hash.salt
  BY <1>0, <1>1, UserTyped, UpdatedUser
<1>3. users' = [users EXCEPT ![id] = new]
  BY <1>1
<1>4. users' \in Seq(UserRow) /\ Len(users') = Len(users)
      /\ \A other \in 1 .. Len(users) : users'[other] = IF other = id THEN new ELSE users[other]
  BY <1>0, <1>2, <1>3
<1>5. \A other \in 1 .. Len(users) : users'[other].username = users[other].username
  BY <1>2, <1>4
<1>6. Grown /\ UsersInv' /\ NamesKept
  BY <1>0, <1>4, <1>5 DEF Grown, UsersInv, Base, NamesKept
<1>7. NamesDiffer'
  BY <1>4, <1>5 DEF AccountsInv, NamesDiffer
<1>8. ASSUME NEW other \in 1 .. Len(users')
      PROVE  /\ users'[other].hash_password \in Hash /\ users'[other].hash_password.salt = users'[other].salt
             /\ other \notin doubt' => users'[other].hash_password.password \in believed'[other]
  <2>1. CASE other = id
    BY <1>2, <1>4, <2>1
  <2>2. CASE other # id
    <3>1. other \in 1 .. Len(users) /\ users'[other] = users[other] /\ believed'[other] = believed[other]
      BY <1>4, <2>2
    <3> QED
      BY <3>1 DEF AccountsInv, RowsHold, HistoryGrows
  <2> QED
    BY <2>1, <2>2
<1> QED
  BY <1>6, <1>7, <1>8 DEF RowsHold

LEMMA AuthMigrateStep ==
    ASSUME AccountsInv, Aside, NEW c \in Line, NEW i \in 1 .. Len(tasks[c]), AuthMigrate(c, i)
    PROVE  AccountsInv'
<1>0. PICK task : task = tasks[c][i]
  OBVIOUS
<1> DEFINE table == [users EXCEPT ![task.id] = UpdateUsers(@, task.object)]
<1>1. Base /\ task.op = "Auth" /\ task.stage = "migrate" /\ UNCHANGED <<believed, renamed>>
  BY <1>0 DEF AccountsInv, AuthMigrate, Turn
<1>2. /\ task \in Task /\ TaskSound(task, Len(users)) /\ task.id \in 1 .. Len(users)
      /\ task.object \in UserObject /\ task.id \in Nat
      /\ task.hash \in Hash /\ task.hash.salt = task.salt /\ task.hash.password = task.password
      /\ task.object.dirty = {"hash_password", "salt"}
      /\ task.object.values.hash_password = task.hash /\ task.object.values.salt = task.hash.salt
  BY <1>0, <1>1, TaskTyped DEF TaskSound, Task, WritesPassword
<1>3. /\ users' \in {users, table} /\ failures' \in Nat
      /\ \/ Proceed(c, i, "login", task.object, task.id) /\ UNCHANGED login
         \/ Deny(c, i) /\ Status(c, "Unauthenticated")
  BY <1>0, <1>1 DEF AuthMigrate, WithTransaction, Base, UsersInv
<1>4. HistoryGrows
  BY <1>1 DEF HistoryGrows, Aside
<1>5. task.id \notin doubt' => task.hash.password \in believed'[task.id]
  BY <1>0, <1>1, <1>2, <1>4 DEF HistoryGrows, AccountsInv, MigratesHold
<1>6. Grown /\ UsersInv' /\ RowsHold' /\ NamesDiffer' /\ NamesKept
  <2>1. CASE users' = users
    BY <1>1, <1>3, <1>4, <2>1, Positions
    DEF Grown, UsersInv, RowsHold, NamesDiffer, NamesKept, AccountsInv, Base, Aside, HistoryGrows
  <2>2. CASE users' = table
    <3>1. believed' \in Seq(SUBSET Secret) /\ Len(believed') = Len(users) /\ UNCHANGED salts
      BY <1>1 DEF Base, UsersInv, Aside
    <3> QED
      BY <1>1, <1>2, <1>3, <1>4, <1>5, <2>2, <3>1, SecretWritten
  <2> QED
    BY <1>3, <2>1, <2>2
<1> HIDE DEF table
<1>7. LoginsInv' /\ ListedKept
  BY <1>1, <1>3, <1>6, LoginKept, StatusSet
<1>8. BelievedKept
  BY <1>1 DEF BelievedKept
<1>9. Writes
  BY <1>4, <1>6, <1>7, <1>8 DEF Writes, Aside
<1>10. CASE Deny(c, i)
  BY <1>0, <1>1, <1>9, <1>10, Denied, Closed
<1>11. CASE Proceed(c, i, "login", task.object, task.id)
  <2>1. PICK it : it = GoneOn(task, "login", task.object, task.id)
    OBVIOUS
  <2>2. /\ it \in Task /\ it.stage = "login" /\ it.object = task.object /\ it.id = task.id /\ it.op = "Auth"
        /\ it.hash = task.hash /\ it.salt = task.salt /\ it.password = task.password
    <3>1. task \in Task /\ "login" \in TaskStages /\ task.object \in UserObject /\ task.id \in Nat /\ task.op = "Auth"
      BY <1>1, <1>2 DEF TaskStages
    <3> QED
      BY <2>1, <3>1, GoneOnTyped
  <2>3. TaskSound(it, Len(users'))
    BY <1>1, <1>2, <1>6, <2>2 DEF TaskSound, Grown
  <2>4. Alone(c, i, it)
    BY <1>0, <1>1, <1>4, <2>2 DEF Alone, AccountsInv, AloneInv, Overlap, HistoryGrows
  <2>5. MayGoOn(c, i, it)
    BY <1>0, <1>1, <1>2, <1>4, <1>6, <2>2, <2>3, <2>4
    DEF MayGoOn, AccountsInv, KnownInv, NamesKept, HistoryGrows
  <2> QED
    BY <1>0, <1>1, <1>2, <1>9, <1>11, <2>1, <2>5, Advanced DEF TaskStages
<1> QED
  BY <1>3, <1>10, <1>11

LEMMA PasswordCheckStep ==
    ASSUME AccountsInv, Aside, NEW c \in Line, NEW i \in 1 .. Len(tasks[c]), PasswordCheck(c, i)
    PROVE  AccountsInv'
<1>0. PICK task, id, user : task = tasks[c][i] /\ id = login[c].id /\ user = Users(users[id])
  OBVIOUS
<1>1. /\ Base /\ task.op = "ChangePassword" /\ task.stage = "new"
      /\ UNCHANGED <<users, login, failures, believed, renamed>>
  BY <1>0 DEF AccountsInv, PasswordCheck, Turn
<1>2. CASE Deny(c, i)
  BY <1>0, <1>1, <1>2, Denied, Dismissed
<1>3. CASE login[c].status = "Authenticated"
           /\ Proceed(c, i, "update", setSalt(setHashPassword(user, task.hash), task.salt), id)
  <2>1. id \in 1 .. Len(users) /\ id \in Nat
    BY <1>0, <1>1, <1>3, Positions DEF Base, LoginsInv
  <2>2. task \in Task /\ TaskSound(task, Len(users))
    BY <1>0, <1>1, TaskTyped
  <2>3. user \in UserObject /\ user.values = users[id] /\ user.dirty = {}
    BY <1>0, <1>1, <2>1, UserTyped, ReadTyped
  <2>4. PICK object : object = setSalt(setHashPassword(user, task.hash), task.salt)
    OBVIOUS
  <2>5. /\ object \in UserObject /\ object.dirty = {"hash_password", "salt"}
        /\ object.values.hash_password = task.hash /\ object.values.salt = task.salt
    <3>1. task.hash \in Hash \cup {NULL} /\ task.salt \in Salt /\ \E name : name \in Text
      BY <2>2, Zenon DEF Task, Text
    <3> QED
      BY <2>3, <2>4, <3>1, ObjectTyped
  <2>6. PICK it : it = GoneOn(task, "update", object, id)
    OBVIOUS
  <2>7. /\ it \in Task /\ it.stage = "update" /\ it.object = object /\ it.id = id /\ it.op = "ChangePassword"
        /\ it.hash = task.hash /\ it.salt = task.salt
    <3>1. "update" \in TaskStages
      BY DEF TaskStages
    <3> QED
      BY <1>1, <2>1, <2>2, <2>5, <2>6, <3>1, GoneOnTyped
  <2>8. Grown /\ HistoryGrows /\ failures' \in Nat
    BY <1>1, Positions DEF Grown, HistoryGrows, Aside, Base, UsersInv
  <2>9. Writes
    BY <1>1, <2>8, LoginKept, NothingWritten DEF Aside
  <2>10. MayGoOn(c, i, it)
    <3>1. TaskSound(it, Len(users'))
      BY <1>1, <2>1, <2>2, <2>5, <2>7 DEF TaskSound, WritesPassword
    <3>2. Alone(c, i, it)
      BY <2>7 DEF Alone, Overlap
    <3> QED
      BY <2>7, <3>1, <3>2 DEF MayGoOn
  <2>11. Proceed(c, i, "update", object, id) /\ "update" \in TaskStages
    BY <1>3, <2>4 DEF TaskStages
  <2> QED
    BY <1>0, <1>1, <2>1, <2>5, <2>6, <2>9, <2>10, <2>11, Advanced
<1> QED
  BY <1>0, <1>2, <1>3 DEF PasswordCheck

LEMMA PasswordUpdateStep ==
    ASSUME AccountsInv, Aside, NEW c \in Line, NEW i \in 1 .. Len(tasks[c]), PasswordUpdate(c, i)
    PROVE  AccountsInv'
<1>0. PICK task, id : task = tasks[c][i] /\ id = task.id
  OBVIOUS
<1> DEFINE table == [users EXCEPT ![id] = UpdateUsers(@, task.object)]
           secret == {task.hash.password}
<1>1. Base /\ task.op = "ChangePassword" /\ task.stage = "update" /\ UNCHANGED <<login, renamed>>
  BY <1>0 DEF AccountsInv, PasswordUpdate, Turn
<1>2. /\ id \in 1 .. Len(users) /\ task.object \in UserObject
      /\ task.hash \in Hash /\ task.hash.salt = task.salt
      /\ task.object.dirty = {"hash_password", "salt"}
      /\ task.object.values.hash_password = task.hash /\ task.object.values.salt = task.hash.salt
  BY <1>0, <1>1, TaskTyped DEF TaskSound, Task, WritesPassword
<1>3. /\ failures' \in Nat /\ Closes(c, i)
      /\ \/ users' = table /\ believed' = [believed EXCEPT ![id] = secret]
         \/ users' \in {users, table} /\ believed' = [believed EXCEPT ![id] = @ \cup secret]
  <2>1. Closes(c, i)
    BY <1>0, <1>1, Denied, Granted DEF PasswordUpdate, WithTransaction
  <2>2. failures \in Nat /\ believed' = [believed EXCEPT ![id] = IF failures' = failures THEN secret ELSE @ \cup secret]
    BY <1>0, <1>1 DEF PasswordUpdate, Base, UsersInv
  <2>3. \/ users' = table /\ failures' = failures
        \/ users' \in {users, table} /\ failures' = failures + 1
    BY <1>0 DEF PasswordUpdate, WithTransaction
  <2> HIDE DEF table, secret
  <2>4. CASE users' = table /\ failures' = failures
    BY <2>1, <2>2, <2>4
  <2>5. CASE users' \in {users, table} /\ failures' = failures + 1
    <3>1. failures' \in Nat /\ failures' # failures
      BY <2>2, <2>5
    <3> QED
      BY <2>1, <2>2, <2>5, <3>1
  <2> QED
    BY <2>3, <2>4, <2>5
<1>4. /\ believed' \in Seq(SUBSET Secret) /\ Len(believed') = Len(users)
      /\ \A other \in 1 .. Len(users) : other # id => believed'[other] = believed[other]
      /\ task.hash.password \in believed'[id]
  <2>1. believed \in Seq(SUBSET Secret) /\ Len(believed) = Len(users) /\ secret \in SUBSET Secret
    BY <1>1, <1>2, Zenon DEF Base, UsersInv, Hash, Secret
  <2>2. PICK new \in SUBSET Secret : believed' = [believed EXCEPT ![id] = new] /\ secret \subseteq new
    <3>1. believed[id] \in SUBSET Secret
      BY <1>2, <2>1
    <3> QED
      BY <1>3, <2>1, <3>1
  <2> QED
    BY <1>2, <2>1, <2>2
<1>5. HistoryGrows
  BY <1>1 DEF HistoryGrows, Aside
<1>6. BelievedKept
  <2> SUFFICES ASSUME NEW d \in Line, NEW j \in 1 .. Len(tasks[d]), tasks[d][j].stage = "migrate",
                      tasks[d][j].id \notin doubt'
               PROVE  believed[tasks[d][j].id] \subseteq believed'[tasks[d][j].id]
    BY DEF BelievedKept
  <2>1. PICK other : other = tasks[d][j].id
    OBVIOUS
  <2>2. other \in 1 .. Len(users) /\ other \in DOMAIN believed
    BY <1>1, <2>1, TaskOfSomeone, Positions
  <2>3. Migrating(other)
    BY <1>1, <2>1, Positions DEF Migrating
  <2>4. believed'[other] = believed[other]
    BY <2>1, <2>2, <2>3 DEF Aside
  <2> QED
    BY <2>1, <2>4
<1>7. Grown /\ UsersInv' /\ RowsHold' /\ NamesDiffer' /\ NamesKept
  <2>1. CASE users' = table
    <3>1. UNCHANGED salts
      BY DEF Aside
    <3> QED
      BY <1>2, <1>3, <1>4, <1>5, <2>1, <3>1, SecretWritten
  <2>2. CASE users' = users /\ believed' = [believed EXCEPT ![id] = @ \cup secret]
    <3>1. Grown /\ UsersInv' /\ NamesDiffer' /\ NamesKept
      BY <1>1, <1>3, <1>4, <2>2, Positions DEF Grown, UsersInv, NamesDiffer, NamesKept, AccountsInv, Base, Aside
    <3>2. \A other \in 1 .. Len(users) : believed[other] \subseteq believed'[other]
      BY <1>1, <1>4, <2>2, Positions
    <3>3. RowsHold'
      BY <1>5, <2>2, <3>2 DEF RowsHold, AccountsInv, HistoryGrows
    <3> QED
      BY <3>1, <3>3
  <2> QED
    BY <1>3, <2>1, <2>2
<1> HIDE DEF table
<1>8. Writes
  BY <1>1, <1>5, <1>6, <1>7, LoginKept DEF Writes, Aside
<1> QED
  BY <1>0, <1>1, <1>3, <1>8, Closed

LEMMA RegisterStep ==
    ASSUME AccountsInv, Aside, NEW c \in Line, NEW i \in 1 .. Len(tasks[c]), handleRegister(c, i)
    PROVE  AccountsInv'
<1>0. PICK task : task = tasks[c][i]
  OBVIOUS
<1>1. Base /\ task.op = "Register" /\ task.stage = "new" /\ UNCHANGED renamed
  BY <1>0 DEF AccountsInv, handleRegister, Turn
<1>2. CASE Deny(c, i) /\ UNCHANGED <<users, failures, believed>> /\ (UNCHANGED login \/ Status(c, "Unauthenticated"))
  BY <1>0, <1>1, <1>2, Denied, Dismissed
<1>3. CASE /\ Status(c, "Unauthenticated") /\ Named(login[c].name) = {}
           /\ WithTransaction(Append(users, InsertUsers(setSalt(setHashPassword(
                  setUsername(BlankUser, login[c].name), task.hash), task.salt))), Grant(c, i), Deny(c, i))
           /\ believed' = IF users' = users THEN believed ELSE Append(believed, {task.hash.password})
  <2>1. PICK new : new = InsertUsers(setSalt(setHashPassword(setUsername(BlankUser, login[c].name), task.hash), task.salt))
    OBVIOUS
  <2>2. task \in Task /\ task.hash \in Hash /\ task.hash.salt = task.salt
    BY <1>0, <1>1, TaskTyped DEF TaskSound
  <2>3. new \in UserRow /\ new.username = login[c].name /\ new.hash_password = task.hash /\ new.salt = task.hash.salt
    <3>1. login[c].name \in Text /\ task.hash \in Hash \cup {NULL} /\ task.salt \in Salt
      BY <1>1, <2>2 DEF Base, LoginsInv, Session, Task
    <3> QED
      BY <2>1, <2>2, <3>1, InsertedUser
  <2>4. failures' \in Nat /\ users' \in {users, Append(users, new)} /\ Closes(c, i)
    <3>1. Closes(c, i)
      BY <1>0, <1>1, <1>3, Granted, Denied DEF WithTransaction
    <3> QED
      BY <1>1, <1>3, <2>1, <3>1 DEF WithTransaction, Base, UsersInv
  <2>5. HistoryGrows /\ UNCHANGED <<salts, form>>
    BY <1>1 DEF HistoryGrows, Aside
  <2>6. CASE users' = users
    <3>1. Grown
      BY <1>1, <2>6, Positions DEF Grown
    <3>2. LoginsInv' /\ ListedKept
      BY <1>1, <1>3, <2>6, <3>1, StatusSet
    <3>3. UNCHANGED <<users, believed>>
      BY <1>3, <2>6
    <3>4. Writes
      BY <2>4, <2>5, <3>2, <3>3, NothingWritten
    <3> QED
      BY <1>0, <1>1, <2>4, <3>4, Closed
  <2>7. CASE users' = Append(users, new) /\ users' # users
    <3> DEFINE n == Len(users)
    <3>1. /\ users \in Seq(UserRow) /\ believed \in Seq(SUBSET Secret) /\ n \in Nat /\ Len(believed) = n
          /\ {task.hash.password} \in SUBSET Secret /\ believed' = Append(believed, {task.hash.password})
      BY <1>1, <1>3, <2>2, <2>7, Positions DEF Base, UsersInv, Hash, Secret
    <3>2. /\ users' \in Seq(UserRow) /\ Len(users') = n + 1 /\ users'[n + 1] = new
          /\ \A id \in 1 .. n : users'[id] = users[id]
      BY <2>3, <2>7, <3>1
    <3>3. /\ believed' \in Seq(SUBSET Secret) /\ Len(believed') = n + 1 /\ believed'[n + 1] = {task.hash.password}
          /\ \A id \in 1 .. n : believed'[id] = believed[id]
      BY <3>1
    <3> HIDE DEF n
    <3>4. \A id \in 1 .. Len(users') : id = n + 1 \/ id \in 1 .. n
      BY <3>1, <3>2
    <3>5. Grown /\ UsersInv' /\ NamesKept
      BY <1>1, <2>4, <2>5, <3>1, <3>2, <3>3 DEF Grown, UsersInv, NamesKept, Base, n
    <3>6. RowsHold'
      <4>1. ASSUME NEW id \in 1 .. n
            PROVE  /\ users'[id].hash_password \in Hash /\ users'[id].hash_password.salt = users'[id].salt
                   /\ id \notin doubt' => users'[id].hash_password.password \in believed'[id]
        BY <2>5, <3>2, <3>3 DEF RowsHold, AccountsInv, HistoryGrows, n
      <4>2. /\ users'[n + 1].hash_password \in Hash /\ users'[n + 1].hash_password.salt = users'[n + 1].salt
            /\ users'[n + 1].hash_password.password \in believed'[n + 1]
        BY <2>2, <2>3, <3>2, <3>3
      <4> QED
        BY <3>4, <4>1, <4>2 DEF RowsHold
    <3>7. \A id \in 1 .. n : users[id].username # login[c].name
      BY <1>1, <1>3, Positions DEF Named, n
    <3>8. NamesDiffer'
      BY <2>3, <3>2, <3>4, <3>7 DEF NamesDiffer, AccountsInv, n
    <3>9. BelievedKept
      BY <1>1, <3>3, TaskOfSomeone DEF BelievedKept, n
    <3>10. Writes
      BY <1>1, <1>3, <2>5, <3>5, <3>6, <3>8, <3>9, StatusSet DEF Writes
    <3> QED
      BY <1>0, <1>1, <2>4, <3>10, Closed
  <2> QED
    BY <2>4, <2>6, <2>7
<1> QED
  BY <1>0, <1>2, <1>3 DEF handleRegister

LEMMA AuthAnswerStep ==
    ASSUME AccountsInv, Aside, NEW c \in Line, NEW i \in 1 .. Len(tasks[c]), AuthAnswer(c, i)
    PROVE  AccountsInv'
<1>0. PICK task, id, name : task = tasks[c][i] /\ id = task.id /\ name = task.object.values.username
  OBVIOUS
<1>1. Base /\ task.op = "Auth" /\ task.stage = "answer" /\ UNCHANGED <<users, login, failures, believed, renamed>>
  BY <1>0 DEF AccountsInv, AuthAnswer, Turn
<1>2. id \in 1 .. Len(users) /\ id \in Nat /\ name \in Text
  BY <1>0, <1>1, TaskTyped, Positions DEF TaskSound, Task, UserObject, UserRow
<1>3. PICK answer : answer = [Result("Auth", TRUE) EXCEPT !.id = id, !.name = name]
  OBVIOUS
<1>4. answer \in Told /\ answer.id = id /\ answer.name = name
  BY <1>2, <1>3 DEF Result, Told, Operations, Requests, Salt
<1>5. Answer(c, i, answer)
  BY <1>0, <1>3 DEF AuthAnswer
<1>6. Grown /\ HistoryGrows /\ failures' \in Nat
  BY <1>1, Positions DEF Grown, HistoryGrows, Aside, Base, UsersInv
<1>7. Writes
  BY <1>1, <1>6, LoginKept, NothingWritten DEF Aside
<1>8. login[c].listed /\ (id \notin renamed' => name = users'[id].username)
  BY <1>0, <1>1 DEF AccountsInv, ListedInv, KnownInv
<1> QED
  BY <1>0, <1>1, <1>2, <1>4, <1>5, <1>7, <1>8, Replied

LEMMA UsernameCheckStep ==
    ASSUME AccountsInv, Aside, NEW c \in Line, NEW i \in 1 .. Len(tasks[c]), UsernameCheck(c, i)
    PROVE  AccountsInv'
<1>0. PICK task, id : task = tasks[c][i] /\ id = login[c].id
  OBVIOUS
<1>1. /\ Base /\ task.op = "ChangeUsername" /\ task.stage = "new" /\ UNCHANGED <<users, login, failures, believed>>
  BY <1>0 DEF AccountsInv, UsernameCheck, Turn
<1>2. CASE Deny(c, i) /\ UNCHANGED renamed
  BY <1>0, <1>1, <1>2, Denied, Dismissed
<1>3. CASE /\ login[c].status = "Authenticated"
           /\ Proceed(c, i, "update", setUsername(Users(users[id]), task.name), id)
           /\ renamed' = renamed \cup (IF Renaming(id) \/ Reading(id) THEN {id} ELSE {})
  <2>1. id \in 1 .. Len(users) /\ id \in Nat /\ "update" \in TaskStages
    BY <1>0, <1>1, <1>3, Positions DEF Base, LoginsInv, TaskStages
  <2>2. task \in Task /\ task.name \in Text /\ TaskSound(task, Len(users))
    BY <1>0, <1>1, TaskTyped DEF Task
  <2>3. PICK user : user = Users(users[id])
    OBVIOUS
  <2>4. user \in UserObject /\ user.dirty = {}
    BY <1>1, <2>1, <2>3, UserTyped, ReadTyped
  <2>5. PICK object : object = setUsername(user, task.name)
    OBVIOUS
  <2>6. object \in UserObject /\ object.dirty = {"username"} /\ object.values.username = task.name
    <3>1. \E hash : hash \in Hash \cup {NULL}
      OBVIOUS
    <3>2. \E salt : salt \in Salt
      BY DEF Salt
    <3> QED
      BY <2>2, <2>4, <2>5, <3>1, <3>2, ObjectTyped
  <2>7. PICK it : it = GoneOn(task, "update", object, id)
    OBVIOUS
  <2>8. /\ it \in Task /\ it.stage = "update" /\ it.object = object /\ it.id = id /\ it.op = "ChangeUsername"
        /\ it.name = task.name
    BY <1>1, <2>1, <2>2, <2>6, <2>7, GoneOnTyped
  <2>9. Grown /\ HistoryGrows /\ failures' \in Nat
    BY <1>1, <1>3, Positions DEF Grown, HistoryGrows, Aside, Base, UsersInv
  <2>10. Writes
    BY <1>1, <2>9, LoginKept, NothingWritten DEF Aside
  <2>11. Alone(c, i, it)
    <3> SUFFICES ASSUME NEW d \in Line, NEW j \in 1 .. Len(tasks[d]), id \notin renamed',
                        Overlap(it, tasks[d][j]) \/ Overlap(tasks[d][j], it)
                 PROVE  FALSE
      BY <2>8 DEF Alone
    <3>1. j \in Holding(d) /\ tasks[d][j].op \in {"Auth", "ChangeUsername"} /\ tasks[d][j].id = id
      BY <1>1, <2>8, Positions DEF Overlap, Holding
    <3>2. Renaming(id) \/ Reading(id)
      BY <3>1 DEF Renaming, Reading
    <3> QED
      BY <1>3, <3>2
  <2>12. MayGoOn(c, i, it)
    <3>1. TaskSound(it, Len(users'))
      BY <1>1, <2>1, <2>2, <2>6, <2>8 DEF TaskSound
    <3> QED
      BY <2>8, <2>11, <3>1 DEF MayGoOn
  <2>13. Proceed(c, i, "update", object, id)
    BY <1>3, <2>3, <2>5
  <2> QED
    BY <1>0, <1>1, <2>1, <2>6, <2>7, <2>10, <2>12, <2>13, Advanced
<1> QED
  BY <1>0, <1>2, <1>3 DEF UsernameCheck

\* An object that has set a name nobody has is written.
LEMMA NameWritten ==
    ASSUME AccountsInv, HistoryGrows, NEW id \in 1 .. Len(users), NEW object \in UserObject,
           object.dirty = {"username"},
           \A other \in 1 .. Len(users) : users[other].username # object.values.username,
           users' = [users EXCEPT ![id] = UpdateUsers(@, object)],
           failures' \in Nat, UNCHANGED believed, UNCHANGED salts
    PROVE  /\ Grown /\ UsersInv' /\ RowsHold' /\ NamesDiffer' /\ Len(users') = Len(users)
           /\ \A other \in 1 .. Len(users) :
                 users'[other].username = IF other = id THEN object.values.username ELSE users[other].username
<1>0. Base /\ users \in Seq(UserRow) /\ Len(users) \in Nat
  BY Positions DEF AccountsInv, Base, UsersInv
<1>1. PICK new : new = UpdateUsers(users[id], object)
  OBVIOUS
<1>2. /\ new \in UserRow /\ new.username = object.values.username
      /\ new.hash_password = users[id].hash_password /\ new.salt = users[id].salt
  BY <1>0, <1>1, UserTyped, UpdatedUser
<1>3. users' = [users EXCEPT ![id] = new]
  BY <1>1
<1>4. users' \in Seq(UserRow) /\ Len(users') = Len(users)
      /\ \A other \in 1 .. Len(users) : users'[other] = IF other = id THEN new ELSE users[other]
  BY <1>0, <1>2, <1>3
<1>5. \A other \in 1 .. Len(users) :
          /\ users'[other].username = IF other = id THEN object.values.username ELSE users[other].username
          /\ users'[other].hash_password = users[other].hash_password /\ users'[other].salt = users[other].salt
  BY <1>2, <1>4
<1>6. Grown /\ UsersInv'
  BY <1>0, <1>4 DEF Grown, UsersInv, Base
<1>7. NamesDiffer'
  BY <1>4, <1>5 DEF AccountsInv, NamesDiffer
<1>8. RowsHold'
  BY <1>4, <1>5 DEF AccountsInv, RowsHold, HistoryGrows
<1> QED
  BY <1>4, <1>5, <1>6, <1>7, <1>8

LEMMA UsernameUpdateStep ==
    ASSUME AccountsInv, Aside, NEW c \in Line, NEW i \in 1 .. Len(tasks[c]), UsernameUpdate(c, i)
    PROVE  AccountsInv'
<1>0. PICK task, id : task = tasks[c][i] /\ id = task.id
  OBVIOUS
<1> DEFINE table == [users EXCEPT ![id] = UpdateUsers(@, task.object)]
<1>1. Base /\ task.op = "ChangeUsername" /\ task.stage = "update" /\ UNCHANGED <<login, believed, form, salts>>
  BY <1>0 DEF AccountsInv, UsernameUpdate, Turn, Aside
<1>2. /\ task \in Task /\ TaskSound(task, Len(users)) /\ id \in 1 .. Len(users) /\ id \in Nat
      /\ task.object \in UserObject /\ task.object.dirty = {"username"}
      /\ task.object.values.username = task.name
  BY <1>0, <1>1, TaskTyped, Positions DEF TaskSound, Task
<1>3. CASE Deny(c, i) /\ UNCHANGED <<users, failures, renamed>>
  BY <1>0, <1>1, <1>3, Denied, Dismissed
<1>4. ASSUME HistoryGrows, failures' \in Nat, Named(task.name) = {}, users' = table
      PROVE  /\ Grown /\ UsersInv' /\ RowsHold' /\ NamesDiffer' /\ Len(users') = Len(users)
             /\ \A other \in 1 .. Len(users) :
                   users'[other].username = IF other = id THEN task.name ELSE users[other].username
  <2>1. PICK object : object = task.object
    OBVIOUS
  <2>2. users' = [users EXCEPT ![id] = UpdateUsers(@, object)]
    BY <1>4, <2>1
  <2>3. object \in UserObject /\ object.dirty = {"username"} /\ object.values.username = task.name
    BY <1>2, <2>1
  <2>4. \A other \in 1 .. Len(users) : users[other].username # object.values.username
    BY <1>1, <1>4, <2>3, Positions DEF Named
  <2>5. UNCHANGED believed /\ UNCHANGED salts
    BY <1>1
  <2> HIDE DEF table
  <2>6. /\ Grown /\ UsersInv' /\ RowsHold' /\ NamesDiffer' /\ Len(users') = Len(users)
        /\ \A other \in 1 .. Len(users) :
              users'[other].username = IF other = id THEN object.values.username ELSE users[other].username
    BY <1>2, <1>4, <2>2, <2>3, <2>4, <2>5, NameWritten
  <2> QED
    BY <2>3, <2>6
<1>5. CASE /\ failures' = failures + 1 /\ users' \in {users, table} /\ Deny(c, i)
           /\ Named(task.name) = {} /\ renamed' = renamed \cup {id}
  <2>1. HistoryGrows /\ failures' \in Nat /\ id \in renamed'
    BY <1>1, <1>5 DEF HistoryGrows, Aside, Base, UsersInv
  <2>2. Grown /\ UsersInv' /\ RowsHold' /\ NamesDiffer' /\ NamesKept
    <3>1. CASE users' = users
      <4>1. Grown
        BY <1>1, <3>1, Positions DEF Grown
      <4>2. UsersInv' /\ NamesDiffer' /\ NamesKept
        BY <1>1, <2>1, <3>1 DEF UsersInv, NamesDiffer, NamesKept, AccountsInv, Base
      <4>3. RowsHold'
        BY <1>1, <2>1, <3>1 DEF RowsHold, AccountsInv, HistoryGrows
      <4> QED
        BY <4>1, <4>2, <4>3
    <3>2. CASE users' = table
      BY <1>5, <1>4, <2>1, <3>2 DEF NamesKept
    <3> QED
      BY <1>5, <3>1, <3>2
  <2>3. Writes
    BY <1>1, <2>1, <2>2, LoginKept DEF Writes, BelievedKept
  <2> QED
    BY <1>0, <1>1, <1>5, <2>3, Denied, Closed
<1>6. CASE /\ UNCHANGED <<failures, renamed>> /\ users' = table /\ Named(task.name) = {}
           /\ Proceed(c, i, "tell", task.object, id)
  <2>1. HistoryGrows /\ failures' \in Nat
    BY <1>1, <1>6 DEF HistoryGrows, Aside, Base, UsersInv
  <2>2. /\ Grown /\ UsersInv' /\ RowsHold' /\ NamesDiffer' /\ Len(users') = Len(users)
        /\ \A other \in 1 .. Len(users) :
              users'[other].username = IF other = id THEN task.name ELSE users[other].username
    BY <1>6, <1>4, <2>1
  <2> HIDE DEF table
  <2>3. PICK it : it = GoneOn(task, "tell", task.object, id)
    OBVIOUS
  <2>4. it \in Task /\ it.stage = "tell" /\ it.id = id /\ it.op = "ChangeUsername" /\ it.name = task.name
    <3>1. "tell" \in TaskStages
      BY DEF TaskStages
    <3> QED
      BY <1>1, <1>2, <2>3, <3>1, GoneOnTyped
  <2>5. TaskSound(it, Len(users'))
    BY <1>2, <2>2, <2>4 DEF TaskSound
  <2>6. TasksInv' /\ AnswersInv' /\ Replaced(c, i, it)
    BY <1>0, <1>1, <1>2, <1>6, <2>2, <2>3, <2>5, WentOn DEF TaskStages
  <2>7. Base'
    BY <1>1, <2>2, <2>6, FormsKept, LoginKept DEF Base
  <2>8. BelievedKept /\ ListedKept
    BY <1>1 DEF BelievedKept, ListedKept
  <2>9. MigratesHold' /\ ListedInv'
    BY <1>1, <1>6, <2>1, <2>4, <2>6, <2>8, MigratesReplaced, ListedReplaced DEF AccountsInv, Proceed
  <2>10. AloneInv'
    <3>1. Alone(c, i, it)
      BY <1>0, <1>1, <1>6, <2>4 DEF Alone, AccountsInv, AloneInv, Overlap
    <3> QED
      BY <1>1, <2>1, <2>6, <3>1, AloneReplaced DEF AccountsInv
  <2>11. ASSUME NEW d \in Line, NEW j \in 1 .. Len(tasks'[d]), tasks'[d][j].id \notin renamed',
                tasks'[d][j].stage \in {"migrate", "login", "answer", "tell"}
         PROVE  /\ tasks'[d][j].stage \in {"migrate", "login", "answer"} =>
                      tasks'[d][j].object.values.username = users'[tasks'[d][j].id].username
                /\ tasks'[d][j].stage = "tell" => tasks'[d][j].name = users'[tasks'[d][j].id].username
    <3>1. j \in 1 .. Len(tasks[d]) /\ tasks'[d][j] = IF d = c /\ j = i THEN it ELSE tasks[d][j]
      BY <2>6 DEF Replaced
    <3>2. CASE d = c /\ j = i
      BY <1>2, <2>2, <2>4, <3>1, <3>2
    <3>3. CASE ~(d = c /\ j = i)
      <4>1. PICK other : other = tasks[d][j]
        OBVIOUS
      <4>2. tasks'[d][j] = other /\ TaskSound(other, Len(users)) /\ other.id \in 1 .. Len(users)
        BY <1>1, <2>11, <3>1, <3>3, <4>1, TaskTyped, TaskOfSomeone
      <4>3. other.id # id
        <5>1. other.op \in {"Auth", "ChangeUsername"}
          BY <2>11, <4>2 DEF TaskSound
        <5>2. ~Overlap(task, other)
          BY <1>0, <1>6, <2>11, <3>1, <3>3, <4>1, <4>2 DEF AccountsInv, AloneInv, Overlap
        <5> QED
          BY <1>0, <1>1, <2>11, <4>2, <5>1, <5>2 DEF Overlap
      <4>4. users'[other.id].username = users[other.id].username
        BY <2>2, <4>2, <4>3
      <4>5. other.id \notin renamed
        BY <1>6, <2>11, <4>2
      <4>6. /\ other.stage \in {"migrate", "login", "answer"} =>
                  other.object.values.username = users[other.id].username
            /\ other.stage = "tell" => other.name = users[other.id].username
        BY <3>1, <4>1, <4>5 DEF AccountsInv, KnownInv
      <4> QED
        BY <4>2, <4>4, <4>6
    <3> QED
      BY <3>2, <3>3
  <2>12. KnownInv'
    BY <2>11 DEF KnownInv
  <2>13. ASSUME NEW other \in 1 .. Len(users), other \notin renamed'
         PROVE  Telling(other)' \/ (users'[other].username = users[other].username /\ ~Telling(other))
    <3>1. CASE other = id
      <4>1. i \in 1 .. Len(tasks'[c]) /\ tasks'[c][i] = it
        BY <2>6 DEF Replaced
      <4> QED
        BY <2>4, <3>1, <4>1 DEF Telling
    <3>2. CASE other # id
      BY <1>0, <1>1, <2>2, <2>6, <3>2, TellingReplaced
    <3> QED
      BY <3>1, <3>2
  <2>14. ShownInv' /\ ToldInv'
    BY <1>1, <1>6, <2>1, <2>13, NothingSaid DEF AccountsInv, NamesMove, Proceed
  <2> QED
    BY <2>2, <2>7, <2>9, <2>10, <2>12, <2>14 DEF AccountsInv
<1>7. \/ Deny(c, i) /\ UNCHANGED <<users, failures, renamed>>
      \/ /\ failures' = failures + 1 /\ users' \in {users, table} /\ Deny(c, i)
         /\ Named(task.name) = {} /\ renamed' = renamed \cup {id}
      \/ /\ UNCHANGED <<failures, renamed>> /\ users' = table /\ Named(task.name) = {}
         /\ Proceed(c, i, "tell", task.object, id)
  <2>1. CASE Deny(c, i) /\ UNCHANGED <<users, failures, renamed>>
    BY <2>1
  <2>2. CASE /\ Named(task.name) = {}
             /\ WithTransaction(table, Proceed(c, i, "tell", task.object, id), Deny(c, i))
             /\ renamed' = IF failures' # failures THEN renamed \cup {id} ELSE renamed
    <3> HIDE DEF table
    <3>1. CASE users' = table /\ Proceed(c, i, "tell", task.object, id) /\ UNCHANGED failures
      BY <2>2, <3>1
    <3>2. CASE failures' = failures + 1 /\ users' \in {users, table} /\ Deny(c, i)
      <4>1. failures \in Nat
        BY <1>1 DEF Base, UsersInv
      <4>2. failures' # failures
        BY <3>2, <4>1
      <4> QED
        BY <2>2, <3>2, <4>2
    <3> QED
      BY <2>2, <3>1, <3>2 DEF WithTransaction
  <2> QED
    BY <1>0, <2>1, <2>2 DEF UsernameUpdate
<1> QED
  BY <1>3, <1>5, <1>6, <1>7

\* The answers of one connection when a new name is told: one more, if it is
\* listed, and another, if it asked for it.
Lengthened(s, t, one, first) ==
    /\ Len(s) \in Nat /\ Len(t) \in Nat /\ Len(s) <= Len(t)
    /\ \A k \in 1 .. Len(s) : t[k] = s[k]
    /\ one => Len(s) + 1 \in 1 .. Len(t) /\ t[Len(s) + 1] = first
    /\ \A k \in 1 .. Len(t) : k \in 1 .. Len(s) \/ (one /\ t[k] = first)

LEMMA OneMore ==
    ASSUME NEW S, NEW s \in Seq(S), NEW first \in S, NEW one, one
    PROVE  s \o <<first>> \in Seq(S) /\ Lengthened(s, s \o <<first>>, one, first)
BY DEF Lengthened

LEMMA NoMore ==
    ASSUME NEW S, NEW s \in Seq(S), NEW first, NEW one, ~one
    PROVE  s \o <<>> \in Seq(S) /\ Lengthened(s, s \o <<>>, one, first)
BY DEF Lengthened

LEMMA ToldMore ==
    ASSUME NEW s, NEW u, NEW t, NEW one, NEW two, NEW first, NEW second,
           Lengthened(s, u, one, first), Lengthened(u, t, two, second)
    PROVE  /\ Len(s) <= Len(t) /\ \A k \in 1 .. Len(s) : t[k] = s[k]
           /\ one => Len(s) + 1 \in 1 .. Len(t) /\ t[Len(s) + 1] = first
           /\ \A k \in 1 .. Len(t) : k \in 1 .. Len(s) \/ (one /\ t[k] = first) \/ t[k] = second
BY DEF Lengthened

LEMMA UsernameTellStep ==
    ASSUME AccountsInv, Aside, NEW c \in Line, NEW i \in 1 .. Len(tasks[c]), UsernameTell(c, i)
    PROVE  AccountsInv'
<1>0. PICK task, id, name, notice, result :
         /\ task = tasks[c][i] /\ id = task.id /\ name = task.name
         /\ notice = NameNotice(task) /\ result = Result("ChangeUsername", TRUE)
  OBVIOUS
<1>1. /\ Base /\ task.op = "ChangeUsername" /\ task.stage = "tell"
      /\ UNCHANGED <<users, failures, believed, renamed, form, salts>>
      /\ login' = [login EXCEPT ![c].name = name]
      /\ tasks' = [tasks EXCEPT ![c] = RemoveAt(@, i)]
      /\ answers' = [d \in Line |-> answers[d] \o (IF login[d].listed THEN <<notice>> ELSE <<>>)
                                               \o (IF d = c THEN <<result>> ELSE <<>>)]
  BY <1>0 DEF AccountsInv, UsernameTell, Turn, Aside
<1>2. id \in 1 .. Len(users) /\ id \in Nat /\ name \in Text
  BY <1>0, <1>1, TaskTyped, Positions DEF TaskSound, Task
<1>3. /\ notice \in Told /\ TellsName(notice) /\ notice.id = id /\ notice.name = name
      /\ result \in Told /\ ~TellsName(result)
  BY <1>0, <1>2, Zenon DEF NameNotice, Result, Told, TellsName, Operations, Requests, Salt, Text
<1>4. HistoryGrows /\ Grown /\ UsersInv' /\ RowsHold' /\ NamesDiffer' /\ NamesKept /\ BelievedKept
  BY <1>1, Positions DEF HistoryGrows, Aside, Grown, UsersInv, RowsHold, NamesDiffer, NamesKept, BelievedKept,
     AccountsInv, Base
<1>5. TasksInv' /\ Gone(c, i)
  BY <1>1, <1>4, TaskAnswered DEF Base
<1>6. login' \in [Line -> Session]
      /\ \A d \in Line : login'[d].listed = login[d].listed /\ login'[d].id = login[d].id
                         /\ login'[d].status = login[d].status
  <2>1. login \in [Line -> Session]
    BY <1>1 DEF Base, LoginsInv
  <2> QED
    BY <1>1, <1>2, <2>1 DEF Session
<1>7. LoginsInv' /\ ListedKept /\ FormsInv'
  BY <1>1, <1>6 DEF Base, LoginsInv, ListedKept, FormsInv
<1>8. ASSUME NEW d \in Line
      PROVE  /\ answers[d] \in Seq(Told) /\ answers'[d] \in Seq(Told) /\ Len(answers[d]) <= Len(answers'[d])
             /\ \A k \in 1 .. Len(answers[d]) : answers'[d][k] = answers[d][k]
             /\ login[d].listed => Len(answers[d]) + 1 \in 1 .. Len(answers'[d])
                                   /\ answers'[d][Len(answers[d]) + 1] = notice
             /\ \A k \in 1 .. Len(answers'[d]) :
                   k \in 1 .. Len(answers[d]) \/ (login[d].listed /\ answers'[d][k] = notice) \/ answers'[d][k] = result
  <2>1. PICK s, one, two : s = answers[d] /\ one = login[d].listed /\ two = (d = c)
    OBVIOUS
  <2>2. s \in Seq(Told) /\ one \in BOOLEAN /\ two \in BOOLEAN
    BY <1>1, <2>1 DEF Base, AnswersInv, LoginsInv, Session
  <2>3. answers'[d] = s \o (IF one THEN <<notice>> ELSE <<>>) \o (IF two THEN <<result>> ELSE <<>>)
    BY <1>1, <2>1
  <2>4. PICK t, u : t = answers'[d] /\ u = s \o (IF one THEN <<notice>> ELSE <<>>)
    OBVIOUS
  <2>5. t = u \o (IF two THEN <<result>> ELSE <<>>)
    BY <2>3, <2>4
  <2>6. u \in Seq(Told) /\ Lengthened(s, u, one, notice)
    <3>1. CASE one
      BY <1>3, <2>2, <2>4, <3>1, OneMore
    <3>2. CASE ~one
      BY <2>2, <2>4, <3>2, NoMore
    <3> QED
      BY <3>1, <3>2
  <2>7. t \in Seq(Told) /\ Lengthened(u, t, two, result)
    <3>1. CASE two
      BY <1>3, <2>5, <2>6, <3>1, OneMore
    <3>2. CASE ~two
      BY <2>5, <2>6, <3>2, NoMore
    <3> QED
      BY <3>1, <3>2
  <2>8. /\ Len(s) <= Len(t) /\ \A k \in 1 .. Len(s) : t[k] = s[k]
        /\ one => Len(s) + 1 \in 1 .. Len(t) /\ t[Len(s) + 1] = notice
        /\ \A k \in 1 .. Len(t) : k \in 1 .. Len(s) \/ (one /\ t[k] = notice) \/ t[k] = result
    BY <2>6, <2>7, ToldMore
  <2> QED
    BY <2>1, <2>2, <2>4, <2>7, <2>8
<1>9. answers' \in [Line -> Seq(Told)]
  BY <1>1, <1>8
<1>10. Base'
  <2>1. ASSUME NEW d \in Line, NEW k \in 1 .. Len(answers'[d]), TellsName(answers'[d][k])
        PROVE  answers'[d][k].id \in 1 .. Len(users')
    <3>1. CASE k \in 1 .. Len(answers[d])
      <4>1. answers'[d][k] = answers[d][k]
        BY <1>8, <3>1
      <4> QED
        BY <1>1, <2>1, <3>1, <4>1 DEF Base, AnswersInv
    <3>2. CASE answers'[d][k] = notice
      BY <1>1, <1>2, <1>3, <3>2
    <3> QED
      BY <1>3, <1>8, <2>1, <3>1, <3>2
  <2> QED
    BY <1>4, <1>5, <1>7, <1>9, <2>1 DEF Base, AnswersInv
<1>11. MigratesHold' /\ KnownInv' /\ AloneInv'
  BY <1>1, <1>4, <1>5, MigratesGone, KnownGone, AloneGone DEF AccountsInv
<1>12. ASSUME NEW d \in Line, NEW other \in 1 .. Len(users), NEW shown, NEW k \in Nat, k <= Len(answers[d]),
              other \notin renamed, login[d].listed, NameComes(d, other, shown, k)
       PROVE  NameComes(d, other, shown, k)'
  <2>1. CASE other = id
    <3>1. name = users'[id].username
      BY <1>0, <1>1, <1>12, <2>1 DEF AccountsInv, KnownInv
    <3>2. PICK j : j = Len(answers[d]) + 1
      OBVIOUS
    <3>3. j \in 1 .. Len(answers'[d]) /\ k < j /\ answers'[d][j] = notice
      BY <1>8, <1>12, <3>2
    <3>4. Hears(d, other, k)'
      BY <1>3, <2>1, <3>1, <3>3 DEF Hears
    <3> QED
      BY <3>4 DEF NameComes
  <2>2. CASE other # id
    <3>1. Telling(other) => Telling(other)'
      BY <1>0, <1>5, <2>2, TellingGone
    <3>2. Hears(d, other, k) => Hears(d, other, k)'
      <4> SUFFICES ASSUME NEW j \in 1 .. Len(answers[d]), k < j, TellsName(answers[d][j]),
                          answers[d][j].id = other, answers[d][j].name = users[other].username
                   PROVE  Hears(d, other, k)'
        BY DEF Hears
      <4>1. j \in 1 .. Len(answers'[d]) /\ answers'[d][j] = answers[d][j]
        BY <1>8
      <4> QED
        BY <1>1, <4>1 DEF Hears
    <3> QED
      BY <1>1, <1>12, <3>1, <3>2 DEF NameComes
  <2> QED
    BY <2>1, <2>2
<1>13. ShownInv'
  <2> SUFFICES ASSUME NEW d \in Line, form'[d].panel = "rooms", form'[d].id \notin renamed'
               PROVE  NameComes(d, form[d].id, form[d].name, 0)'
    BY DEF ShownInv
  <2> SUFFICES ASSUME NEW other, NEW shown, other = form'[d].id, shown = form'[d].name
               PROVE  NameComes(d, other, shown, 0)'
    BY DEF NameComes, Telling, Hears
  <2>1. other \in 1 .. Len(users) /\ NameComes(d, other, shown, 0) /\ login[d].listed /\ other \notin renamed
    BY <1>1 DEF Base, FormsInv, AccountsInv, ShownInv, ListedInv
  <2>2. 0 \in Nat /\ 0 <= Len(answers[d])
    BY <1>8
  <2> QED
    BY <1>12, <2>1, <2>2
<1>14. ToldInv'
  <2> SUFFICES ASSUME NEW d \in Line, NEW k \in 1 .. Len(answers'[d]),
                      TellsName(answers[d][k])', (answers[d][k].id \notin renamed)'
               PROVE  NameComes(d, answers[d][k].id, answers[d][k].name, k)'
    BY DEF ToldInv
  <2> SUFFICES ASSUME NEW other, NEW shown, other = answers'[d][k].id, shown = answers'[d][k].name
               PROVE  NameComes(d, other, shown, k)'
    BY DEF NameComes, Telling, Hears
  <2>1. TellsName(answers'[d][k]) /\ other \notin renamed
    BY <1>1 DEF TellsName
  <2>2. CASE k \in 1 .. Len(answers[d])
    <3>1. answers'[d][k] = answers[d][k]
      BY <1>8, <2>2
    <3>2. TellsName(answers[d][k]) /\ other = answers[d][k].id /\ shown = answers[d][k].name
      BY <2>1, <3>1
    <3>4. other \in 1 .. Len(users) /\ login[d].listed
      BY <1>1, <2>2, <3>2 DEF Base, AnswersInv, AccountsInv, ListedInv
    <3>5. NameComes(d, other, shown, k)
      BY <2>1, <2>2, <3>2 DEF AccountsInv, ToldInv
    <3>3. k \in Nat /\ k <= Len(answers[d])
      BY <1>8, <2>2
    <3> QED
      BY <1>12, <2>1, <3>3, <3>4, <3>5
  <2>3. CASE answers'[d][k] = notice
    <3>1. other = id /\ shown = name
      BY <1>3, <2>3
    <3>2. tasks[c][i].id = id /\ id \notin renamed /\ tasks[c][i].stage = "tell" /\ tasks[c][i].name = name
      BY <1>0, <1>1, <2>1, <3>1
    <3>3. name = users[id].username
      BY <3>2 DEF AccountsInv, KnownInv
    <3>4. users' = users
      BY <1>1
    <3> QED
      BY <3>1, <3>3, <3>4 DEF NameComes
  <2> QED
    BY <1>3, <1>8, <2>1, <2>2, <2>3
<1>15. ListedInv'
  <2>1. ASSUME NEW d \in Line, NEW k \in 1 .. Len(answers'[d]), TellsName(answers'[d][k]) PROVE login'[d].listed
    <3>1. CASE k \in 1 .. Len(answers[d])
      <4>1. answers'[d][k] = answers[d][k]
        BY <1>8, <3>1
      <4> QED
        BY <1>6, <2>1, <3>1, <4>1 DEF AccountsInv, ListedInv
    <3>2. CASE login[d].listed
      BY <1>6, <3>2
    <3>3. CASE answers'[d][k] = result
      BY <1>3, <2>1, <3>3 DEF TellsName
    <3>4. k \in 1 .. Len(answers[d]) \/ login[d].listed \/ answers'[d][k] = result
      BY <1>8
    <3> QED
      BY <3>1, <3>2, <3>3, <3>4
  <2>2. ASSUME NEW d \in Line, NEW j \in 1 .. Len(tasks'[d]), tasks'[d][j].stage = "answer" PROVE login'[d].listed
    <3>1. PICK k \in 1 .. Len(tasks[d]) : tasks'[d][j] = tasks[d][k]
      BY <1>5 DEF Gone
    <3>2. login[d].listed
      BY <2>2, <3>1 DEF AccountsInv, ListedInv
    <3> QED
      BY <1>6, <3>2
  <2>3. ASSUME NEW d \in Line, form'[d].panel = "rooms" PROVE login'[d].listed
    BY <1>1, <1>6, <2>3 DEF AccountsInv, ListedInv
  <2> QED
    BY <2>1, <2>2, <2>3 DEF ListedInv, TellsName
<1> QED
  BY <1>4, <1>10, <1>11, <1>13, <1>14, <1>15 DEF AccountsInv

LEMMA HandlesKeep ==
    ASSUME AccountsInv, NEW c \in Line, Handle(c)
    PROVE  AccountsInv'
<1>1. Aside
  BY DEF Handle, Aside
<1>2. PICK i \in DOMAIN tasks[c] :
          \/ handleAuthInitial(c, i) \/ AuthRead(c, i) \/ AuthMigrate(c, i) \/ AuthLogin(c, i) \/ AuthAnswer(c, i)
          \/ handleRegisterInitial(c, i) \/ handleRegister(c, i)
          \/ UsernameCheck(c, i) \/ UsernameUpdate(c, i) \/ UsernameTell(c, i)
          \/ handleGetSalt(c, i) \/ PasswordCheck(c, i) \/ PasswordUpdate(c, i)
  BY DEF Handle
<1>3. i \in 1 .. Len(tasks[c])
  BY Positions DEF AccountsInv
<1> QED
  BY <1>1, <1>2, <1>3, AuthInitialStep, AuthReadStep, AuthMigrateStep, AuthLoginStep, AuthAnswerStep,
     RegisterInitialStep, RegisterStep, UsernameCheckStep, UsernameUpdateStep, UsernameTellStep,
     GetSaltStep, PasswordCheckStep, PasswordUpdateStep

-----------------------------------------------------------------------------
(***************************************************************************)
(* The clients.                                                            *)
(***************************************************************************)

LEMMA RequestTyped ==
    ASSUME NEW op \in Requests
    PROVE  Request(op) \in Task /\ Request(op).op = op /\ Request(op).stage = "new"
BY DEF Request, Task, BlankUser, Read, UserObject, UserRow, Text, Secret, Salt, TaskStages

\* A request that has not begun disturbs nobody.
LEMMA SentQuietly ==
    ASSUME AccountsInv, NEW c \in Line, NEW request \in Task, request.stage = "new",
           TaskSound(request, Len(users)), Send(c, request),
           UNCHANGED <<users, believed, doubt, renamed>>
    PROVE  /\ TasksInv' /\ MigratesHold' /\ KnownInv' /\ AloneInv'
           /\ \A id : Telling(id) => Telling(id)'
           /\ \A d \in Line : \A j \in 1 .. Len(tasks'[d]) : tasks'[d][j].stage = "answer" => login[d].listed
<1>0. Base /\ Grown
  BY Positions DEF AccountsInv, Grown
<1>1. TasksInv' /\ Added(c, request)
  BY <1>0, TaskSent DEF Base
<1>2. ASSUME NEW d \in Line, NEW j \in 1 .. Len(tasks'[d]), tasks'[d][j].stage # "new"
      PROVE  j \in 1 .. Len(tasks[d]) /\ tasks'[d][j] = tasks[d][j]
  <2>1. Len(tasks[d]) \in Nat
    BY <1>0 DEF Base, TasksInv
  <2> QED
    BY <1>1, <1>2, <2>1 DEF Added
<1>3. MigratesHold' /\ KnownInv'
  <2>1. ASSUME NEW d \in Line, NEW j \in 1 .. Len(tasks'[d]), tasks'[d][j].stage # "new"
        PROVE  /\ tasks'[d][j].stage = "migrate" /\ tasks'[d][j].id \notin doubt =>
                     tasks'[d][j].password \in believed[tasks'[d][j].id]
               /\ tasks'[d][j].id \notin renamed =>
                     /\ tasks'[d][j].stage \in {"migrate", "login", "answer"} =>
                           tasks'[d][j].object.values.username = users[tasks'[d][j].id].username
                     /\ tasks'[d][j].stage = "tell" => tasks'[d][j].name = users[tasks'[d][j].id].username
    <3>1. j \in 1 .. Len(tasks[d]) /\ tasks'[d][j] = tasks[d][j]
      BY <1>2, <2>1
    <3> QED
      BY <3>1 DEF AccountsInv, MigratesHold, KnownInv
  <2>2. MigratesHold'
    BY <2>1 DEF MigratesHold
  <2>3. KnownInv'
    BY <2>1 DEF KnownInv
  <2> QED
    BY <2>2, <2>3
<1>4. AloneInv'
  <2> SUFFICES ASSUME NEW d \in Line, NEW e \in Line, NEW j \in 1 .. Len(tasks'[d]), NEW k \in 1 .. Len(tasks'[e]),
                      tasks'[d][j].id \notin renamed', Overlap(tasks'[d][j], tasks'[e][k])
               PROVE  d = e /\ j = k
    BY DEF AloneInv, Overlap
  <2>1. /\ j \in 1 .. Len(tasks[d]) /\ tasks'[d][j] = tasks[d][j]
        /\ k \in 1 .. Len(tasks[e]) /\ tasks'[e][k] = tasks[e][k]
    BY <1>2 DEF Overlap
  <2> QED
    BY <2>1 DEF AccountsInv, AloneInv
<1>5. ASSUME NEW id, Telling(id) PROVE Telling(id)'
  <2>1. PICK d \in Line : \E j \in 1 .. Len(tasks[d]) : tasks[d][j].stage = "tell" /\ tasks[d][j].id = id
    BY <1>5 DEF Telling
  <2>2. PICK j \in 1 .. Len(tasks[d]) : tasks[d][j].stage = "tell" /\ tasks[d][j].id = id
    BY <2>1
  <2>3. Len(tasks[d]) \in Nat
    BY <1>0 DEF Base, TasksInv
  <2>4. j \in 1 .. Len(tasks'[d]) /\ tasks'[d][j] = tasks[d][j]
    BY <1>1, <2>3 DEF Added
  <2> QED
    BY <2>2, <2>4 DEF Telling
<1>6. ASSUME NEW d \in Line, NEW j \in 1 .. Len(tasks'[d]), tasks'[d][j].stage = "answer"
      PROVE  login[d].listed
  <2>1. j \in 1 .. Len(tasks[d]) /\ tasks'[d][j] = tasks[d][j]
    BY <1>2, <1>6
  <2> QED
    BY <1>6, <2>1 DEF AccountsInv, ListedInv
<1> QED
  BY <1>1, <1>3, <1>4, <1>5, <1>6

\* The forms still show the same accounts and names.
SameNames ==
    /\ form' \in [Line -> Form]
    /\ \A d \in Line : form'[d].panel = form[d].panel /\ form'[d].id = form[d].id /\ form'[d].name = form[d].name

LEMMA Clicked ==
    ASSUME AccountsInv, NEW c \in Line, NEW op \in {"InitialAuth", "InitialRegister", "ChangeUsername", "GetMySalt"},
           NEW request \in Task, request.op = op, request.stage = "new",
           Click(c, request), SameNames, UNCHANGED doubt
    PROVE  AccountsInv'
<1>0. /\ Base /\ Send(c, request)
      /\ UNCHANGED <<users, login, answers, salts, failures, believed, renamed, doubt>>
  BY DEF AccountsInv, Click
<1>1. TaskSound(request, Len(users))
  BY DEF TaskSound
<1>2. /\ TasksInv' /\ MigratesHold' /\ KnownInv' /\ AloneInv'
      /\ \A id : Telling(id) => Telling(id)'
      /\ \A d \in Line : \A j \in 1 .. Len(tasks'[d]) : tasks'[d][j].stage = "answer" => login[d].listed
  BY <1>0, <1>1, SentQuietly
<1>3. Base'
  BY <1>0, <1>2 DEF Base, UsersInv, AnswersInv, FormsInv, LoginsInv, SameNames
<1>4. ASSUME NEW d \in Line, NEW id, NEW name, NEW k, NameComes(d, id, name, k)
      PROVE  NameComes(d, id, name, k)'
  BY <1>0, <1>2, <1>4 DEF NameComes, Hears
<1>5. ShownInv'
  <2> SUFFICES ASSUME NEW d \in Line, form'[d].panel = "rooms", form'[d].id \notin renamed'
               PROVE  NameComes(d, form[d].id, form[d].name, 0)'
    BY DEF ShownInv
  <2> SUFFICES ASSUME NEW id, NEW name, id = form'[d].id, name = form'[d].name
               PROVE  NameComes(d, id, name, 0)'
    BY DEF NameComes, Telling, Hears
  <2>1. NameComes(d, id, name, 0)
    BY <1>0 DEF SameNames, AccountsInv, ShownInv
  <2> QED
    BY <1>4, <2>1
<1>6. ToldInv'
  <2> SUFFICES ASSUME NEW d \in Line, NEW k \in 1 .. Len(answers'[d]),
                      TellsName(answers[d][k])', (answers[d][k].id \notin renamed)'
               PROVE  NameComes(d, answers[d][k].id, answers[d][k].name, k)'
    BY DEF ToldInv
  <2> SUFFICES ASSUME NEW id, NEW name, id = answers'[d][k].id, name = answers'[d][k].name
               PROVE  NameComes(d, id, name, k)'
    BY DEF NameComes, Telling, Hears
  <2>1. TellsName(answers[d][k]) /\ k \in 1 .. Len(answers[d]) /\ id = answers[d][k].id /\ name = answers[d][k].name
        /\ id \notin renamed
    BY <1>0 DEF TellsName
  <2>2. NameComes(d, id, name, k)
    BY <2>1 DEF AccountsInv, ToldInv
  <2> QED
    BY <1>4, <2>2
<1>7. ListedInv'
  BY <1>0, <1>2 DEF AccountsInv, ListedInv, TellsName, SameNames
<1>8. RowsHold' /\ NamesDiffer'
  BY <1>0 DEF AccountsInv, RowsHold, NamesDiffer
<1> QED
  BY <1>2, <1>3, <1>5, <1>6, <1>7, <1>8 DEF AccountsInv

LEMMA SecretTyped == Password \subseteq Secret
BY Zenon DEF Secret

LEMMA UseStep ==
    ASSUME AccountsInv, NEW c \in Line, Use(c)
    PROVE  AccountsInv'
<1>0. form \in [Line -> Form]
  BY DEF AccountsInv, Base, FormsInv
<1>1. ASSUME NEW op \in {"InitialAuth", "InitialRegister", "ChangeUsername"}, NEW name \in Name
      PROVE  LET request == [Request(op) EXCEPT !.name = name]
             IN  request \in Task /\ request.op = op /\ request.stage = "new"
  <2>1. Request(op) \in Task /\ Request(op).op = op /\ Request(op).stage = "new"
    BY RequestTyped DEF Requests
  <2> QED
    BY <2>1, Zenon DEF Task, Text
<1>2. ASSUME NEW password \in Password, form' = [form EXCEPT ![c].password = password] PROVE SameNames
  BY <1>0, <1>2, SecretTyped DEF SameNames, Form
<1>3. ASSUME NEW name \in Name, NEW password \in Password, OnLogin(c, name, password) PROVE AccountsInv'
  BY <1>1, <1>2, <1>3, Clicked DEF OnLogin
<1>4. ASSUME NEW name \in Name, NEW password \in Password, OnRegister(c, name, password) PROVE AccountsInv'
  BY <1>1, <1>2, <1>4, Clicked, Zenon DEF OnRegister
<1>5. ASSUME NEW name \in Name, OnChangeUsername(c, name) PROVE AccountsInv'
  BY <1>0, <1>1, <1>5, Clicked DEF OnChangeUsername, SameNames
<1>6. ASSUME NEW old \in Password, NEW new \in Password, OnChangePassword(c, old, new) PROVE AccountsInv'
  <2>0. form' = [form EXCEPT ![c] = [@ EXCEPT !.old = old, !.new = new, !.busy = TRUE]]
    BY <1>6 DEF OnChangePassword
  <2>1. SameNames
    BY <1>0, <2>0, SecretTyped DEF SameNames, Form
  <2>2. Request("GetMySalt") \in Task /\ Request("GetMySalt").op = "GetMySalt" /\ Request("GetMySalt").stage = "new"
    BY RequestTyped DEF Requests
  <2> QED
    BY <1>6, <2>1, <2>2, Clicked DEF OnChangePassword
<1> QED
  BY <1>3, <1>4, <1>5, <1>6 DEF Use

\* The first answer is taken off the queue of c.
Taken(c) ==
    /\ answers' \in [Line -> Seq(Told)]
    /\ \A d \in Line : d # c => answers'[d] = answers[d]
    /\ 1 \in 1 .. Len(answers[c]) /\ answers[c][1] \in Told
    /\ Len(answers[c]) \in Nat /\ Len(answers'[c]) = Len(answers[c]) - 1
    /\ \A k \in 1 .. Len(answers'[c]) : answers'[c][k] = answers[c][k + 1]

LEMMA HeadTaken ==
    ASSUME Base, NEW c \in Line, answers[c] # <<>>, answers' = [answers EXCEPT ![c] = Tail(@)]
    PROVE  Taken(c) /\ Head(answers[c]) = answers[c][1]
<1>1. answers \in [Line -> Seq(Told)]
  BY DEF Base, AnswersInv
<1>2. PICK s : s = answers[c]
  OBVIOUS
<1>3. s \in Seq(Told) /\ s # <<>>
  BY <1>1, <1>2
<1>4. /\ Len(s) \in Nat /\ 1 \in 1 .. Len(s) /\ s[1] \in Told /\ Head(s) = s[1]
      /\ Tail(s) \in Seq(Told) /\ Len(Tail(s)) = Len(s) - 1
      /\ \A k \in 1 .. Len(Tail(s)) : Tail(s)[k] = s[k + 1]
  BY <1>3
<1>5. answers' = [answers EXCEPT ![c] = Tail(s)]
  BY <1>2
<1>6. answers' \in [Line -> Seq(Told)] /\ answers'[c] = Tail(s)
      /\ \A d \in Line : d # c => answers'[d] = answers[d]
  BY <1>1, <1>4, <1>5
<1> QED
  BY <1>2, <1>4, <1>6 DEF Taken

\* The form shows what it showed, or what the answer says.
Learned(c, head) ==
    /\ form' \in [Line -> Form]
    /\ \A d \in Line : d # c => form'[d] = form[d]
    /\ \/ /\ form'[c].panel = form[c].panel /\ form'[c].id = form[c].id /\ form'[c].name = form[c].name
          /\ ~(TellsName(head) /\ form[c].id = head.id)
       \/ TellsName(head) /\ form'[c].id = head.id /\ form'[c].name = head.name

LEMMA LearnedKeeps ==
    ASSUME AccountsInv, NEW c \in Line, NEW head, head = answers[c][1], Taken(c), Learned(c, head),
           UNCHANGED <<users, login, failures, believed, doubt, renamed>>, salts' \in Nat,
           TasksInv', MigratesHold', KnownInv', AloneInv',
           \A id : Telling(id) => Telling(id)',
           \A d \in Line : \A j \in 1 .. Len(tasks'[d]) : tasks'[d][j].stage = "answer" => login[d].listed
    PROVE  AccountsInv'
<1>1. ASSUME NEW d \in Line, NEW k \in 1 .. Len(answers'[d])
      PROVE  \E j \in 1 .. Len(answers[d]) :
                /\ answers'[d][k] = answers[d][j] /\ j = IF d = c THEN k + 1 ELSE k
  BY DEF Taken
<1>2. TellsName(head) => head.id \in 1 .. Len(users) /\ login[c].listed
  BY DEF AccountsInv, Base, AnswersInv, ListedInv, Taken
<1>3. AnswersInv'
  <2>1. ASSUME NEW d \in Line, NEW k \in 1 .. Len(answers'[d]), TellsName(answers'[d][k])
        PROVE  answers'[d][k].id \in 1 .. Len(users')
    BY <1>1, <2>1 DEF AccountsInv, Base, AnswersInv
  <2> QED
    BY <2>1 DEF AnswersInv, Taken
<1>4. ASSUME NEW d \in Line, form'[d].panel = "rooms" PROVE form'[d].id \in 1 .. Len(users') /\ login'[d].listed
  <2>1. CASE form'[d].panel = form[d].panel /\ form'[d].id = form[d].id
    BY <1>4, <2>1 DEF AccountsInv, Base, FormsInv, ListedInv
  <2>2. CASE d = c /\ TellsName(head) /\ form'[c].id = head.id
    BY <1>2, <2>2
  <2> QED
    BY <2>1, <2>2 DEF Learned
<1>5. Base'
  BY <1>3, <1>4 DEF AccountsInv, Base, UsersInv, FormsInv, LoginsInv, Learned
<1>6. ASSUME NEW d \in Line, NEW id, NEW k \in Nat, Hears(d, id, IF d = c THEN k + 1 ELSE k)
      PROVE  Hears(d, id, k)'
  <2>1. CASE d = c
    <3>1. PICK j \in 1 .. Len(answers[c]) :
             /\ k + 1 < j /\ TellsName(answers[c][j])
             /\ answers[c][j].id = id /\ answers[c][j].name = users[id].username
      BY <1>6, <2>1 DEF Hears
    <3>2. PICK i : i = j - 1
      OBVIOUS
    <3>3. /\ Len(answers[c]) \in Nat /\ Len(answers'[c]) = Len(answers[c]) - 1
          /\ \A n \in 1 .. Len(answers'[c]) : answers'[c][n] = answers[c][n + 1]
      BY DEF Taken
    <3>4. j = i + 1 /\ k < i /\ i \in 1 .. Len(answers'[c])
      BY <3>1, <3>2, <3>3
    <3>5. answers'[c][i] = answers[c][j]
      BY <3>3, <3>4
    <3> QED
      BY <2>1, <3>1, <3>4, <3>5 DEF Hears
  <2>2. CASE d # c
    BY <1>6, <2>2 DEF Hears, Taken
  <2> QED
    BY <2>1, <2>2
<1>7. ASSUME NEW d \in Line, NEW id, NEW name, NEW k \in Nat, NameComes(d, id, name, IF d = c THEN k + 1 ELSE k)
      PROVE  NameComes(d, id, name, k)'
  BY <1>6, <1>7 DEF NameComes
<1>8. ToldInv'
  <2> SUFFICES ASSUME NEW d \in Line, NEW k \in 1 .. Len(answers'[d]),
                      TellsName(answers[d][k])', (answers[d][k].id \notin renamed)'
               PROVE  NameComes(d, answers[d][k].id, answers[d][k].name, k)'
    BY DEF ToldInv
  <2> SUFFICES ASSUME NEW id, NEW name, id = answers'[d][k].id, name = answers'[d][k].name
               PROVE  NameComes(d, id, name, k)'
    BY DEF NameComes, Telling, Hears
  <2>1. PICK j \in 1 .. Len(answers[d]) : answers'[d][k] = answers[d][j] /\ j = IF d = c THEN k + 1 ELSE k
    BY <1>1
  <2>2. TellsName(answers[d][j]) /\ id = answers[d][j].id /\ name = answers[d][j].name /\ id \notin renamed
    BY <2>1 DEF TellsName
  <2>3. NameComes(d, id, name, j)
    BY <2>1, <2>2 DEF AccountsInv, ToldInv
  <2> QED
    BY <1>7, <2>1, <2>3
<1>9. ShownInv'
  <2> SUFFICES ASSUME NEW d \in Line, form'[d].panel = "rooms", form'[d].id \notin renamed'
               PROVE  NameComes(d, form[d].id, form[d].name, 0)'
    BY DEF ShownInv
  <2> SUFFICES ASSUME NEW id, NEW name, id = form'[d].id, name = form'[d].name
               PROVE  NameComes(d, id, name, 0)'
    BY DEF NameComes, Telling, Hears
  <2>1. CASE d # c
    <3>1. NameComes(d, id, name, 0)
      BY <2>1 DEF Learned, AccountsInv, ShownInv
    <3> QED
      BY <1>7, <2>1, <3>1
  <2>2. CASE d = c /\ form'[c].panel = form[c].panel /\ form'[c].id = form[c].id /\ form'[c].name = form[c].name
             /\ ~(TellsName(head) /\ form[c].id = head.id)
    <3>1. NameComes(c, id, name, 0)
      BY <2>2 DEF AccountsInv, ShownInv
    <3>2. ASSUME Hears(c, id, 0) PROVE Hears(c, id, 1)
      <4>1. PICK j \in 1 .. Len(answers[c]) :
               /\ 0 < j /\ TellsName(answers[c][j])
               /\ answers[c][j].id = id /\ answers[c][j].name = users[id].username
        BY <3>2 DEF Hears
      <4>2. j # 1
        BY <2>2, <4>1
      <4>3. 1 < j
        BY <4>1, <4>2
      <4> QED
        BY <4>1, <4>3 DEF Hears
    <3>3. NameComes(c, id, name, 1)
      BY <3>1, <3>2 DEF NameComes
    <3> QED
      BY <1>7, <2>2, <3>3
  <2>3. CASE d = c /\ TellsName(head) /\ form'[c].id = head.id /\ form'[c].name = head.name
    <3>1. 1 \in 1 .. Len(answers[c]) /\ id \notin renamed
      BY DEF Taken
    <3>2. NameComes(c, id, name, 1)
      BY <2>3, <3>1 DEF AccountsInv, ToldInv
    <3> QED
      BY <1>7, <2>3, <3>2
  <2> QED
    BY <2>1, <2>2, <2>3 DEF Learned
<1>10. ListedInv'
  <2>1. ASSUME NEW d \in Line, NEW k \in 1 .. Len(answers'[d]), TellsName(answers'[d][k]) PROVE login'[d].listed
    BY <1>1, <2>1 DEF AccountsInv, ListedInv
  <2> QED
    BY <1>4, <2>1 DEF ListedInv, TellsName
<1>11. RowsHold' /\ NamesDiffer'
  BY DEF AccountsInv, RowsHold, NamesDiffer
<1> QED
  BY <1>5, <1>8, <1>9, <1>10, <1>11 DEF AccountsInv

\* The second request of a log in, of a registration or of a new password.
LEMMA Continued ==
    ASSUME AccountsInv, NEW c \in Line, NEW head, head = answers[c][1], Taken(c), ~TellsName(head),
           UNCHANGED <<users, login, failures, believed, doubt, renamed>>, salts' \in Nat,
           NEW request \in Task, request.stage = "new", request.op \in {"Auth", "Register", "ChangePassword"},
           request.hash \in Hash, request.hash.salt = request.salt,
           request.op = "Auth" => request.hash.password = request.password,
           Send(c, request),
           NEW fields \in Form, form' = [form EXCEPT ![c] = fields],
           fields.panel = form[c].panel, fields.id = form[c].id, fields.name = form[c].name
    PROVE  AccountsInv'
<1>1. TaskSound(request, Len(users))
  BY DEF TaskSound
<1>2. Learned(c, head)
  BY DEF Learned, AccountsInv, Base, FormsInv
<1> QED
  BY <1>1, <1>2, SentQuietly, LearnedKeeps

\* An answer that is only shown.
LEMMA Shown ==
    ASSUME AccountsInv, NEW c \in Line, NEW head, head = answers[c][1], Taken(c),
           UNCHANGED <<users, login, failures, believed, doubt, renamed, tasks, salts>>,
           NEW fields \in Form, form' = [form EXCEPT ![c] = fields],
           \/ /\ fields.panel = form[c].panel /\ fields.id = form[c].id /\ fields.name = form[c].name
              /\ ~(TellsName(head) /\ form[c].id = head.id)
           \/ TellsName(head) /\ fields.id = head.id /\ fields.name = head.name
    PROVE  AccountsInv'
<1>1. Learned(c, head)
  BY DEF Learned, AccountsInv, Base, FormsInv
<1>2. TasksInv' /\ MigratesHold' /\ KnownInv' /\ AloneInv' /\ salts' \in Nat
  BY DEF AccountsInv, Base, UsersInv, TasksInv, MigratesHold, KnownInv, AloneInv, Overlap
<1>3. \A id : Telling(id) => Telling(id)'
  BY DEF Telling
<1>4. \A d \in Line : \A j \in 1 .. Len(tasks'[d]) : tasks'[d][j].stage = "answer" => login[d].listed
  BY DEF AccountsInv, ListedInv
<1> QED
  BY <1>1, <1>2, <1>3, <1>4, LearnedKeeps

LEMMA HashTyped ==
    ASSUME NEW password \in Secret, NEW salt \in Salt
    PROVE  /\ hash_password(password, salt) \in Hash
           /\ hash_password(password, salt).salt = salt /\ hash_password(password, salt).password = password
<1>1. Hash = [password : Secret, salt : Salt]
  BY Zenon DEF Hash, Secret, Salt
<1> QED
  BY <1>1 DEF hash_password

LEMMA ReceiveStep ==
    ASSUME AccountsInv, NEW c \in Line, Receive(c)
    PROVE  AccountsInv'
<1>0. /\ Base /\ answers[c] # <<>> /\ answers' = [answers EXCEPT ![c] = Tail(@)]
      /\ UNCHANGED <<users, login, failures, believed, doubt, renamed>>
  BY DEF AccountsInv, Receive
<1>1. Taken(c) /\ Head(answers[c]) = answers[c][1]
  BY <1>0, HeadTaken
<1>2. PICK head : head = answers[c][1]
  OBVIOUS
<1>3. head \in Told
  BY <1>1, <1>2 DEF Taken
<1>4. form \in [Line -> Form] /\ form[c] \in Form /\ salts \in Nat
  BY <1>0 DEF Base, FormsInv, UsersInv
<1>5. CASE head.op = "InitialAuth" /\ head.ok
  <2>1. PICK mine : mine = IF head.salt = NULL THEN salts + 1 ELSE head.salt
    OBVIOUS
  <2>2. mine \in Salt
    BY <1>3, <1>4, <2>1 DEF Told, Salt
  <2>3. PICK password : password = form[c].password
    OBVIOUS
  <2>4. PICK hash : hash = hash_password(password, mine)
    OBVIOUS
  <2>5. PICK migrates \in BOOLEAN : migrates = (head.salt = NULL)
    OBVIOUS
  <2>6. PICK request : request = [Request("Auth") EXCEPT !.password = password, !.migrates = migrates, !.salt = mine,
                                                         !.hash = hash]
    OBVIOUS
  <2>7. PICK fields : fields = [form[c] EXCEPT !.password = ""]
    OBVIOUS
  <2>8. /\ Send(c, request) /\ form' = [form EXCEPT ![c] = fields]
        /\ salts' = IF head.salt = NULL THEN salts + 1 ELSE salts
    <3>1. HandleAuthContinue(c, head.salt)
      BY <1>1, <1>2, <1>5 DEF Receive
    <3>2. Send(c, request)
      BY <3>1, <2>1, <2>3, <2>4, <2>5, <2>6, Zenon DEF HandleAuthContinue
    <3> QED
      BY <3>1, <3>2, <1>4, <2>7, Zenon DEF HandleAuthContinue
  <2>9. hash \in Hash /\ hash.salt = mine /\ hash.password = password /\ password \in Secret
    BY <1>4, <2>2, <2>3, <2>4, HashTyped DEF Form
  <2>10. /\ request \in Task /\ request.stage = "new" /\ request.op = "Auth"
         /\ request.hash = hash /\ request.salt = mine /\ request.password = password
    <3>1. Request("Auth") \in Task /\ Request("Auth").op = "Auth" /\ Request("Auth").stage = "new"
      BY RequestTyped DEF Requests
    <3> QED
      BY <2>2, <2>5, <2>6, <2>9, <3>1 DEF Task
  <2>11. fields \in Form /\ fields.panel = form[c].panel /\ fields.id = form[c].id /\ fields.name = form[c].name
    BY <1>4, <2>7, Zenon DEF Form, Secret
  <2>12. ~TellsName(head)
    BY <1>5 DEF TellsName
  <2>13. salts' \in Nat
    BY <1>4, <2>8
  <2> QED
    BY <1>0, <1>1, <1>2, <2>8, <2>9, <2>10, <2>11, <2>12, <2>13, Continued
<1>6. CASE head.op = "InitialRegister" /\ head.ok
  <2>1. PICK mine : mine = salts + 1
    OBVIOUS
  <2>2. PICK hash : hash = hash_password(form[c].password, mine)
    OBVIOUS
  <2>3. PICK request : request = [Request("Register") EXCEPT !.hash = hash, !.salt = mine]
    OBVIOUS
  <2>4. PICK fields : fields = [form[c] EXCEPT !.password = ""]
    OBVIOUS
  <2>5. Send(c, request) /\ form' = [form EXCEPT ![c] = fields] /\ salts' = salts + 1
    <3>1. HandleRegisterContinue(c)
      BY <1>1, <1>2, <1>6 DEF Receive
    <3> QED
      BY <3>1, <1>4, <2>1, <2>2, <2>3, <2>4, Zenon DEF HandleRegisterContinue
  <2>6. mine \in Nat /\ hash \in Hash /\ hash.salt = mine
    BY <1>4, <2>1, <2>2, HashTyped DEF Form, Salt
  <2>7. request \in Task /\ request.stage = "new" /\ request.op = "Register" /\ request.hash = hash /\ request.salt = mine
    <3>1. Request("Register") \in Task /\ Request("Register").op = "Register" /\ Request("Register").stage = "new"
      BY RequestTyped DEF Requests
    <3> QED
      BY <2>3, <2>6, <3>1 DEF Task, Salt
  <2>8. fields \in Form /\ fields.panel = form[c].panel /\ fields.id = form[c].id /\ fields.name = form[c].name
    BY <1>4, <2>4, Zenon DEF Form, Secret
  <2>9. ~TellsName(head)
    BY <1>6 DEF TellsName
  <2>10. salts' \in Nat
    BY <1>4, <2>5
  <2> QED
    BY <1>0, <1>1, <1>2, <2>5, <2>6, <2>7, <2>8, <2>9, <2>10, Continued
<1>7. CASE head.op = "GetMySalt" /\ head.ok
  <2>1. PICK mine : mine = salts + 1
    OBVIOUS
  <2>2. PICK old, hash : old = hash_password(form[c].old, head.salt) /\ hash = hash_password(form[c].new, mine)
    OBVIOUS
  <2>3. PICK request : request = [Request("ChangePassword") EXCEPT !.old = old, !.hash = hash, !.salt = mine]
    OBVIOUS
  <2>4. PICK fields : fields = [form[c] EXCEPT !.old = "", !.new = "", !.busy = FALSE]
    OBVIOUS
  <2>5. Send(c, request) /\ form' = [form EXCEPT ![c] = fields] /\ salts' = salts + 1
    <3>1. OnPasswordChangeContinue(c, head.salt)
      BY <1>1, <1>2, <1>7 DEF Receive
    <3> QED
      BY <3>1, <1>4, <2>1, <2>2, <2>3, <2>4 DEF OnPasswordChangeContinue
  <2>6. mine \in Nat /\ hash \in Hash /\ hash.salt = mine /\ old \in Hash
    <3>1. mine \in Nat /\ mine \in Salt /\ head.salt \in Salt
      BY <1>3, <1>4, <2>1 DEF Told, Salt
    <3>2. form[c].old \in Secret /\ form[c].new \in Secret
      BY <1>4 DEF Form
    <3> QED
      BY <2>2, <3>1, <3>2, HashTyped
  <2>7. request \in Task /\ request.stage = "new" /\ request.op = "ChangePassword"
        /\ request.hash = hash /\ request.salt = mine
    <3>1. /\ Request("ChangePassword") \in Task
          /\ Request("ChangePassword").op = "ChangePassword" /\ Request("ChangePassword").stage = "new"
      BY RequestTyped DEF Requests
    <3> QED
      BY <2>3, <2>6, <3>1 DEF Task, Salt
  <2>8. fields \in Form /\ fields.panel = form[c].panel /\ fields.id = form[c].id /\ fields.name = form[c].name
    BY <1>4, <2>4, Zenon DEF Form, Secret
  <2>9. ~TellsName(head)
    BY <1>7 DEF TellsName
  <2>10. salts' \in Nat
    BY <1>4, <2>5
  <2> QED
    BY <1>0, <1>1, <1>2, <2>5, <2>6, <2>7, <2>8, <2>9, <2>10, Continued
<1>8. CASE ~(head.op \in {"InitialAuth", "InitialRegister", "GetMySalt"} /\ head.ok)
  <2>1. PICK fields : /\ Show(c, fields)
                      /\ fields = CASE head.op = "Auth" /\ head.ok ->
                                         [form[c] EXCEPT !.panel = "rooms", !.id = head.id, !.name = head.name]
                                    [] head.op = "UsernameChanged" /\ head.id = form[c].id ->
                                         [form[c] EXCEPT !.name = head.name]
                                    [] head.op = "GetMySalt" -> [form[c] EXCEPT !.busy = FALSE]
                                    [] OTHER -> form[c]
    <3>1. CASE head.op = "Auth" /\ head.ok
      BY <1>1, <1>2, <3>1 DEF Receive
    <3>2. CASE head.op = "UsernameChanged"
      BY <1>1, <1>2, <3>2 DEF Receive
    <3>3. CASE head.op = "GetMySalt"
      BY <1>1, <1>2, <1>8, <3>3 DEF Receive
    <3>4. CASE head.op \notin {"UsernameChanged", "GetMySalt"} /\ ~(head.op = "Auth" /\ head.ok)
      BY <1>1, <1>2, <1>8, <3>4 DEF Receive
    <3> QED
      BY <3>1, <3>2, <3>3, <3>4
  <2>2. form' = [form EXCEPT ![c] = fields] /\ UNCHANGED <<tasks, salts>>
    BY <2>1 DEF Show
  <2>3. fields \in Form
    BY <1>3, <1>4, <2>1 DEF Form, Told
  <2>4. \/ /\ fields.panel = form[c].panel /\ fields.id = form[c].id /\ fields.name = form[c].name
           /\ ~(TellsName(head) /\ form[c].id = head.id)
        \/ TellsName(head) /\ fields.id = head.id /\ fields.name = head.name
    BY <1>4, <2>1 DEF TellsName, Form
  <2> QED
    BY <1>0, <1>1, <1>2, <2>2, <2>3, <2>4, Shown
<1> QED
  BY <1>5, <1>6, <1>7, <1>8

\* Before anybody has asked for anything.
LEMMA FieldsTyped ==
    ASSUME NEW id \in Nat, NEW name \in Text
    PROVE  /\ Fields(id, name) \in Form /\ Fields(id, name).id = id /\ Fields(id, name).name = name
           /\ Fields(id, name).panel = "rooms" => id # 0
<1>1. PICK blank \in Secret : blank = ""
  BY Zenon DEF Secret
<1>2. PICK panel : panel = IF id = 0 THEN "auth" ELSE "rooms"
  OBVIOUS
<1>3. Fields(id, name) = [panel |-> panel, id |-> id, name |-> name, password |-> blank, old |-> blank,
                          new |-> blank, busy |-> FALSE]
  BY <1>1, <1>2, Zenon DEF Fields
<1> QED
  BY <1>2, <1>3 DEF Form

LEMMA AccountsStart == InitAccounts => AccountsInv
<1> SUFFICES ASSUME InitAccounts PROVE AccountsInv
  OBVIOUS
<1>1. /\ users \in Seq(Account) /\ users \in Seq(UserRow) /\ Len(users) \in Nat /\ DOMAIN users = 1 .. Len(users)
      /\ \A id \in 1 .. Len(users) : users[id] \in Account /\ users[id].hash_password.salt = users[id].salt
  <2>1. users \in Seq(Account)
    BY Zenon DEF InitAccounts
  <2>2. Account \subseteq UserRow
    BY Zenon DEF Account, UserRow, Text, Salt
  <2>3. Len(users) \in Nat /\ DOMAIN users = 1 .. Len(users) /\ \A id \in 1 .. Len(users) : users[id] \in Account
    BY <2>1
  <2>4. users \in Seq(UserRow)
    BY <2>1, <2>2
  <2> QED
    BY <2>1, <2>3, <2>4, Zenon DEF InitAccounts
<1>2. /\ believed \in Seq(SUBSET Secret) /\ Len(believed) = Len(users)
      /\ \A id \in 1 .. Len(users) : believed[id] = {users[id].hash_password.password}
  <2>1. PICK n \in Nat : n = Len(users)
    BY <1>1, Zenon
  <2>2. believed = [id \in 1 .. n |-> {users[id].hash_password.password}]
    BY <1>1, <2>1, Zenon DEF InitAccounts
  <2>3. \A id \in 1 .. n : {users[id].hash_password.password} \in SUBSET Secret
    BY <1>1, <2>1, Zenon DEF Account, Hash, Secret
  <2>4. believed \in [1 .. n -> SUBSET Secret] /\ DOMAIN believed = 1 .. n
    BY <2>2, <2>3
  <2>5. believed \in Seq(SUBSET Secret) /\ Len(believed) = n
    BY <2>4
  <2>6. \A id \in 1 .. n : believed[id] = {users[id].hash_password.password}
    BY <2>2
  <2> QED
    BY <2>1, <2>5, <2>6
<1>3. \A c \in Line :
         \/ login[c] = [status |-> "Unauthenticated", id |-> 0, name |-> "", listed |-> FALSE]
         \/ \E id \in 1 .. Len(users) :
               login[c] = [status |-> "Authenticated", id |-> id, name |-> users[id].username, listed |-> TRUE]
  BY <1>1, Zenon DEF InitAccounts
<1>4. /\ tasks \in [Line -> Seq(Task)] /\ answers \in [Line -> Seq(Told)]
      /\ login = [c \in Line |-> login[c]] /\ form = [c \in Line |-> form[c]]
      /\ \A c \in Line : form[c] = Fields(login[c].id, login[c].name)
      /\ \A c \in Line : Len(tasks[c]) = 0 /\ Len(answers[c]) = 0
  <2>1. /\ tasks = [c \in Line |-> <<>>] /\ answers = [c \in Line |-> <<>>]
        /\ login = [c \in Line |-> login[c]] /\ form = [c \in Line |-> Fields(login[c].id, login[c].name)]
    BY Zenon DEF InitAccounts
  <2> QED
    BY <2>1
<1>5. ASSUME NEW c \in Line
      PROVE  /\ login[c] \in Session /\ form[c] \in Form
             /\ login[c].status = "Authenticated" => login[c].id \in 1 .. Len(users)
             /\ form[c].panel = "rooms" =>
                   /\ form[c].id \in 1 .. Len(users) /\ login[c].listed
                   /\ form[c].name = users[form[c].id].username
  <2>1. CASE login[c] = [status |-> "Unauthenticated", id |-> 0, name |-> "", listed |-> FALSE]
    <3>1. PICK name \in Text : name = ""
      BY Zenon DEF Text
    <3>2. login[c] = [status |-> "Unauthenticated", id |-> 0, name |-> name, listed |-> FALSE]
      BY <2>1, <3>1, Zenon
    <3>3. form[c] = Fields(0, name)
      BY <1>4, <3>2
    <3>4. form[c] \in Form /\ ~(form[c].panel = "rooms")
      BY <3>3, FieldsTyped
    <3> QED
      BY <3>2, <3>4 DEF Session
  <2>2. ASSUME NEW id \in 1 .. Len(users),
               login[c] = [status |-> "Authenticated", id |-> id, name |-> users[id].username, listed |-> TRUE]
        PROVE  /\ login[c] \in Session /\ form[c] \in Form
               /\ login[c].status = "Authenticated" => login[c].id \in 1 .. Len(users)
               /\ form[c].panel = "rooms" =>
                     /\ form[c].id \in 1 .. Len(users) /\ login[c].listed
                     /\ form[c].name = users[form[c].id].username
    <3>1. PICK name \in Name : name = users[id].username
      BY <1>1 DEF Account
    <3>2. id \in Nat /\ name \in Text
      <4>1. id \in Nat
        BY <1>1
      <4>2. name \in Text
        BY <3>1, Zenon DEF Text
      <4> QED
        BY <4>1, <4>2
    <3>3. form[c] = Fields(id, name)
      BY <1>4, <2>2, <3>1
    <3>4. form[c] \in Form /\ form[c].id = id /\ form[c].name = name
      BY <3>2, <3>3, FieldsTyped
    <3> QED
      BY <2>2, <3>1, <3>2, <3>4 DEF Session
  <2> QED
    BY <1>3, <2>1, <2>2, Zenon
<1>6. Base
  <2>1. salts = 0 /\ failures = 0
    BY Zenon DEF InitAccounts
  <2>2. UsersInv
    BY <1>1, <1>2, <2>1 DEF UsersInv
  <2>3. TasksInv /\ AnswersInv
    BY <1>4 DEF TasksInv, AnswersInv
  <2>4. FormsInv /\ LoginsInv
    BY <1>4, <1>5 DEF FormsInv, LoginsInv
  <2> QED
    BY <2>2, <2>3, <2>4 DEF Base
<1>7. RowsHold
  BY <1>1, <1>2 DEF RowsHold, Account
<1>8. NamesDiffer
  BY <1>1, Zenon DEF NamesDiffer, InitAccounts
<1>9. ShownInv
  BY <1>5 DEF ShownInv, NameComes
<1>10. MigratesHold /\ KnownInv /\ AloneInv /\ ToldInv
  BY <1>4 DEF MigratesHold, KnownInv, AloneInv, ToldInv
<1>11. ListedInv
  BY <1>4, <1>5 DEF ListedInv
<1> QED
  BY <1>6, <1>7, <1>8, <1>9, <1>10, <1>11 DEF AccountsInv

LEMMA AccountsStep == AccountsInv /\ [NextAccounts]_accountVars => AccountsInv'
<1>1. ASSUME AccountsInv, UNCHANGED accountVars PROVE AccountsInv'
  <2>1. UNCHANGED <<users, login, tasks, answers, form, salts, failures, believed, doubt, renamed>>
    BY <1>1 DEF accountVars
  <2>2. Base'
    BY <1>1, <2>1 DEF AccountsInv, Base, UsersInv, TasksInv, AnswersInv, FormsInv, LoginsInv
  <2>3. RowsHold' /\ MigratesHold' /\ NamesDiffer'
    BY <1>1, <2>1 DEF AccountsInv, RowsHold, MigratesHold, NamesDiffer
  <2>4. KnownInv' /\ AloneInv' /\ ListedInv'
    BY <1>1, <2>1 DEF AccountsInv, KnownInv, AloneInv, ListedInv, Overlap, TellsName
  <2>5. \A c, id, name, k : NameComes(c, id, name, k)' <=> NameComes(c, id, name, k)
    BY <2>1 DEF NameComes, Telling, Hears
  <2>6. ShownInv' /\ ToldInv'
    BY <1>1, <2>1 DEF AccountsInv, ShownInv, ToldInv, NameComes, Telling, Hears, TellsName
  <2> QED
    BY <2>2, <2>3, <2>4, <2>6 DEF AccountsInv
<1> QED
  BY <1>1, HandlesKeep, UseStep, ReceiveStep DEF NextAccounts

(***************************************************************************)
(* The password that the server accepted last opens the account: the salt  *)
(* of a row is its hash's, whatever log ins that migrate a legacy account, *)
(* changes of the password and renames of the account overlap.             *)
(* handleAuth, handleChangePassword and handleChangeUsername write rows    *)
(* they read some awaits before.                                           *)
(***************************************************************************)
THEOREM PasswordsHoldHolds == SpecAccounts => []PasswordsHold
<1>1. ASSUME AccountsInv PROVE PasswordsHold
  <2>1. DOMAIN users = 1 .. Len(users)
    BY <1>1, Positions DEF AccountsInv
  <2> QED
    BY <1>1, <2>1 DEF AccountsInv, RowsHold, PasswordsHold
<1> QED
  BY <1>1, AccountsStart, AccountsStep, PTL DEF SpecAccounts

(***************************************************************************)
(* No two accounts have the same name, and a client that has heard all     *)
(* there is to hear shows its account's: whoever handleAuth or             *)
(* handleChangeUsername is about to tell a name is registered for the      *)
(* changes of it, and they arrive in the order in which they were made.    *)
(***************************************************************************)
THEOREM NamesAreTrueHolds == SpecAccounts => []NamesAreTrue
<1>1. ASSUME AccountsInv PROVE NamesAreTrue
  <2>0. /\ DOMAIN users = 1 .. Len(users)
        /\ \A c \in Line : DOMAIN tasks[c] = 1 .. Len(tasks[c])
    BY <1>1, Positions DEF AccountsInv
  <2>1. ASSUME NEW id, Telling(id) PROVE Renaming(id)
    <3>0. PICK c \in Line : \E i \in 1 .. Len(tasks[c]) : tasks[c][i].stage = "tell" /\ tasks[c][i].id = id
      BY <2>1 DEF Telling
    <3>1. PICK i \in 1 .. Len(tasks[c]) : tasks[c][i].stage = "tell" /\ tasks[c][i].id = id
      BY <3>0
    <3>2. TaskSound(tasks[c][i], Len(users))
      BY <1>1 DEF AccountsInv, Base, TasksInv
    <3>3. tasks[c][i].op = "ChangeUsername" /\ i \in DOMAIN tasks[c] /\ tasks[c][i].stage # "new"
      BY <2>0, <3>1, <3>2 DEF TaskSound
    <3> QED
      BY <3>1, <3>3 DEF Renaming, Holding
  <2>2. ASSUME NEW c \in Line, answers[c] = <<>>, form[c].panel = "rooms", form[c].id \notin renamed
        PROVE  form[c].name = users[form[c].id].username \/ Renaming(form[c].id)
    <3>1. PICK id : id = form[c].id
      OBVIOUS
    <3>2. Len(answers[c]) = 0
      BY <2>2
    <3>3. ~Hears(c, id, 0)
      BY <3>2 DEF Hears
    <3>4. NameComes(c, id, form[c].name, 0)
      BY <1>1, <2>2, <3>1 DEF AccountsInv, ShownInv
    <3> QED
      BY <2>1, <3>1, <3>3, <3>4 DEF NameComes
  <2> QED
    BY <1>1, <2>0, <2>2 DEF AccountsInv, NamesDiffer, NamesAreTrue
<1> QED
  BY <1>1, AccountsStart, AccountsStep, PTL DEF SpecAccounts

-----------------------------------------------------------------------------
(***************************************************************************)
(* Rooms: what the lists of a client and the notices behind them say, and  *)
(* what the handlers do to rows, requests, notices and panels.  The theorem*)
(* is in RoomsProofs.                                                      *)
(***************************************************************************)

RoomText == RoomName \cup {""}
RoomItem == [id : Nat, name : RoomText]
Tabs     == {"mine", "public"}

Panels == [page : {"auth", "rooms", "chat", "ended"}, me : Nat, tab : Tabs, header : RoomItem,
           list : [mine : Seq(RoomItem), public : Seq(RoomItem)], selected : [mine : Nat, public : Nat]]

PanelSound(p) ==
    /\ p \in Panels
    /\ p.selected.mine <= Len(p.list.mine) /\ p.selected.public <= Len(p.list.public)

Errands  == {"CreateRoom", "RenameRoom", "DeleteRoom", "BecomeMember", "JoinRoom", "AssignRole", "Auth"}
Tidings  == {"NewRoomCreated", "NewRoomName", "RoomDeleted"}
Joins    == {"JoinRoom", "BecomeMember"}

ChoreTyped(chore) ==
    /\ chore.op \in Errands /\ chore.id \in Nat /\ chore.name \in RoomText
    /\ chore.mine \in Seq(RoomItem) /\ chore.public \in Seq(RoomItem)
    /\ DOMAIN chore.object.values = {"membership_status"}

NoticeTyped(notice) ==
    /\ notice.op \in Errands \cup Tidings
    /\ notice.op \in Tidings => notice.id \in Nat
    /\ notice.op \in {"NewRoomCreated", "NewRoomName"} => notice.name \in RoomText
    /\ notice.op = "NewRoomCreated" => notice.owner # 0
    /\ notice.op = "Auth" => notice.mine \in Seq(RoomItem) /\ notice.public \in Seq(RoomItem) /\ notice.user \in Nat

VisitTyped ==
    /\ visit = [v \in Visitor |-> visit[v]]
    /\ \A v \in Visitor : /\ DOMAIN visit[v] = {"user", "listed", "room", "owner"}
                          /\ visit[v].user \in Nat \ {0} /\ visit[v].listed \in BOOLEAN

RowsTyped ==
    /\ \A id \in DOMAIN db.rooms : db.rooms[id].room_name \in RoomText
    /\ \A key \in DOMAIN db.membership : DOMAIN db.membership[key] = {"membership_status"}

BoxesTyped ==
    /\ \A v \in Visitor : \A j \in DOMAIN chores[v] : ChoreTyped(chores[v][j])
    /\ notices = [v \in Visitor |-> notices[v]]
    /\ \A v \in Visitor : IsSeq(notices[v]) /\ \A k \in DOMAIN notices[v] : NoticeTyped(notices[v][k])

PanelsTyped ==
    /\ lobby = [v \in Visitor |-> lobby[v]]
    /\ \A v \in Visitor : PanelSound(lobby[v])

TypesInv == VisitTyped /\ RowsTyped /\ BoxesTyped /\ PanelsTyped

\* The log in of a connection, in four phases.
PhaseOf(v) ==
    /\ ~visit[v].listed => lobby[v].page = "auth" /\ notices[v] = <<>>
    /\ lobby[v].page = "auth" =>
          /\ \A j \in DOMAIN chores[v] : chores[v][j].op = "Auth"
          /\ \A k \in DOMAIN notices[v] : notices[v][k].op \in Tidings \cup {"Auth"}
          /\ lobby[v].me = 0
    /\ lobby[v].page # "auth" => lobby[v].me = visit[v].user
    /\ \A j \in DOMAIN chores[v] : chores[v][j].op = "Auth" =>
          /\ lobby[v].page = "auth" /\ DOMAIN chores[v] = {j}
          /\ chores[v][j].stage \in {"new", "register", "answer"}
          /\ visit[v].listed = (chores[v][j].stage = "answer")
          /\ \A k \in DOMAIN notices[v] : notices[v][k].op # "Auth"
    /\ \A k \in DOMAIN notices[v] : notices[v][k].op = "Auth" =>
          /\ lobby[v].page = "auth" /\ DOMAIN chores[v] = {} /\ notices[v][k].user = visit[v].user
          /\ \A l \in DOMAIN notices[v] : notices[v][l].op = "Auth" => k = l
PhaseInv == \A v \in Visitor : PhaseOf(v)

-----------------------------------------------------------------------------
Places(items, id)  == {i \in DOMAIN items : items[i].id = id}
NamesIn(items, id) == {items[i].name : i \in Places(items, id)}
AtMostOnce(items, id) == \A i, j \in Places(items, id) : i = j
Calls(lists, id) == NamesIn(lists.mine, id) \cup NamesIn(lists.public, id)
Single(lists, id) ==
    /\ AtMostOnce(lists.mine, id) /\ AtMostOnce(lists.public, id)
    /\ NamesIn(lists.mine, id) = {} \/ NamesIn(lists.public, id) = {}

Announcing(op, id) ==
    \E w \in Visitor : \E j \in DOMAIN chores[w] :
        chores[w][j].op = op /\ chores[w][j].id = id /\ chores[w][j].stage = "tell"

Unborn(id) == id \notin 1 .. db.serial \/ Announcing("CreateRoom", id)
Stage(id) == IF Unborn(id) THEN "unborn" ELSE IF id \in DOMAIN db.rooms THEN "known"
             ELSE IF Announcing("DeleteRoom", id) THEN "going" ELSE "gone"
Quiet(id) == ~Announcing("RenameRoom", id)

Says(notice, op, id) == notice.op = op /\ notice.id = id
About(notice, id) == notice.op \in Tidings /\ notice.id = id
Later(q, k, op, id) == \E l \in DOMAIN q : k < l /\ Says(q[l], op, id)

\* What the lists and the notices behind them say of a room: nothing; that it
\* is there; that it goes; at last, its name.
CameOnce(lists, q, id) ==
    \A k \in DOMAIN q : Says(q[k], "NewRoomCreated", id) =>
        Calls(lists, id) = {} /\ \A l \in DOMAIN q : Says(q[l], "NewRoomCreated", id) => k = l
Unheard(lists, q, id) == Calls(lists, id) = {} /\ \A k \in DOMAIN q : ~About(q[k], id)
Stays(lists, q, id) ==
    /\ \A k \in DOMAIN q : ~Says(q[k], "RoomDeleted", id)
    /\ Calls(lists, id) # {} \/ \E k \in DOMAIN q : Says(q[k], "NewRoomCreated", id)
Goes(lists, q, id) ==
    /\ Calls(lists, id) # {} => Later(q, 0, "RoomDeleted", id)
    /\ \A k \in DOMAIN q : Says(q[k], "NewRoomCreated", id) => Later(q, k, "RoomDeleted", id)
NameComesTo(lists, q, id, name) ==
    /\ \A n \in Calls(lists, id) : n = name \/ Later(q, 0, "NewRoomName", id)
    /\ \A k \in DOMAIN q : Says(q[k], "NewRoomCreated", id) \/ Says(q[k], "NewRoomName", id) =>
          q[k].name = name \/ Later(q, k, "NewRoomName", id)

Heard(lists, q, id, stage, name, quiet) ==
    /\ Single(lists, id) /\ CameOnce(lists, q, id)
    /\ stage = "unborn" => Unheard(lists, q, id)
    /\ stage = "known" => Stays(lists, q, id)
    /\ stage = "gone" => Goes(lists, q, id)
    /\ stage = "known" /\ quiet => NameComesTo(lists, q, id, name)

Pair(x) == [mine |-> x.mine, public |-> x.public]
AuthsDone(v) == {j \in DOMAIN chores[v] : chores[v][j].op = "Auth" /\ chores[v][j].stage # "new"}
AuthsTold(v) == {k \in DOMAIN notices[v] : notices[v][k].op = "Auth"}

\* The lists a client has, or will have by its log in.
Bases(v) == (IF lobby[v].page = "auth" THEN {} ELSE {lobby[v].list})
            \cup {Pair(chores[v][j]) : j \in AuthsDone(v)} \cup {Pair(notices[v][k]) : k \in AuthsTold(v)}

NameNow(id) == IF id \in DOMAIN db.rooms THEN db.rooms[id].room_name ELSE ""

HeardOf(v, id) == \A lists \in Bases(v) : Heard(lists, notices[v], id, Stage(id), NameNow(id), Quiet(id))
\* Nothing about the room is heard before the lists.
ListsFirst(v, id) ==
    /\ \A j \in AuthsDone(v) : \A k \in DOMAIN notices[v] : ~About(notices[v][k], id)
    /\ \A k \in AuthsTold(v) : \A l \in DOMAIN notices[v] : l < k => ~About(notices[v][l], id)
HeaderOf(v, id) == lobby[v].page = "chat" /\ lobby[v].header.id = id => Calls(lobby[v].list, id) = {lobby[v].header.name}

HeardInv == \A v \in Visitor : \A id \in Nat \ puzzled :
    HeardOf(v, id) /\ ListsFirst(v, id) /\ HeaderOf(v, id)

\* Requests that are about to be announced.
ChoresTrue(chore) ==
    /\ chore.op \in {"CreateRoom", "DeleteRoom"} => chore.stage \in {"new", "tell"}
    /\ chore.op \in {"RenameRoom", "DeleteRoom"} /\ chore.id \notin puzzled => ~Unborn(chore.id)
    /\ chore.op = "CreateRoom" /\ chore.stage = "tell" =>
          /\ chore.id \in 1 .. db.serial
          /\ chore.id \notin puzzled => chore.id \in DOMAIN db.rooms /\ chore.name = db.rooms[chore.id].room_name
    /\ chore.op = "DeleteRoom" /\ chore.stage = "tell" => chore.id \in 1 .. db.serial /\ chore.id \notin DOMAIN db.rooms
    /\ chore.op = "RenameRoom" /\ chore.stage = "tell" /\ chore.id \notin puzzled /\ chore.id \in DOMAIN db.rooms =>
          chore.name = db.rooms[chore.id].room_name

Creates(w, i) == chores[w][i].op = "CreateRoom" /\ chores[w][i].stage = "tell"
AnnouncementsInv ==
    /\ \A w \in Visitor : \A i \in DOMAIN chores[w] : ChoresTrue(chores[w][i])
    /\ \A w, u \in Visitor : \A i \in DOMAIN chores[w], j \in DOMAIN chores[u] :
          Creates(w, i) /\ Creates(u, j) /\ chores[w][i].id = chores[u][j].id => w = u /\ i = j

IsMember(user, id) == <<user, id>> \in DOMAIN db.membership /\ db.membership[<<user, id>>].membership_status = "JOINED"

-----------------------------------------------------------------------------
(***************************************************************************)
(* Items of a list: one comes, one goes, one is given another name.        *)
(***************************************************************************)

\* The same is said of the room, and no more often.
Alike(s, t, id) == NamesIn(t, id) = NamesIn(s, id) /\ (AtMostOnce(s, id) => AtMostOnce(t, id))

\* An item comes last.
AddedTo(s, t, item, id) ==
    /\ t \in Seq(RoomItem) /\ Len(t) = Len(s) + 1 /\ t[Len(s) + 1] = item
    /\ \A i \in DOMAIN t : i = Len(s) + 1 \/ (i \in DOMAIN s /\ t[i] = s[i])
    /\ id # item.id => Alike(s, t, id)
    /\ id = item.id /\ NamesIn(s, id) = {} => NamesIn(t, id) = {item.name} /\ AtMostOnce(t, id)

LEMMA ItemAppended ==
    ASSUME NEW s \in Seq(RoomItem), NEW item \in RoomItem, NEW id, NEW t, t = Append(s, item)
    PROVE  AddedTo(s, t, item, id)
<1> DEFINE n == Len(s)
<1>1. /\ t \in Seq(RoomItem) /\ Len(t) = n + 1 /\ t[n + 1] = item /\ n \in Nat
      /\ DOMAIN s = 1 .. n /\ DOMAIN t = 1 .. n + 1 /\ \A i \in 1 .. n : t[i] = s[i]
  BY AppendProperties
<1> HIDE DEF n
<1>2. /\ n + 1 \in DOMAIN t /\ \A i \in DOMAIN s : i \in DOMAIN t /\ t[i] = s[i] /\ i # n + 1
      /\ \A i \in DOMAIN t : i = n + 1 \/ (i \in DOMAIN s /\ t[i] = s[i])
  BY <1>1
<1>3. ASSUME id # item.id PROVE Alike(s, t, id)
  <2>1. Places(t, id) = Places(s, id) /\ \A i \in Places(s, id) : t[i] = s[i]
    BY <1>1, <1>2, <1>3 DEF Places
  <2> QED
    BY <2>1 DEF Alike, NamesIn, AtMostOnce
<1>4. ASSUME id = item.id, NamesIn(s, id) = {} PROVE NamesIn(t, id) = {item.name} /\ AtMostOnce(t, id)
  <2>1. Places(s, id) = {}
    BY <1>4 DEF NamesIn
  <2>2. Places(t, id) = {n + 1}
    BY <1>1, <1>2, <1>4, <2>1 DEF Places
  <2> QED
    BY <1>1, <2>2 DEF NamesIn, AtMostOnce
<1> QED
  BY <1>1, <1>2, <1>3, <1>4 DEF n, AddedTo

\* An item of rid is taken out.
DroppedFrom(s, t, rid, id) ==
    /\ t \in Seq(RoomItem) /\ \A j \in DOMAIN t : \E i \in DOMAIN s : t[j] = s[i]
    /\ id # rid => Alike(s, t, id)
    /\ id = rid /\ AtMostOnce(s, id) => NamesIn(t, id) = {} /\ AtMostOnce(t, id)

LEMMA ItemDropped ==
    ASSUME NEW s \in Seq(RoomItem), NEW k \in DOMAIN s, NEW id, NEW rid, s[k].id = rid, NEW t, t = RemoveAt(s, k)
    PROVE  DroppedFrom(s, t, rid, id)
<1> DEFINE n == Len(s)
           Old(j) == IF j < k THEN j ELSE j + 1
<1>1. k \in 1 .. n /\ n \in Nat /\ DOMAIN s = 1 .. n
  OBVIOUS
<1>2. /\ t \in Seq(RoomItem) /\ Len(t) = n - 1 /\ DOMAIN t = 1 .. n - 1
      /\ \A j \in 1 .. n - 1 : t[j] = IF j < k THEN s[j] ELSE s[j + 1]
  <2>1. /\ t \in Seq(RoomItem) /\ Len(t) = n - 1
        /\ \A j \in 1 .. n - 1 : t[j] = IF j < k THEN s[j] ELSE s[j + 1]
    <3>1. k \in 1 .. Len(s)
      BY <1>1
    <3> QED
      BY <3>1, RemoveOne
  <2>2. DOMAIN t = 1 .. n - 1
    BY <2>1
  <2> QED
    BY <2>1, <2>2
<1> HIDE DEF n
<1>3. ASSUME NEW j \in DOMAIN t PROVE Old(j) \in DOMAIN s /\ t[j] = s[Old(j)] /\ Old(j) # k
  <2>1. CASE j < k
    BY <1>1, <1>2, <2>1
  <2>2. CASE ~(j < k)
    BY <1>1, <1>2, <2>2
  <2> QED
    BY <2>1, <2>2
<1>4. \A i, j \in DOMAIN t : Old(i) = Old(j) => i = j
  BY <1>1, <1>2
<1>5. ASSUME NEW i \in DOMAIN s, i # k PROVE \E j \in DOMAIN t : Old(j) = i
  <2> DEFINE j == IF i < k THEN i ELSE i - 1
  <2>1. j \in DOMAIN t /\ Old(j) = i
    BY <1>1, <1>2, <1>5
  <2> QED
    BY <2>1
<1> HIDE DEF Old
<1>6. ASSUME id # rid PROVE Alike(s, t, id)
  <2>1. ASSUME NEW n1 \in NamesIn(t, id) PROVE n1 \in NamesIn(s, id)
    <3>1. PICK j \in DOMAIN t : t[j].id = id /\ n1 = t[j].name
      BY <2>1 DEF NamesIn, Places
    <3> QED
      BY <1>3, <3>1 DEF NamesIn, Places
  <2>2. ASSUME NEW n1 \in NamesIn(s, id) PROVE n1 \in NamesIn(t, id)
    <3>1. PICK i \in DOMAIN s : s[i].id = id /\ n1 = s[i].name
      BY <2>2 DEF NamesIn, Places
    <3>2. PICK j \in DOMAIN t : Old(j) = i
      BY <1>5, <1>6, <3>1
    <3> QED
      BY <1>3, <3>1, <3>2 DEF NamesIn, Places
  <2>3. ASSUME AtMostOnce(s, id) PROVE AtMostOnce(t, id)
    BY <1>3, <1>4, <2>3 DEF AtMostOnce, Places
  <2> QED
    BY <2>1, <2>2, <2>3 DEF Alike
<1>7. ASSUME id = rid, AtMostOnce(s, id) PROVE NamesIn(t, id) = {} /\ AtMostOnce(t, id)
  <2>1. Places(t, id) = {}
    BY <1>3, <1>7 DEF AtMostOnce, Places
  <2> QED
    BY <2>1 DEF NamesIn, AtMostOnce
<1> QED
  BY <1>2, <1>3, <1>6, <1>7 DEF DroppedFrom

\* The rooms stay, of rid only the name changes.
NamedIn(s, t, rid, name, id) ==
    /\ t \in Seq(RoomItem) /\ Len(t) = Len(s) /\ DOMAIN t = DOMAIN s
    /\ \A i \in DOMAIN s : t[i].id = s[i].id
    /\ id # rid => Alike(s, t, id)
    /\ id = rid /\ AtMostOnce(s, id) =>
          NamesIn(t, id) = (IF NamesIn(s, id) = {} THEN {} ELSE {name}) /\ AtMostOnce(t, id)

LEMMA ItemNamed ==
    ASSUME NEW s \in Seq(RoomItem), NEW k \in DOMAIN s, NEW name \in RoomText, NEW id,
           NEW t, t = [s EXCEPT ![k].name = name], NEW rid, s[k].id = rid
    PROVE  NamedIn(s, t, rid, name, id)
<1>1. s[k] \in RoomItem
  OBVIOUS
<1> DEFINE item == [s[k] EXCEPT !.name = name]
<1>2. item \in RoomItem /\ item.id = s[k].id /\ item.name = name
  BY <1>1 DEF RoomItem
<1>3. t = [s EXCEPT ![k] = item]
  OBVIOUS
<1> HIDE DEF item
<1>4. /\ t \in Seq(RoomItem) /\ Len(t) = Len(s) /\ DOMAIN t = DOMAIN s
      /\ \A i \in DOMAIN s : t[i] = IF i = k THEN item ELSE s[i]
  BY <1>2, <1>3
<1>5. \A i \in DOMAIN s : t[i].id = s[i].id
  BY <1>2, <1>4
<1>6. Places(t, id) = Places(s, id)
  BY <1>4, <1>5 DEF Places
<1>7. ASSUME id # rid PROVE Alike(s, t, id)
  <2>1. \A i \in Places(s, id) : t[i] = s[i]
    BY <1>4, <1>7 DEF Places
  <2> QED
    BY <1>6, <2>1 DEF Alike, NamesIn, AtMostOnce
<1>8. ASSUME id = rid, AtMostOnce(s, id)
      PROVE  NamesIn(t, id) = (IF NamesIn(s, id) = {} THEN {} ELSE {name}) /\ AtMostOnce(t, id)
  <2>1. k \in Places(s, id) /\ \A i \in Places(s, id) : i = k
    BY <1>8 DEF AtMostOnce, Places
  <2>2. t[k].name = name
    BY <1>2, <1>4
  <2>3. Places(s, id) = {k}
    BY <2>1
  <2>4. Places(t, id) = {k}
    BY <1>6, <2>3
  <2>5. NamesIn(t, id) = {t[k].name}
    BY <2>4 DEF NamesIn
  <2>6. NamesIn(s, id) # {}
    BY <2>3 DEF NamesIn
  <2> QED
    BY <2>2, <2>4, <2>5, <2>6 DEF AtMostOnce
<1> QED
  BY <1>4, <1>5, <1>7, <1>8 DEF NamedIn

-----------------------------------------------------------------------------
(***************************************************************************)
(* The two lists of a panel.                                               *)
(***************************************************************************)

\* A set of numbers that is not empty has a least one.
LEMMA LeastNumber ==
    ASSUME NEW I \in SUBSET Nat, I # {}
    PROVE  \E x \in I : \A y \in I : x <= y
<1> DEFINE less == OpToRel(<, Nat)
<1>1. IsWellFoundedOn(less, Nat)
  BY NatLessThanWellFounded, Zenon
<1>2. ASSUME NEW y \in Nat, NEW x \in Nat, y < x
      PROVE  <<y, x>> \in less
  <2>1. <<y, x>> \in Nat \X Nat /\ <<y, x>>[1] = y /\ <<y, x>>[2] = x
    OBVIOUS
  <2> QED
    BY <1>2, <2>1 DEF OpToRel
<1> HIDE DEF less
<1>3. PICK x \in I : \A y \in I : <<y, x>> \notin less
  BY <1>1, WFMin
<1>4. ASSUME NEW y \in I PROVE x <= y
  <2>1. x \in Nat /\ y \in Nat
    OBVIOUS
  <2>2. CASE y < x
    BY <1>2, <1>3, <2>1, <2>2
  <2> QED
    BY <2>1, <2>2
<1> QED
  BY <1>4

LEMMA FirstIsOne ==
    ASSUME NEW s \in Seq(RoomItem), NEW id, Places(s, id) # {}
    PROVE  First(Places(s, id)) \in Places(s, id)
<1>1. Places(s, id) \in SUBSET Nat
  BY DEF Places
<1>2. \E i \in Places(s, id) : \A j \in Places(s, id) : i <= j
  BY <1>1, LeastNumber
<1> QED
  BY <1>2 DEF First

LEMMA NoNames ==
    ASSUME NEW s, NEW id
    PROVE  NamesIn(s, id) = {} <=> Places(s, id) = {}
BY DEF NamesIn

LEMMA PanelParts ==
    ASSUME NEW p, PanelSound(p)
    PROVE  /\ p = [page |-> p.page, me |-> p.me, tab |-> p.tab, header |-> p.header, list |-> p.list, selected |-> p.selected]
           /\ p.page \in {"auth", "rooms", "chat", "ended"} /\ p.me \in Nat /\ p.tab \in Tabs /\ p.header \in RoomItem
           /\ p.list = [mine |-> p.list.mine, public |-> p.list.public]
           /\ p.list.mine \in Seq(RoomItem) /\ p.list.public \in Seq(RoomItem)
           /\ p.selected = [mine |-> p.selected.mine, public |-> p.selected.public]
           /\ p.selected.mine \in 0 .. Len(p.list.mine) /\ p.selected.public \in 0 .. Len(p.list.public)
<1>1. /\ p = [page |-> p.page, me |-> p.me, tab |-> p.tab, header |-> p.header, list |-> p.list, selected |-> p.selected]
      /\ p.page \in {"auth", "rooms", "chat", "ended"} /\ p.me \in Nat /\ p.tab \in Tabs /\ p.header \in RoomItem
      /\ p.list \in [mine : Seq(RoomItem), public : Seq(RoomItem)] /\ p.selected \in [mine : Nat, public : Nat]
  BY DEF PanelSound, Panels
<1>2. /\ p.list = [mine |-> p.list.mine, public |-> p.list.public]
      /\ p.list.mine \in Seq(RoomItem) /\ p.list.public \in Seq(RoomItem)
  BY <1>1
<1>3. /\ p.selected = [mine |-> p.selected.mine, public |-> p.selected.public]
      /\ p.selected.mine \in Nat /\ p.selected.public \in Nat
  BY <1>1
<1>4. p.selected.mine \in 0 .. Len(p.list.mine) /\ p.selected.public \in 0 .. Len(p.list.public)
  BY <1>2, <1>3 DEF PanelSound
<1> QED
  BY <1>1, <1>2, <1>3, <1>4

PanelOf(page, me, tab, header, mine, public, i, j) ==
    [page |-> page, me |-> me, tab |-> tab, header |-> header,
     list |-> [mine |-> mine, public |-> public], selected |-> [mine |-> i, public |-> j]]

LEMMA PanelMade ==
    ASSUME NEW page \in {"auth", "rooms", "chat", "ended"}, NEW me \in Nat, NEW tab \in Tabs, NEW header \in RoomItem,
           NEW mine \in Seq(RoomItem), NEW public \in Seq(RoomItem), NEW i \in 0 .. Len(mine), NEW j \in 0 .. Len(public)
    PROVE  PanelSound(PanelOf(page, me, tab, header, mine, public, i, j))
<1> DEFINE p == PanelOf(page, me, tab, header, mine, public, i, j)
<1>1. [mine |-> mine, public |-> public] \in [mine : Seq(RoomItem), public : Seq(RoomItem)]
      /\ [mine |-> i, public |-> j] \in [mine : Nat, public : Nat]
  OBVIOUS
<1>2. p \in Panels
  BY <1>1 DEF Panels, PanelOf
<1>3. p.selected.mine = i /\ p.selected.public = j /\ p.list.mine = mine /\ p.list.public = public
  BY DEF PanelOf
<1> QED
  BY <1>2, <1>3 DEF PanelSound

\* Of a pair of lists: the same is said of the room.
SameRoom(lists, new, id) ==
    Calls(new, id) = Calls(lists, id) /\ (Single(lists, id) => Single(new, id))

LEMMA AlikeBoth ==
    ASSUME NEW lists, NEW new, NEW id, Alike(lists.mine, new.mine, id), Alike(lists.public, new.public, id)
    PROVE  SameRoom(lists, new, id)
BY DEF Alike, SameRoom, Calls, Single

LEMMA AlikeSelf == ASSUME NEW s, NEW id PROVE Alike(s, s, id)
BY DEF Alike

-----------------------------------------------------------------------------
\* Renaming: in one list, in both.
NamedFirst(s, id, name) ==
    IF Places(s, id) = {} THEN s ELSE [s EXCEPT ![First(Places(s, id))].name = name]

LEMMA FirstNamed ==
    ASSUME NEW s \in Seq(RoomItem), NEW rid, NEW name \in RoomText, NEW id, NEW t, t = NamedFirst(s, rid, name)
    PROVE  NamedIn(s, t, rid, name, id)
<1>1. CASE Places(s, rid) = {}
  <2>1. t = s
    BY <1>1 DEF NamedFirst
  <2> QED
    BY <1>1, <2>1, AlikeSelf, NoNames DEF NamedIn
<1>2. CASE Places(s, rid) # {}
  <2>1. PICK k : k = First(Places(s, rid))
    OBVIOUS
  <2>2. k \in Places(s, rid)
    BY <1>2, <2>1, FirstIsOne
  <2>3. k \in DOMAIN s /\ s[k].id = rid
    BY <2>2 DEF Places
  <2>4. t = [s EXCEPT ![k].name = name]
    BY <1>2, <2>1 DEF NamedFirst
  <2> QED
    BY <2>3, <2>4, ItemNamed
<1> QED
  BY <1>1, <1>2

SameIds(s, t) == DOMAIN t = DOMAIN s /\ \A i \in DOMAIN s : t[i].id = s[i].id

\* The room has the new name where it is listed, and nothing else has changed.
RoomNamed(p, r, rid, name, id) ==
    /\ PanelSound(r) /\ r.page = p.page /\ r.me = p.me /\ r.tab = p.tab /\ r.header = p.header /\ r.selected = p.selected
    /\ SameIds(p.list.mine, r.list.mine) /\ SameIds(p.list.public, r.list.public)
    /\ id # rid => SameRoom(p.list, r.list, id)
    /\ id = rid /\ Single(p.list, id) =>
          Single(r.list, id) /\ Calls(r.list, id) = (IF Calls(p.list, id) = {} THEN {} ELSE {name})

LEMMA RoomRenamedInLists ==
    ASSUME NEW p, PanelSound(p), NEW rid, NEW name \in RoomText, NEW id, NEW r, r = RenameRoom(p, rid, name)
    PROVE  RoomNamed(p, r, rid, name, id)
<1> DEFINE mine   == NamedFirst(p.list.mine, rid, name)
           public == NamedFirst(p.list.public, rid, name)
<1>0. /\ p = [page |-> p.page, me |-> p.me, tab |-> p.tab, header |-> p.header, list |-> p.list, selected |-> p.selected]
      /\ p.page \in {"auth", "rooms", "chat", "ended"} /\ p.me \in Nat /\ p.tab \in Tabs /\ p.header \in RoomItem
      /\ p.list = [mine |-> p.list.mine, public |-> p.list.public]
      /\ p.list.mine \in Seq(RoomItem) /\ p.list.public \in Seq(RoomItem)
      /\ p.selected = [mine |-> p.selected.mine, public |-> p.selected.public]
      /\ p.selected.mine \in 0 .. Len(p.list.mine) /\ p.selected.public \in 0 .. Len(p.list.public)
  BY PanelParts
<1>1. r = [p EXCEPT !.list = [tab \in DOMAIN p.list |-> NamedFirst(p.list[tab], rid, name)]]
  BY DEF RenameRoom, NamedFirst, Indices, Places
<1>2. DOMAIN p.list = Tabs
  BY <1>0 DEF Tabs
<1>3. [tab \in Tabs |-> NamedFirst(p.list[tab], rid, name)] = [mine |-> mine, public |-> public]
  <2> HIDE DEF NamedFirst
  <2> QED
    BY DEF Tabs
<1>4. NamedIn(p.list.mine, mine, rid, name, id) /\ NamedIn(p.list.public, public, rid, name, id)
  BY <1>0, FirstNamed
<1> HIDE DEF mine, public
<1>6. r = PanelOf(p.page, p.me, p.tab, p.header, mine, public, p.selected.mine, p.selected.public)
  BY <1>0, <1>1, <1>2, <1>3 DEF PanelOf
<1>7. PanelSound(r)
  <2>1. /\ mine \in Seq(RoomItem) /\ public \in Seq(RoomItem)
        /\ p.selected.mine \in 0 .. Len(mine) /\ p.selected.public \in 0 .. Len(public)
    BY <1>0, <1>4 DEF NamedIn
  <2> QED
    BY <1>0, <1>6, <2>1, PanelMade
<1>8. r.page = p.page /\ r.me = p.me /\ r.tab = p.tab /\ r.header = p.header /\ r.selected = p.selected
      /\ r.list.mine = mine /\ r.list.public = public
  BY <1>0, <1>6 DEF PanelOf
<1>9. ASSUME id # rid PROVE SameRoom(p.list, r.list, id)
  BY <1>4, <1>8, <1>9, AlikeBoth DEF NamedIn
<1>10. ASSUME id = rid, Single(p.list, id)
       PROVE  Single(r.list, id) /\ Calls(r.list, id) = (IF Calls(p.list, id) = {} THEN {} ELSE {name})
  BY <1>4, <1>8, <1>10 DEF Single, Calls, NamedIn
<1>11. SameIds(p.list.mine, r.list.mine) /\ SameIds(p.list.public, r.list.public)
  BY <1>4, <1>8 DEF NamedIn, SameIds
<1> QED
  BY <1>7, <1>8, <1>9, <1>10, <1>11 DEF RoomNamed

SameView(p, r) == r.page = p.page /\ r.me = p.me /\ r.header = p.header
SelectionKept(p, r) == HasSelected(r) => HasSelected(p) /\ GetSelectedRoom(r).id = GetSelectedRoom(p).id
MineFrom(p, r) == \A j \in DOMAIN r.list.mine : \E i \in DOMAIN p.list.mine : r.list.mine[j].id = p.list.mine[i].id

RoomGone(p, r, rid, id) ==
    /\ PanelSound(r) /\ SameView(p, r) /\ SelectionKept(p, r) /\ MineFrom(p, r)
    /\ id # rid => SameRoom(p.list, r.list, id)
    /\ id = rid /\ Single(p.list, id) => Single(r.list, id) /\ Calls(r.list, id) = {}

\* The index of the selected item, after the k-th of n was taken out.
Shifted(k, i) == IF i = k THEN 0 ELSE IF i > k THEN i - 1 ELSE i

LEMMA ShiftedIs ==
    ASSUME NEW s \in Seq(RoomItem), NEW k \in DOMAIN s, NEW i \in 0 .. Len(s), NEW t, t = RemoveAt(s, k)
    PROVE  /\ Shifted(k, i) \in 0 .. Len(t)
           /\ Shifted(k, i) # 0 => i # 0 /\ t[Shifted(k, i)] = s[i]
<1>1. k \in 1 .. Len(s) /\ Len(s) \in Nat
  OBVIOUS
<1>2. t \in Seq(RoomItem) /\ Len(t) = Len(s) - 1 /\ \A j \in 1 .. Len(s) - 1 : t[j] = IF j < k THEN s[j] ELSE s[j + 1]
  BY <1>1, RemoveOne
<1>3. Shifted(k, i) \in 0 .. Len(t)
  BY <1>1, <1>2 DEF Shifted
<1>4. CASE i < k
  BY <1>1, <1>2, <1>4 DEF Shifted
<1>5. CASE i = k
  BY <1>1, <1>5 DEF Shifted
<1>6. CASE i > k
  <2>1. Shifted(k, i) = i - 1 /\ i - 1 \in 1 .. Len(s) - 1 /\ ~(i - 1 < k) /\ (i - 1) + 1 = i
    BY <1>1, <1>6 DEF Shifted
  <2> QED
    BY <1>1, <1>2, <2>1
<1> QED
  BY <1>1, <1>3, <1>4, <1>5, <1>6

LEMMA DeletedMine ==
    ASSUME NEW p, PanelSound(p), NEW i \in DOMAIN p.list.mine, NEW rid, p.list.mine[i].id = rid, NEW id,
           NEW r, r = Delete(p, "mine", i)
    PROVE  RoomGone(p, r, rid, id)
<1> DEFINE mine == RemoveAt(p.list.mine, i)
           at   == Shifted(i, p.selected.mine)
<1>0. /\ p = [page |-> p.page, me |-> p.me, tab |-> p.tab, header |-> p.header, list |-> p.list, selected |-> p.selected]
      /\ p.page \in {"auth", "rooms", "chat", "ended"} /\ p.me \in Nat /\ p.tab \in Tabs /\ p.header \in RoomItem
      /\ p.list = [mine |-> p.list.mine, public |-> p.list.public]
      /\ p.list.mine \in Seq(RoomItem) /\ p.list.public \in Seq(RoomItem)
      /\ p.selected = [mine |-> p.selected.mine, public |-> p.selected.public]
      /\ p.selected.mine \in 0 .. Len(p.list.mine) /\ p.selected.public \in 0 .. Len(p.list.public)
  BY PanelParts
<1>1. DroppedFrom(p.list.mine, mine, rid, id)
  BY <1>0, ItemDropped
<1>2. at \in 0 .. Len(mine) /\ (at # 0 => p.selected.mine # 0 /\ mine[at] = p.list.mine[p.selected.mine])
  BY <1>0, ShiftedIs
<1>3. r = PanelOf(p.page, p.me, p.tab, p.header, mine, p.list.public, at, p.selected.public)
  <2>1. r = [p EXCEPT !.list = [p.list EXCEPT !.mine = mine], !.selected = [p.selected EXCEPT !.mine = at]]
    BY DEF Delete, Shifted
  <2> HIDE DEF mine, at
  <2>2. [p.list EXCEPT !.mine = mine] = [mine |-> mine, public |-> p.list.public]
    BY <1>0
  <2>3. [p.selected EXCEPT !.mine = at] = [mine |-> at, public |-> p.selected.public]
    BY <1>0
  <2> QED
    BY <1>0, <2>1, <2>2, <2>3 DEF PanelOf
<1> HIDE DEF mine, at
<1>4. PanelSound(r)
  BY <1>0, <1>1, <1>2, <1>3, PanelMade DEF DroppedFrom
<1>5. /\ r.page = p.page /\ r.me = p.me /\ r.tab = p.tab /\ r.header = p.header
      /\ r.list.mine = mine /\ r.list.public = p.list.public
      /\ r.selected.mine = at /\ r.selected.public = p.selected.public
  BY <1>3 DEF PanelOf
<1>6. SelectionKept(p, r)
  <2>1. CASE p.tab = "mine"
    BY <1>2, <1>5, <2>1 DEF SelectionKept, HasSelected, GetSelectedRoom
  <2>2. CASE p.tab = "public"
    BY <1>5, <2>2 DEF SelectionKept, HasSelected, GetSelectedRoom
  <2> QED
    BY <1>0, <2>1, <2>2 DEF Tabs
<1>7. MineFrom(p, r)
  BY <1>1, <1>5 DEF MineFrom, DroppedFrom
<1>8. ASSUME id # rid PROVE SameRoom(p.list, r.list, id)
  BY <1>1, <1>5, <1>8, AlikeBoth, AlikeSelf DEF DroppedFrom
<1>9. ASSUME id = rid, Single(p.list, id) PROVE Single(r.list, id) /\ Calls(r.list, id) = {}
  <2>1. NamesIn(mine, id) = {} /\ AtMostOnce(mine, id)
    BY <1>1, <1>9 DEF Single, DroppedFrom
  <2>2. i \in Places(p.list.mine, id)
    BY <1>9 DEF Places
  <2>3. NamesIn(p.list.public, id) = {}
    BY <1>9, <2>2, NoNames DEF Single
  <2> QED
    BY <1>5, <1>9, <2>1, <2>3 DEF Single, Calls
<1> QED
  BY <1>4, <1>5, <1>6, <1>7, <1>8, <1>9 DEF RoomGone, SameView

LEMMA DeletedPublic ==
    ASSUME NEW p, PanelSound(p), NEW i \in DOMAIN p.list.public, NEW rid, p.list.public[i].id = rid, NEW id,
           NEW r, r = Delete(p, "public", i)
    PROVE  RoomGone(p, r, rid, id)
<1> DEFINE public == RemoveAt(p.list.public, i)
           at     == Shifted(i, p.selected.public)
<1>0. /\ p = [page |-> p.page, me |-> p.me, tab |-> p.tab, header |-> p.header, list |-> p.list, selected |-> p.selected]
      /\ p.page \in {"auth", "rooms", "chat", "ended"} /\ p.me \in Nat /\ p.tab \in Tabs /\ p.header \in RoomItem
      /\ p.list = [mine |-> p.list.mine, public |-> p.list.public]
      /\ p.list.mine \in Seq(RoomItem) /\ p.list.public \in Seq(RoomItem)
      /\ p.selected = [mine |-> p.selected.mine, public |-> p.selected.public]
      /\ p.selected.mine \in 0 .. Len(p.list.mine) /\ p.selected.public \in 0 .. Len(p.list.public)
  BY PanelParts
<1>1. DroppedFrom(p.list.public, public, rid, id)
  BY <1>0, ItemDropped
<1>2. at \in 0 .. Len(public) /\ (at # 0 => p.selected.public # 0 /\ public[at] = p.list.public[p.selected.public])
  BY <1>0, ShiftedIs
<1>3. r = PanelOf(p.page, p.me, p.tab, p.header, p.list.mine, public, p.selected.mine, at)
  <2>1. r = [p EXCEPT !.list = [p.list EXCEPT !.public = public], !.selected = [p.selected EXCEPT !.public = at]]
    BY DEF Delete, Shifted
  <2> HIDE DEF public, at
  <2>2. [p.list EXCEPT !.public = public] = [mine |-> p.list.mine, public |-> public]
    BY <1>0
  <2>3. [p.selected EXCEPT !.public = at] = [mine |-> p.selected.mine, public |-> at]
    BY <1>0
  <2> QED
    BY <1>0, <2>1, <2>2, <2>3 DEF PanelOf
<1> HIDE DEF public, at
<1>4. PanelSound(r)
  BY <1>0, <1>1, <1>2, <1>3, PanelMade DEF DroppedFrom
<1>5. /\ r.page = p.page /\ r.me = p.me /\ r.tab = p.tab /\ r.header = p.header
      /\ r.list.mine = p.list.mine /\ r.list.public = public
      /\ r.selected.mine = p.selected.mine /\ r.selected.public = at
  BY <1>3 DEF PanelOf
<1>6. SelectionKept(p, r)
  <2>1. CASE p.tab = "mine"
    BY <1>5, <2>1 DEF SelectionKept, HasSelected, GetSelectedRoom
  <2>2. CASE p.tab = "public"
    BY <1>2, <1>5, <2>2 DEF SelectionKept, HasSelected, GetSelectedRoom
  <2> QED
    BY <1>0, <2>1, <2>2 DEF Tabs
<1>7. MineFrom(p, r)
  BY <1>5 DEF MineFrom
<1>8. ASSUME id # rid PROVE SameRoom(p.list, r.list, id)
  BY <1>1, <1>5, <1>8, AlikeBoth, AlikeSelf DEF DroppedFrom
<1>9. ASSUME id = rid, Single(p.list, id) PROVE Single(r.list, id) /\ Calls(r.list, id) = {}
  <2>1. NamesIn(public, id) = {} /\ AtMostOnce(public, id)
    BY <1>1, <1>9 DEF Single, DroppedFrom
  <2>2. i \in Places(p.list.public, id)
    BY <1>9 DEF Places
  <2>3. NamesIn(p.list.mine, id) = {}
    BY <1>9, <2>2, NoNames DEF Single
  <2> QED
    BY <1>5, <1>9, <2>1, <2>3 DEF Single, Calls
<1> QED
  BY <1>4, <1>5, <1>6, <1>7, <1>8, <1>9 DEF RoomGone, SameView

-----------------------------------------------------------------------------
LEMMA RoomRemovedFromLists ==
    ASSUME NEW p, PanelSound(p), NEW rid, NEW id, NEW r, r = RemoveRoom(p, rid)
    PROVE  RoomGone(p, r, rid, id)
<1>0. p.list.mine \in Seq(RoomItem) /\ p.list.public \in Seq(RoomItem)
  BY PanelParts
<1>1. Indices(p, "mine", rid) = Places(p.list.mine, rid) /\ Indices(p, "public", rid) = Places(p.list.public, rid)
  BY DEF Indices, Places
<1>2. CASE Places(p.list.mine, rid) # {}
  <2>1. PICK i : i = First(Places(p.list.mine, rid))
    OBVIOUS
  <2>2. i \in DOMAIN p.list.mine /\ p.list.mine[i].id = rid
    BY <1>0, <1>2, <2>1, FirstIsOne DEF Places
  <2>3. r = Delete(p, "mine", i)
    BY <1>1, <1>2, <2>1 DEF RemoveRoom
  <2> QED
    BY <2>2, <2>3, DeletedMine
<1>3. CASE Places(p.list.mine, rid) = {} /\ Places(p.list.public, rid) # {}
  <2>1. PICK i : i = First(Places(p.list.public, rid))
    OBVIOUS
  <2>2. i \in DOMAIN p.list.public /\ p.list.public[i].id = rid
    BY <1>0, <1>3, <2>1, FirstIsOne DEF Places
  <2>3. r = Delete(p, "public", i)
    BY <1>1, <1>3, <2>1 DEF RemoveRoom
  <2> QED
    BY <2>2, <2>3, DeletedPublic
<1>4. CASE Places(p.list.mine, rid) = {} /\ Places(p.list.public, rid) = {}
  <2>1. r = p
    BY <1>1, <1>4 DEF RemoveRoom
  <2>2. Calls(p.list, rid) = {}
    BY <1>4, NoNames DEF Calls
  <2> QED
    BY <2>1, <2>2 DEF RoomGone, SameView, SelectionKept, MineFrom, SameRoom
<1> QED
  BY <1>2, <1>3, <1>4

\* An item that is not listed comes last in one of the lists.
RoomCame(p, r, item, id) ==
    /\ PanelSound(r) /\ SameView(p, r)
    /\ id # item.id => SameRoom(p.list, r.list, id)
    /\ id = item.id /\ Calls(p.list, id) = {} => Single(r.list, id) /\ Calls(r.list, id) = {item.name}

MineGained(p, r, item) ==
    \A j \in DOMAIN r.list.mine : r.list.mine[j] = item \/ \E i \in DOMAIN p.list.mine : r.list.mine[j] = p.list.mine[i]

LEMMA RoomAddedToMine ==
    ASSUME NEW p, PanelSound(p), NEW item \in RoomItem, NEW id, NEW own, own = TRUE, NEW r,
           r = AddRoom(p, item, own)
    PROVE  /\ RoomCame(p, r, item, id)
           /\ HasSelected(r) /\ GetSelectedRoom(r) = item /\ MineGained(p, r, item)
<1> DEFINE mine == Append(p.list.mine, item)
           n    == Len(p.list.mine) + 1
<1>0. /\ p = [page |-> p.page, me |-> p.me, tab |-> p.tab, header |-> p.header, list |-> p.list, selected |-> p.selected]
      /\ p.page \in {"auth", "rooms", "chat", "ended"} /\ p.me \in Nat /\ p.tab \in Tabs /\ p.header \in RoomItem
      /\ p.list = [mine |-> p.list.mine, public |-> p.list.public]
      /\ p.list.mine \in Seq(RoomItem) /\ p.list.public \in Seq(RoomItem)
      /\ p.selected = [mine |-> p.selected.mine, public |-> p.selected.public]
      /\ p.selected.mine \in 0 .. Len(p.list.mine) /\ p.selected.public \in 0 .. Len(p.list.public)
  BY PanelParts
<1>1. AddedTo(p.list.mine, mine, item, id)
  BY <1>0, ItemAppended
<1>2. n \in 0 .. Len(mine) /\ n # 0
  BY <1>0, <1>1 DEF AddedTo
<1>3. r = PanelOf(p.page, p.me, "mine", p.header, mine, p.list.public, n, p.selected.public)
  <2>1. r = [p EXCEPT !.list = [p.list EXCEPT !.mine = mine], !.tab = "mine", !.selected = [p.selected EXCEPT !.mine = n]]
    BY DEF AddRoom
  <2> HIDE DEF mine, n
  <2>2. [p.list EXCEPT !.mine = mine] = [mine |-> mine, public |-> p.list.public]
    BY <1>0
  <2>3. [p.selected EXCEPT !.mine = n] = [mine |-> n, public |-> p.selected.public]
    BY <1>0
  <2> QED
    BY <1>0, <2>1, <2>2, <2>3 DEF PanelOf
<1> HIDE DEF mine, n
<1>4. PanelSound(r)
  BY <1>0, <1>1, <1>2, <1>3, PanelMade DEF Tabs, AddedTo
<1>5. /\ r.page = p.page /\ r.me = p.me /\ r.tab = "mine" /\ r.header = p.header
      /\ r.list.mine = mine /\ r.list.public = p.list.public /\ r.selected.mine = n
  BY <1>3 DEF PanelOf
<1>6. HasSelected(r) /\ GetSelectedRoom(r) = item
  BY <1>1, <1>2, <1>5 DEF HasSelected, GetSelectedRoom, AddedTo, n
<1>7. ASSUME id # item.id PROVE SameRoom(p.list, r.list, id)
  BY <1>1, <1>5, <1>7, AlikeBoth, AlikeSelf DEF AddedTo
<1>8. ASSUME id = item.id, Calls(p.list, id) = {} PROVE Single(r.list, id) /\ Calls(r.list, id) = {item.name}
  <2>1. NamesIn(p.list.mine, id) = {} /\ NamesIn(p.list.public, id) = {}
    BY <1>8 DEF Calls
  <2>2. NamesIn(mine, id) = {item.name} /\ AtMostOnce(mine, id)
    BY <1>1, <1>8, <2>1 DEF AddedTo
  <2>3. AtMostOnce(p.list.public, id)
    BY <2>1, NoNames DEF AtMostOnce
  <2> QED
    BY <1>5, <2>1, <2>2, <2>3 DEF Single, Calls
<1>9. MineGained(p, r, item)
  BY <1>1, <1>5 DEF AddedTo, MineGained
<1> QED
  BY <1>4, <1>5, <1>6, <1>7, <1>8, <1>9 DEF RoomCame, SameView

LEMMA RoomAddedToPublic ==
    ASSUME NEW p, PanelSound(p), NEW item \in RoomItem, NEW id, NEW own, own = FALSE, NEW r,
           r = AddRoom(p, item, own)
    PROVE  RoomCame(p, r, item, id) /\ SelectionKept(p, r) /\ MineFrom(p, r)
<1> DEFINE public == Append(p.list.public, item)
<1>0. /\ p = [page |-> p.page, me |-> p.me, tab |-> p.tab, header |-> p.header, list |-> p.list, selected |-> p.selected]
      /\ p.page \in {"auth", "rooms", "chat", "ended"} /\ p.me \in Nat /\ p.tab \in Tabs /\ p.header \in RoomItem
      /\ p.list = [mine |-> p.list.mine, public |-> p.list.public]
      /\ p.list.mine \in Seq(RoomItem) /\ p.list.public \in Seq(RoomItem)
      /\ p.selected = [mine |-> p.selected.mine, public |-> p.selected.public]
      /\ p.selected.mine \in 0 .. Len(p.list.mine) /\ p.selected.public \in 0 .. Len(p.list.public)
  BY PanelParts
<1>1. AddedTo(p.list.public, public, item, id)
  BY <1>0, ItemAppended
<1>2. /\ p.selected.public \in 0 .. Len(public)
      /\ p.selected.public # 0 => public[p.selected.public] = p.list.public[p.selected.public]
  <2>1. p.list.public \in Seq(RoomItem) /\ Len(p.list.public) \in Nat
    BY <1>0
  <2> QED
    BY <1>0, <2>1
<1>3. r = PanelOf(p.page, p.me, p.tab, p.header, p.list.mine, public, p.selected.mine, p.selected.public)
  <2>1. r = [p EXCEPT !.list = [p.list EXCEPT !.public = public]]
    BY DEF AddRoom
  <2> HIDE DEF public
  <2>2. [p.list EXCEPT !.public = public] = [mine |-> p.list.mine, public |-> public]
    BY <1>0
  <2> QED
    BY <1>0, <2>1, <2>2 DEF PanelOf
<1> HIDE DEF public
<1>4. PanelSound(r)
  BY <1>0, <1>1, <1>2, <1>3, PanelMade DEF AddedTo
<1>5. /\ r.page = p.page /\ r.me = p.me /\ r.tab = p.tab /\ r.header = p.header
      /\ r.list.mine = p.list.mine /\ r.list.public = public
      /\ r.selected.mine = p.selected.mine /\ r.selected.public = p.selected.public
  BY <1>3 DEF PanelOf
<1>6. SelectionKept(p, r)
  <2>1. CASE p.tab = "mine"
    BY <1>5, <2>1 DEF SelectionKept, HasSelected, GetSelectedRoom
  <2>2. CASE p.tab = "public"
    BY <1>2, <1>5, <2>2 DEF SelectionKept, HasSelected, GetSelectedRoom
  <2> QED
    BY <1>0, <2>1, <2>2 DEF Tabs
<1>7. ASSUME id # item.id PROVE SameRoom(p.list, r.list, id)
  BY <1>1, <1>5, <1>7, AlikeBoth, AlikeSelf DEF AddedTo
<1>8. ASSUME id = item.id, Calls(p.list, id) = {} PROVE Single(r.list, id) /\ Calls(r.list, id) = {item.name}
  <2>1. NamesIn(p.list.mine, id) = {} /\ NamesIn(p.list.public, id) = {}
    BY <1>8 DEF Calls
  <2>2. NamesIn(public, id) = {item.name} /\ AtMostOnce(public, id)
    BY <1>1, <1>8, <2>1 DEF AddedTo
  <2>3. AtMostOnce(p.list.mine, id)
    BY <2>1, NoNames DEF AtMostOnce
  <2> QED
    BY <1>5, <2>1, <2>2, <2>3 DEF Single, Calls
<1> QED
  BY <1>4, <1>5, <1>6, <1>7, <1>8 DEF RoomCame, SameView, MineFrom

LEMMA OneName ==
    ASSUME NEW lists, NEW id, Single(lists, id), NEW n \in Calls(lists, id)
    PROVE  Calls(lists, id) = {n}
<1>1. ASSUME NEW s, AtMostOnce(s, id), NEW m \in NamesIn(s, id) PROVE NamesIn(s, id) = {m}
  <2>1. PICK i \in Places(s, id) : m = s[i].name
    BY <1>1 DEF NamesIn
  <2>2. \A j \in Places(s, id) : j = i
    BY <1>1, <2>1 DEF AtMostOnce
  <2> QED
    BY <2>1, <2>2 DEF NamesIn
<1> QED
  BY <1>1 DEF Single, Calls

LEMMA SelectedIsListed ==
    ASSUME NEW p, PanelSound(p), HasSelected(p), NEW item, item = GetSelectedRoom(p)
    PROVE  /\ item \in RoomItem /\ item.name \in Calls(p.list, item.id)
           /\ p.tab = "mine" => item.name \in NamesIn(p.list.mine, item.id)
           /\ p.tab = "mine" => \E i \in DOMAIN p.list.mine : p.list.mine[i] = item
<1>0. /\ p.tab \in Tabs /\ p.list.mine \in Seq(RoomItem) /\ p.list.public \in Seq(RoomItem)
      /\ p.selected.mine \in 0 .. Len(p.list.mine) /\ p.selected.public \in 0 .. Len(p.list.public)
  BY PanelParts
<1>1. CASE p.tab = "mine"
  <2>1. PICK i : i = p.selected.mine
    OBVIOUS
  <2>2. i \in DOMAIN p.list.mine /\ item = p.list.mine[i]
    BY <1>0, <1>1, <2>1 DEF HasSelected, GetSelectedRoom
  <2>3. item \in RoomItem /\ i \in Places(p.list.mine, item.id)
    BY <1>0, <2>2 DEF Places
  <2> QED
    BY <2>2, <2>3 DEF NamesIn, Calls
<1>2. CASE p.tab = "public"
  <2>1. PICK i : i = p.selected.public
    OBVIOUS
  <2>2. i \in DOMAIN p.list.public /\ item = p.list.public[i]
    BY <1>0, <1>2, <2>1 DEF HasSelected, GetSelectedRoom
  <2>3. item \in RoomItem /\ i \in Places(p.list.public, item.id)
    BY <1>0, <2>2 DEF Places
  <2> QED
    BY <1>2, <2>2, <2>3 DEF NamesIn, Calls
<1> QED
  BY <1>0, <1>1, <1>2 DEF Tabs

\* Becoming a member moves the selected room, and says the same of every room.
LEMMA MemberMoves ==
    ASSUME NEW p, PanelSound(p), NEW id, NEW r, r = OnBecameMember(p)
    PROVE  /\ PanelSound(r) /\ SameView(p, r)
           /\ Single(p.list, id) => Single(r.list, id) /\ Calls(r.list, id) = Calls(p.list, id)
           /\ \A j \in DOMAIN r.list.mine :
                 \/ HasSelected(p) /\ r.list.mine[j].id = GetSelectedRoom(p).id
                 \/ \E i \in DOMAIN p.list.mine : r.list.mine[j].id = p.list.mine[i].id
<1> DEFINE item  == GetSelectedRoom(p)
           found == Places(p.list.public, item.id)
<1>1. CASE r = p
  BY <1>1 DEF SameView
<1>2. CASE HasSelected(p) /\ found # {}
  <2>0. p.list.public \in Seq(RoomItem)
    BY PanelParts
  <2>1. item \in RoomItem /\ item.name \in Calls(p.list, item.id)
        /\ (p.tab = "mine" => item.name \in NamesIn(p.list.mine, item.id))
    BY <1>2, SelectedIsListed
  <2>2. PICK rid, k, own : rid = item.id /\ k = First(found) /\ own = TRUE
    OBVIOUS
  <2>3. k \in DOMAIN p.list.public /\ p.list.public[k].id = rid
    BY <1>2, <2>0, <2>2, FirstIsOne DEF Places
  <2>4. PICK q : q = Delete(p, "public", k)
    OBVIOUS
  <2>5. RoomGone(p, q, rid, id)
    BY <2>3, <2>4, DeletedPublic
  <2>6. r = AddRoom(q, item, own)
    BY <1>2, <2>2, <2>4 DEF OnBecameMember, Indices, Places
  <2>7. PICK it : it = item
    OBVIOUS
  <2>8. it \in RoomItem /\ r = AddRoom(q, it, own) /\ PanelSound(q)
    BY <2>1, <2>5, <2>6, <2>7 DEF RoomGone
  <2>9. RoomCame(q, r, it, id) /\ MineGained(q, r, it)
    BY <2>2, <2>8, RoomAddedToMine
  <2>10. PanelSound(r) /\ SameView(p, r)
    BY <2>5, <2>9 DEF RoomGone, RoomCame, SameView
  <2>11. ASSUME Single(p.list, id) PROVE Single(r.list, id) /\ Calls(r.list, id) = Calls(p.list, id)
    <3>1. CASE id # rid
      BY <2>2, <2>5, <2>7, <2>9, <2>11, <3>1 DEF RoomGone, RoomCame, SameRoom
    <3>2. CASE id = rid
      <4>1. Single(q.list, id) /\ Calls(q.list, id) = {}
        BY <2>5, <2>11, <3>2 DEF RoomGone
      <4>2. Single(r.list, id) /\ Calls(r.list, id) = {it.name}
        BY <2>2, <2>7, <2>9, <3>2, <4>1 DEF RoomCame
      <4>3. Calls(p.list, id) = {it.name}
        BY <2>1, <2>2, <2>7, <2>11, <3>2, OneName
      <4> QED
        BY <4>2, <4>3
    <3> QED
      BY <3>1, <3>2
  <2>12. ASSUME NEW j \in DOMAIN r.list.mine
         PROVE  \/ HasSelected(p) /\ r.list.mine[j].id = item.id
                \/ \E i \in DOMAIN p.list.mine : r.list.mine[j].id = p.list.mine[i].id
    <3>1. CASE r.list.mine[j] = it
      BY <1>2, <2>7, <3>1
    <3>2. CASE \E i \in DOMAIN q.list.mine : r.list.mine[j] = q.list.mine[i]
      BY <2>5, <3>2 DEF RoomGone, MineFrom
    <3> QED
      BY <2>9, <3>1, <3>2 DEF MineGained
  <2> QED
    BY <2>10, <2>11, <2>12
<1> QED
  BY <1>1, <1>2 DEF OnBecameMember, Indices, Places

\* The lists and what is selected in them stay.
SameLists(p, r) == r.list = p.list /\ r.selected = p.selected /\ r.tab = p.tab

TurnedTo(p, r, page, header) ==
    PanelSound(r) /\ SameLists(p, r) /\ r.page = page /\ r.header = header /\ r.me = p.me

LEMMA PanelTurned ==
    ASSUME NEW p, PanelSound(p), NEW page \in {"auth", "rooms", "chat", "ended"}, NEW header \in RoomItem
    PROVE  TurnedTo(p, [p EXCEPT !.page = page, !.header = header], page, header)
<1>0. /\ p = [page |-> p.page, me |-> p.me, tab |-> p.tab, header |-> p.header, list |-> p.list, selected |-> p.selected]
      /\ p.me \in Nat /\ p.tab \in Tabs
      /\ p.list = [mine |-> p.list.mine, public |-> p.list.public]
      /\ p.list.mine \in Seq(RoomItem) /\ p.list.public \in Seq(RoomItem)
      /\ p.selected = [mine |-> p.selected.mine, public |-> p.selected.public]
      /\ p.selected.mine \in 0 .. Len(p.list.mine) /\ p.selected.public \in 0 .. Len(p.list.public)
  BY PanelParts
<1>1. PICK r : r = [p EXCEPT !.page = page, !.header = header]
  OBVIOUS
<1>2. r = PanelOf(page, p.me, p.tab, header, p.list.mine, p.list.public, p.selected.mine, p.selected.public)
  BY <1>0, <1>1 DEF PanelOf
<1>3. PanelSound(PanelOf(page, p.me, p.tab, header, p.list.mine, p.list.public, p.selected.mine, p.selected.public))
  BY <1>0, PanelMade
<1>4. SameLists(p, r) /\ r.page = page /\ r.header = header /\ r.me = p.me
  BY <1>0, <1>2 DEF SameLists, PanelOf
<1> QED
  BY <1>1, <1>2, <1>3, <1>4 DEF TurnedTo

LEMMA RoomsShown ==
    ASSUME NEW p, PanelSound(p)
    PROVE  TurnedTo(p, ShowRooms(p), "rooms", p.header)
<1>1. p = [page |-> p.page, me |-> p.me, tab |-> p.tab, header |-> p.header, list |-> p.list, selected |-> p.selected]
      /\ p.header \in RoomItem
  BY PanelParts
<1>2. ShowRooms(p) = [p EXCEPT !.page = "rooms", !.header = p.header]
  BY <1>1 DEF ShowRooms
<1>3. PICK page : page = "rooms"
  OBVIOUS
<1>4. TurnedTo(p, [p EXCEPT !.page = page, !.header = p.header], page, p.header)
  BY <1>1, <1>3, PanelTurned, Zenon
<1> QED
  BY <1>2, <1>3, <1>4

LEMMA ChatShown ==
    ASSUME NEW p, PanelSound(p)
    PROVE  IF HasSelected(p) THEN TurnedTo(p, ShowChat(p), "chat", GetSelectedRoom(p))
           ELSE TurnedTo(p, ShowChat(p), "ended", p.header)
<1>1. p = [page |-> p.page, me |-> p.me, tab |-> p.tab, header |-> p.header, list |-> p.list, selected |-> p.selected]
      /\ p.header \in RoomItem
  BY PanelParts
<1>2. CASE HasSelected(p)
  <2>1. PICK item, page : item = GetSelectedRoom(p) /\ page = "chat"
    OBVIOUS
  <2>2. item \in RoomItem
    BY <1>2, <2>1, SelectedIsListed
  <2>3. ShowChat(p) = [p EXCEPT !.page = page, !.header = item]
    BY <1>2, <2>1 DEF ShowChat
  <2>4. TurnedTo(p, [p EXCEPT !.page = page, !.header = item], page, item)
    BY <2>1, <2>2, PanelTurned, Zenon
  <2> QED
    BY <1>2, <2>1, <2>3, <2>4
<1>3. CASE ~HasSelected(p)
  <2>1. PICK page : page = "ended"
    OBVIOUS
  <2>2. ShowChat(p) = [p EXCEPT !.page = page, !.header = p.header]
    BY <1>1, <1>3, <2>1 DEF ShowChat
  <2>3. TurnedTo(p, [p EXCEPT !.page = page, !.header = p.header], page, p.header)
    BY <1>1, <2>1, PanelTurned, Zenon
  <2> QED
    BY <1>3, <2>1, <2>2, <2>3
<1> QED
  BY <1>2, <1>3

HeaderFor(p, rid, name) ==
    IF p.page = "chat" /\ p.header.id = rid THEN Item(p.header.id, name) ELSE p.header

LEMMA HeaderNamed ==
    ASSUME NEW p, PanelSound(p), NEW rid, NEW name \in RoomText
    PROVE  TurnedTo(p, SetRoomName(p, rid, name), p.page, HeaderFor(p, rid, name))
<1>1. p = [page |-> p.page, me |-> p.me, tab |-> p.tab, header |-> p.header, list |-> p.list, selected |-> p.selected]
      /\ p.header \in RoomItem /\ p.page \in {"auth", "rooms", "chat", "ended"}
  BY PanelParts
<1>2. PICK item, page : item = HeaderFor(p, rid, name) /\ page = p.page
  OBVIOUS
<1>3. item \in RoomItem
  BY <1>1, <1>2 DEF HeaderFor, RoomItem, Item
<1>4. SetRoomName(p, rid, name) = [p EXCEPT !.page = page, !.header = item]
  <2>1. CASE p.page = "chat" /\ p.header.id = rid
    <3>1. [p.header EXCEPT !.name = name] = item
      BY <1>1, <1>2, <2>1 DEF HeaderFor, RoomItem, Item
    <3>2. SetRoomName(p, rid, name) = [p EXCEPT !.header = item]
      BY <2>1, <3>1 DEF SetRoomName
    <3> QED
      BY <1>1, <1>2, <3>2
  <2>2. CASE ~(p.page = "chat" /\ p.header.id = rid)
    BY <1>1, <1>2, <2>2 DEF SetRoomName, HeaderFor
  <2> QED
    BY <2>1, <2>2
<1>5. TurnedTo(p, [p EXCEPT !.page = page, !.header = item], page, item)
  BY <1>1, <1>2, <1>3, PanelTurned, Zenon
<1> QED
  BY <1>2, <1>4, <1>5

LEMMA PanelSelected ==
    ASSUME NEW p, PanelSound(p), NEW tab \in Tabs, NEW i, i \in DOMAIN p.list[tab], NEW r, r = Select(p, tab, i)
    PROVE  PanelSound(r) /\ SameView(p, r) /\ r.list = p.list /\ HasSelected(r) /\ GetSelectedRoom(r) = p.list[tab][i]
<1>0. /\ p = [page |-> p.page, me |-> p.me, tab |-> p.tab, header |-> p.header, list |-> p.list, selected |-> p.selected]
      /\ p.page \in {"auth", "rooms", "chat", "ended"} /\ p.me \in Nat /\ p.tab \in Tabs /\ p.header \in RoomItem
      /\ p.list = [mine |-> p.list.mine, public |-> p.list.public]
      /\ p.list.mine \in Seq(RoomItem) /\ p.list.public \in Seq(RoomItem)
      /\ p.selected = [mine |-> p.selected.mine, public |-> p.selected.public]
      /\ p.selected.mine \in 0 .. Len(p.list.mine) /\ p.selected.public \in 0 .. Len(p.list.public)
  BY PanelParts
<1>1. CASE tab = "mine"
  <2>1. i \in 0 .. Len(p.list.mine) /\ i # 0
    BY <1>0, <1>1
  <2>2. r = PanelOf(p.page, p.me, tab, p.header, p.list.mine, p.list.public, i, p.selected.public)
    BY <1>0, <1>1 DEF Select, PanelOf
  <2>3. PanelSound(r)
    BY <1>0, <2>1, <2>2, PanelMade
  <2> QED
    BY <1>0, <1>1, <2>1, <2>2, <2>3 DEF SameView, HasSelected, GetSelectedRoom, PanelOf
<1>2. CASE tab = "public"
  <2>1. i \in 0 .. Len(p.list.public) /\ i # 0
    BY <1>0, <1>2
  <2>2. r = PanelOf(p.page, p.me, tab, p.header, p.list.mine, p.list.public, p.selected.mine, i)
    BY <1>0, <1>2 DEF Select, PanelOf
  <2>3. PanelSound(r)
    BY <1>0, <2>1, <2>2, PanelMade
  <2> QED
    BY <1>0, <1>2, <2>1, <2>2, <2>3 DEF SameView, HasSelected, GetSelectedRoom, PanelOf
<1> QED
  BY <1>1, <1>2 DEF Tabs

LEMMA TabTurned ==
    ASSUME NEW p, PanelSound(p), NEW tab \in Tabs, NEW r, r = [p EXCEPT !.tab = tab]
    PROVE  PanelSound(r) /\ SameView(p, r) /\ r.list = p.list
<1>0. /\ p = [page |-> p.page, me |-> p.me, tab |-> p.tab, header |-> p.header, list |-> p.list, selected |-> p.selected]
      /\ p.page \in {"auth", "rooms", "chat", "ended"} /\ p.me \in Nat /\ p.tab \in Tabs /\ p.header \in RoomItem
      /\ p.list = [mine |-> p.list.mine, public |-> p.list.public]
      /\ p.list.mine \in Seq(RoomItem) /\ p.list.public \in Seq(RoomItem)
      /\ p.selected = [mine |-> p.selected.mine, public |-> p.selected.public]
      /\ p.selected.mine \in 0 .. Len(p.list.mine) /\ p.selected.public \in 0 .. Len(p.list.public)
  BY PanelParts
<1>1. r = PanelOf(p.page, p.me, tab, p.header, p.list.mine, p.list.public, p.selected.mine, p.selected.public)
  BY <1>0 DEF PanelOf
<1>2. PanelSound(PanelOf(p.page, p.me, tab, p.header, p.list.mine, p.list.public, p.selected.mine, p.selected.public))
  BY <1>0, PanelMade
<1>3. SameView(p, r) /\ r.list = p.list
  BY <1>0, <1>1 DEF SameView, PanelOf
<1> QED
  BY <1>1, <1>2, <1>3

LEMMA ListsTaken ==
    ASSUME NEW p, PanelSound(p), NEW me \in Nat, NEW mine \in Seq(RoomItem), NEW public \in Seq(RoomItem),
           NEW r, r = ShowRooms(UpdateRoomList([p EXCEPT !.me = me], mine, public))
    PROVE  /\ PanelSound(r) /\ r.page = "rooms" /\ r.me = me
           /\ r.list = [mine |-> mine, public |-> public] /\ ~HasSelected(r)
<1>0. /\ p = [page |-> p.page, me |-> p.me, tab |-> p.tab, header |-> p.header, list |-> p.list, selected |-> p.selected]
      /\ p.tab \in Tabs /\ p.header \in RoomItem
  BY PanelParts
<1>1. r = PanelOf("rooms", me, p.tab, p.header, mine, public, 0, 0)
  BY <1>0 DEF ShowRooms, UpdateRoomList, PanelOf
<1>2. 0 \in 0 .. Len(mine) /\ 0 \in 0 .. Len(public)
  OBVIOUS
<1>3. PanelSound(r)
  BY <1>0, <1>1, <1>2, PanelMade
<1>4. ~HasSelected(r)
  BY <1>0, <1>1 DEF HasSelected, Tabs, PanelOf
<1> QED
  BY <1>1, <1>3, <1>4 DEF PanelOf

LEMMA NewLobbyIsSound ==
    ASSUME NEW p, p = NewLobby(0)
    PROVE  PanelSound(p) /\ p.page = "auth" /\ p.me = 0
<1>1. Item(0, "") \in RoomItem /\ <<>> \in Seq(RoomItem) /\ 0 \in 0 .. Len(<<>>)
  BY DEF Item, RoomItem, RoomText
<1>2. p = PanelOf("auth", 0, "mine", Item(0, ""), <<>>, <<>>, 0, 0)
  BY Zenon DEF NewLobby, PanelOf
<1>3. PanelSound(p)
  BY <1>1, <1>2, PanelMade, Zenon DEF Tabs
<1>4. p.page = "auth" /\ p.me = 0
  BY Zenon DEF NewLobby
<1> QED
  BY <1>3, <1>4

-----------------------------------------------------------------------------
(***************************************************************************)
(* The notices behind the lists: what another one does to what is heard.   *)
(***************************************************************************)

\* A notice more, a notice less.
Grew(q, r, e) ==
    \E n \in Nat : /\ DOMAIN q = 1 .. n /\ DOMAIN r = 1 .. n + 1
                   /\ \A k \in 1 .. n : r[k] = q[k]
                   /\ r[n + 1] = e
Shrank(q, r) ==
    \E n \in Nat : /\ DOMAIN q = 1 .. n + 1 /\ DOMAIN r = 1 .. n
                   /\ \A k \in 1 .. n : r[k] = q[k + 1]

LEMMA AppendGrows ==
    ASSUME NEW q, IsSeq(q), NEW e
    PROVE  Grew(q, Append(q, e), e) /\ IsSeq(Append(q, e))
<1>1. PICK S : q \in Seq(S)
  BY DEF IsSeq
<1>2. PICK T : T = S \cup {e}
  OBVIOUS
<1>3. q \in Seq(T) /\ e \in T
  BY <1>1, <1>2
<1>4. /\ Append(q, e) \in Seq(T) /\ Len(Append(q, e)) = Len(q) + 1 /\ Len(q) \in Nat
      /\ \A k \in 1 .. Len(q) : Append(q, e)[k] = q[k]
      /\ Append(q, e)[Len(q) + 1] = e
  BY <1>3, AppendProperties
<1>5. DOMAIN Append(q, e) = 1 .. Len(q) + 1 /\ DOMAIN q = 1 .. Len(q)
  BY <1>3, <1>4
<1> QED
  BY <1>4, <1>5, Zenon DEF Grew, IsSeq

LEMMA TailShrinks ==
    ASSUME NEW q, IsSeq(q), q # <<>>
    PROVE  Shrank(q, Tail(q)) /\ IsSeq(Tail(q)) /\ Head(q) = q[1] /\ 1 \in DOMAIN q
<1>1. PICK S : q \in Seq(S)
  BY DEF IsSeq
<1>2. /\ Tail(q) \in Seq(S) /\ Len(Tail(q)) = Len(q) - 1 /\ Len(q) \in Nat /\ Len(q) # 0
      /\ \A k \in 1 .. Len(q) - 1 : Tail(q)[k] = q[k + 1]
      /\ Head(q) = q[1]
  BY <1>1
<1>3. PICK n \in Nat : Len(q) = n + 1
  <2>1. Len(q) - 1 \in Nat /\ Len(q) = (Len(q) - 1) + 1
    BY <1>2
  <2> QED
    BY <2>1, Zenon
<1>4. DOMAIN q = 1 .. n + 1 /\ DOMAIN Tail(q) = 1 .. n /\ \A k \in 1 .. n : Tail(q)[k] = q[k + 1]
  BY <1>1, <1>2, <1>3
<1>5. 1 \in DOMAIN q
  BY <1>4
<1>6. IsSeq(Tail(q))
  BY <1>2 DEF IsSeq
<1>7. Shrank(q, Tail(q))
  BY <1>4 DEF Shrank
<1> QED
  BY <1>2, <1>5, <1>6, <1>7

LEMMA EmptyIsSeq == IsSeq(<<>>)
BY DEF IsSeq

-----------------------------------------------------------------------------
\* The notices that were there come first.
Extends(q, r, e) ==
    /\ \A k \in DOMAIN q : k \in DOMAIN r /\ r[k] = q[k] /\ k \in Nat
    /\ \E m \in DOMAIN r : r[m] = e /\ m > 0 /\ \A k \in DOMAIN q : k < m
    /\ \A k \in DOMAIN r : (k \in DOMAIN q /\ r[k] = q[k]) \/ (r[k] = e /\ \A l \in DOMAIN r : l <= k)

LEMMA GrewExtends ==
    ASSUME NEW q, NEW r, NEW e, Grew(q, r, e)
    PROVE  Extends(q, r, e)
BY DEF Grew, Extends

LEMMA StillLater ==
    ASSUME NEW q, NEW r, NEW e, Extends(q, r, e), NEW k, NEW op, NEW id, Later(q, k, op, id)
    PROVE  Later(r, k, op, id)
BY DEF Extends, Later

LEMMA OthersHeard ==
    ASSUME NEW q, NEW r, NEW e, Grew(q, r, e), NEW lists, NEW id, ~About(e, id),
           NEW stage, NEW name, NEW quiet, Heard(lists, q, id, stage, name, quiet)
    PROVE  Heard(lists, r, id, stage, name, quiet)
<1>0. Extends(q, r, e)
  BY GrewExtends
<1>1. ASSUME NEW k \in DOMAIN r, About(r[k], id) PROVE k \in DOMAIN q /\ r[k] = q[k]
  BY <1>0, <1>1 DEF Extends
<1>2. ASSUME NEW k \in DOMAIN r, NEW op \in Tidings, Says(r[k], op, id) PROVE k \in DOMAIN q /\ r[k] = q[k]
  BY <1>1, <1>2 DEF About, Says
<1>3. "NewRoomCreated" \in Tidings /\ "RoomDeleted" \in Tidings /\ "NewRoomName" \in Tidings
  BY DEF Tidings
<1>4. \A k, op : Later(q, k, op, id) => Later(r, k, op, id)
  BY <1>0, StillLater
<1>5. CameOnce(lists, r, id)
  BY <1>2, <1>3 DEF CameOnce, Heard
<1>6. stage = "unborn" => Unheard(lists, r, id)
  BY <1>1 DEF Unheard, Heard
<1>7. stage = "known" => Stays(lists, r, id)
  BY <1>0, <1>2, <1>3 DEF Stays, Heard, Extends
<1>8. stage = "gone" => Goes(lists, r, id)
  BY <1>2, <1>3, <1>4 DEF Goes, Heard
<1>9. stage = "known" /\ quiet => NameComesTo(lists, r, id, name)
  BY <1>2, <1>3, <1>4 DEF NameComesTo, Heard
<1> QED
  BY <1>5, <1>6, <1>7, <1>8, <1>9 DEF Heard

LEMMA CreationHeard ==
    ASSUME NEW q, NEW r, NEW e, Grew(q, r, e), NEW lists, NEW id, Says(e, "NewRoomCreated", id),
           NEW name, NEW quiet, Heard(lists, q, id, "unborn", name, quiet), NEW now
    PROVE  Heard(lists, r, id, "known", e.name, now)
<1>0. Extends(q, r, e)
  BY GrewExtends
<1>1. Single(lists, id) /\ Calls(lists, id) = {} /\ \A k \in DOMAIN q : ~About(q[k], id)
  BY DEF Heard, Unheard
<1>2. ASSUME NEW k \in DOMAIN r, About(r[k], id) PROVE r[k] = e /\ k \notin DOMAIN q /\ \A l \in DOMAIN r : l <= k
  BY <1>0, <1>1, <1>2 DEF Extends
<1>3. ASSUME NEW k \in DOMAIN r, NEW op \in Tidings, Says(r[k], op, id) PROVE About(r[k], id)
  BY <1>3 DEF About, Says
<1>4. "NewRoomCreated" \in Tidings /\ "RoomDeleted" \in Tidings /\ "NewRoomName" \in Tidings
  BY DEF Tidings
<1>5. CameOnce(lists, r, id)
  <2> SUFFICES ASSUME NEW k \in DOMAIN r, Says(r[k], "NewRoomCreated", id), NEW l \in DOMAIN r, Says(r[l], "NewRoomCreated", id)
               PROVE  k = l
    BY <1>1 DEF CameOnce
  <2>1. k <= l /\ l <= k
    BY <1>2, <1>3, <1>4
  <2>2. k \in Nat /\ l \in Nat
    BY DEF Grew
  <2> QED
    BY <2>1, <2>2
<1>6. Stays(lists, r, id)
  <2>1. ASSUME NEW k \in DOMAIN r PROVE ~Says(r[k], "RoomDeleted", id)
    BY <1>2, <1>3, <1>4 DEF Says
  <2>2. \E k \in DOMAIN r : Says(r[k], "NewRoomCreated", id)
    BY <1>0 DEF Extends
  <2> QED
    BY <2>1, <2>2 DEF Stays
<1>7. NameComesTo(lists, r, id, e.name)
  BY <1>1, <1>2, <1>3, <1>4 DEF NameComesTo
<1> QED
  BY <1>1, <1>5, <1>6, <1>7 DEF Heard

LEMMA RenameHeard ==
    ASSUME NEW q, NEW r, NEW e, Grew(q, r, e), NEW lists, NEW id, Says(e, "NewRoomName", id),
           NEW stage, stage # "unborn", NEW name, stage = "known" => name = e.name,
           NEW quiet, Heard(lists, q, id, stage, name, quiet), NEW now
    PROVE  Heard(lists, r, id, stage, name, now)
<1>0. Extends(q, r, e)
  BY GrewExtends
<1>1. ASSUME NEW k \in DOMAIN r, Says(r[k], "NewRoomCreated", id) \/ Says(r[k], "RoomDeleted", id)
      PROVE  k \in DOMAIN q /\ r[k] = q[k]
  BY <1>0, <1>1 DEF Extends, Says
<1>4. \A k, op : Later(q, k, op, id) => Later(r, k, op, id)
  BY <1>0, StillLater
<1>5. CameOnce(lists, r, id)
  BY <1>1 DEF CameOnce, Heard
<1>7. stage = "known" => Stays(lists, r, id)
  BY <1>0, <1>1 DEF Stays, Heard, Extends
<1>8. stage = "gone" => Goes(lists, r, id)
  BY <1>1, <1>4 DEF Goes, Heard
<1>9. ASSUME stage = "known" PROVE NameComesTo(lists, r, id, name)
  <2>1. \A k \in DOMAIN q : Later(r, k, "NewRoomName", id)
    BY <1>0 DEF Later, Extends
  <2>2. Later(r, 0, "NewRoomName", id)
    BY <1>0 DEF Later, Extends
  <2>3. \A k \in DOMAIN r : k \in DOMAIN q \/ r[k].name = name
    BY <1>0, <1>9 DEF Extends
  <2> QED
    BY <2>1, <2>2, <2>3 DEF NameComesTo
<1> QED
  BY <1>5, <1>7, <1>8, <1>9 DEF Heard

LEMMA DeletionHeard ==
    ASSUME NEW q, NEW r, NEW e, Grew(q, r, e), NEW lists, NEW id, Says(e, "RoomDeleted", id),
           NEW stage, NEW name, NEW quiet, Heard(lists, q, id, stage, name, quiet),
           NEW new \in {"going", "gone"}, NEW now
    PROVE  Heard(lists, r, id, new, name, now)
<1>0. Extends(q, r, e)
  BY GrewExtends
<1>1. ASSUME NEW k \in DOMAIN r, Says(r[k], "NewRoomCreated", id) PROVE k \in DOMAIN q /\ r[k] = q[k]
  BY <1>0, <1>1 DEF Extends, Says
<1>5. CameOnce(lists, r, id)
  BY <1>1 DEF CameOnce, Heard
<1>8. Goes(lists, r, id)
  <2>1. \A k \in DOMAIN q : Later(r, k, "RoomDeleted", id)
    BY <1>0 DEF Later, Extends
  <2>2. Later(r, 0, "RoomDeleted", id)
    BY <1>0 DEF Later, Extends
  <2> QED
    BY <1>1, <2>1, <2>2 DEF Goes
<1> QED
  BY <1>5, <1>8 DEF Heard

\* What was said in the second place is said in the first.
LEMMA LaterStill ==
    ASSUME NEW q, NEW r, Shrank(q, r), NEW op, NEW id
    PROVE  /\ \A k \in DOMAIN r : k + 1 \in DOMAIN q /\ r[k] = q[k + 1]
           /\ \A k \in DOMAIN r : Later(q, k + 1, op, id) => Later(r, k, op, id)
           /\ Later(q, 1, op, id) => Later(r, 0, op, id)
           /\ Later(q, 0, op, id) => Later(q, 1, op, id) \/ Says(q[1], op, id)
           /\ 1 \in DOMAIN q
<1>1. PICK n \in Nat : DOMAIN q = 1 .. n + 1 /\ DOMAIN r = 1 .. n /\ \A k \in 1 .. n : r[k] = q[k + 1]
  BY DEF Shrank
<1>2. ASSUME NEW k \in 0 .. n, Later(q, k + 1, op, id) PROVE Later(r, k, op, id)
  <2>1. PICK l \in DOMAIN q : k + 1 < l /\ Says(q[l], op, id)
    BY <1>2 DEF Later
  <2>2. PICK m \in DOMAIN r : l = m + 1 /\ k < m
    <3>1. l - 1 \in DOMAIN r /\ k < l - 1 /\ l = (l - 1) + 1
      BY <1>1, <2>1
    <3> QED
      BY <3>1
  <2>3. Says(r[m], op, id)
    BY <1>1, <2>1, <2>2
  <2> QED
    BY <2>2, <2>3 DEF Later
<1>3. Later(q, 1, op, id) => Later(r, 0, op, id)
  <2>1. 0 \in 0 .. n /\ 0 + 1 = 1
    BY <1>1
  <2> QED
    BY <1>2, <2>1
<1>4. ASSUME Later(q, 0, op, id) PROVE Later(q, 1, op, id) \/ Says(q[1], op, id)
  <2>1. PICK l \in DOMAIN q : 0 < l /\ Says(q[l], op, id)
    BY <1>4 DEF Later
  <2>2. l = 1 \/ 1 < l
    BY <1>1, <2>1
  <2> QED
    BY <2>1, <2>2 DEF Later
<1>5. \A k \in DOMAIN r : k \in 0 .. n /\ k + 1 \in DOMAIN q /\ r[k] = q[k + 1]
  BY <1>1
<1>6. 1 \in DOMAIN q
  BY <1>1
<1> QED
  BY <1>2, <1>3, <1>4, <1>5, <1>6

\* The notice in front is about another room.
LEMMA HeadOther ==
    ASSUME NEW q, NEW r, Shrank(q, r), NEW lists, NEW new, NEW id, SameRoom(lists, new, id), ~About(q[1], id),
           NEW stage, NEW name, NEW quiet, Heard(lists, q, id, stage, name, quiet)
    PROVE  Heard(new, r, id, stage, name, quiet)
<1>0. "NewRoomCreated" \in Tidings /\ "RoomDeleted" \in Tidings /\ "NewRoomName" \in Tidings
  BY DEF Tidings
<1>1. \A op \in Tidings : ~Says(q[1], op, id)
  BY DEF Says, About
<1>2. Calls(new, id) = Calls(lists, id) /\ Single(new, id)
  BY DEF SameRoom, Heard
<1>3. \A k \in DOMAIN r : k + 1 \in DOMAIN q /\ r[k] = q[k + 1]
  BY LaterStill
<1>4. \A op \in Tidings : \A k \in DOMAIN r : Later(q, k + 1, op, id) => Later(r, k, op, id)
  BY LaterStill
<1>5. \A op \in Tidings : Later(q, 0, op, id) => Later(r, 0, op, id)
  BY <1>1, LaterStill
<1>6. CameOnce(new, r, id)
  <2> SUFFICES ASSUME NEW k \in DOMAIN r, Says(r[k], "NewRoomCreated", id)
               PROVE  Calls(new, id) = {} /\ \A l \in DOMAIN r : Says(r[l], "NewRoomCreated", id) => k = l
    BY DEF CameOnce
  <2>1. CameOnce(lists, q, id)
    BY DEF Heard
  <2>2. Calls(new, id) = {} /\ \A l \in DOMAIN q : Says(q[l], "NewRoomCreated", id) => k + 1 = l
    BY <1>2, <1>3, <2>1 DEF CameOnce
  <2>3. ASSUME NEW l \in DOMAIN r, Says(r[l], "NewRoomCreated", id) PROVE k = l
    <3>1. k + 1 = l + 1
      BY <1>3, <2>2, <2>3
    <3>2. k \in Nat /\ l \in Nat
      BY DEF Shrank
    <3> QED
      BY <3>1, <3>2
  <2> QED
    BY <2>2, <2>3
<1>7. stage = "unborn" => Unheard(new, r, id)
  BY <1>2, <1>3 DEF Heard, Unheard
<1>8. ASSUME stage = "known" PROVE Stays(new, r, id)
  <2>1. Stays(lists, q, id)
    BY <1>8 DEF Heard
  <2>2. \A k \in DOMAIN r : ~Says(r[k], "RoomDeleted", id)
    BY <1>3, <2>1 DEF Stays
  <2>3. ASSUME NEW k \in DOMAIN q, Says(q[k], "NewRoomCreated", id) PROVE \E l \in DOMAIN r : Says(r[l], "NewRoomCreated", id)
    <3>1. k # 1
      BY <1>0, <1>1, <2>3
    <3>2. PICK l \in DOMAIN r : r[l] = q[k]
      <4>1. k - 1 \in DOMAIN r /\ (k - 1) + 1 = k
        BY <3>1 DEF Shrank
      <4> QED
        BY <1>3, <4>1
    <3> QED
      BY <2>3, <3>2
  <2> QED
    BY <1>2, <2>1, <2>2, <2>3 DEF Stays
<1>9. ASSUME stage = "gone" PROVE Goes(new, r, id)
  <2>1. Goes(lists, q, id)
    BY <1>9 DEF Heard
  <2> QED
    BY <1>0, <1>2, <1>3, <1>4, <1>5, <2>1 DEF Goes
<1>10. ASSUME stage = "known" /\ quiet PROVE NameComesTo(new, r, id, name)
  <2>1. NameComesTo(lists, q, id, name)
    BY <1>10 DEF Heard
  <2> QED
    BY <1>0, <1>2, <1>3, <1>4, <1>5, <2>1 DEF NameComesTo
<1> QED
  BY <1>2, <1>6, <1>7, <1>8, <1>9, <1>10 DEF Heard

\* The room comes.
LEMMA HeadCreated ==
    ASSUME NEW q, NEW r, Shrank(q, r), NEW lists, NEW new, NEW id, Says(q[1], "NewRoomCreated", id),
           Single(new, id), Calls(new, id) = {q[1].name},
           NEW stage, NEW name, NEW quiet, Heard(lists, q, id, stage, name, quiet)
    PROVE  Heard(new, r, id, stage, name, quiet)
<1>0. 1 \in DOMAIN q /\ About(q[1], id)
  BY LaterStill DEF About, Says, Tidings
<1>1. \A k \in DOMAIN r : k + 1 \in DOMAIN q /\ r[k] = q[k + 1] /\ k + 1 # 1
  <2>1. \A k \in DOMAIN r : k + 1 # 1
    BY DEF Shrank
  <2> QED
    BY <2>1, LaterStill
<1>2. ASSUME NEW k \in DOMAIN r PROVE ~Says(r[k], "NewRoomCreated", id)
  <2>1. CameOnce(lists, q, id)
    BY DEF Heard
  <2>2. \A l \in DOMAIN q : Says(q[l], "NewRoomCreated", id) => 1 = l
    BY <1>0, <2>1 DEF CameOnce
  <2> QED
    BY <1>1, <2>2
<1>3. \A op : Later(q, 1, op, id) => Later(r, 0, op, id)
  BY LaterStill
<1>4. \A op : \A k \in DOMAIN r : Later(q, k + 1, op, id) => Later(r, k, op, id)
  BY LaterStill
<1>5. CameOnce(new, r, id)
  BY <1>2 DEF CameOnce
<1>6. stage # "unborn"
  BY <1>0 DEF Heard, Unheard
<1>7. ASSUME stage = "known" PROVE Stays(new, r, id)
  <2>1. Stays(lists, q, id)
    BY <1>7 DEF Heard
  <2> QED
    BY <1>1, <2>1 DEF Stays
<1>8. ASSUME stage = "gone" PROVE Goes(new, r, id)
  <2>1. Goes(lists, q, id)
    BY <1>8 DEF Heard
  <2>2. Later(r, 0, "RoomDeleted", id)
    BY <1>0, <1>3, <2>1 DEF Goes
  <2> QED
    BY <1>2, <2>2 DEF Goes
<1>9. ASSUME stage = "known" /\ quiet PROVE NameComesTo(new, r, id, name)
  <2>1. NameComesTo(lists, q, id, name)
    BY <1>9 DEF Heard
  <2>2. q[1].name = name \/ Later(r, 0, "NewRoomName", id)
    BY <1>0, <1>3, <2>1 DEF NameComesTo
  <2>3. ASSUME NEW k \in DOMAIN r, Says(r[k], "NewRoomCreated", id) \/ Says(r[k], "NewRoomName", id)
        PROVE  r[k].name = name \/ Later(r, k, "NewRoomName", id)
    BY <1>1, <1>4, <2>1, <2>3 DEF NameComesTo
  <2> QED
    BY <2>2, <2>3 DEF NameComesTo
<1> QED
  BY <1>5, <1>6, <1>7, <1>8, <1>9 DEF Heard

\* The room's name changes, where the room is listed.
LEMMA HeadNamed ==
    ASSUME NEW q, NEW r, Shrank(q, r), NEW lists, NEW new, NEW id, Says(q[1], "NewRoomName", id),
           Single(new, id), Calls(new, id) = (IF Calls(lists, id) = {} THEN {} ELSE {q[1].name}),
           NEW stage, NEW name, NEW quiet, Heard(lists, q, id, stage, name, quiet)
    PROVE  Heard(new, r, id, stage, name, quiet)
<1>0. 1 \in DOMAIN q /\ About(q[1], id) /\ ~Says(q[1], "NewRoomCreated", id) /\ ~Says(q[1], "RoomDeleted", id)
  BY LaterStill DEF About, Says, Tidings
<1>1. \A k \in DOMAIN r : k + 1 \in DOMAIN q /\ r[k] = q[k + 1]
  BY LaterStill
<1>2. \A k \in DOMAIN r : k \in Nat
  BY DEF Shrank
<1>3. \A op : Later(q, 1, op, id) => Later(r, 0, op, id)
  BY LaterStill
<1>4. \A op : \A k \in DOMAIN r : Later(q, k + 1, op, id) => Later(r, k, op, id)
  BY LaterStill
<1>5. CameOnce(new, r, id)
  <2> SUFFICES ASSUME NEW k \in DOMAIN r, Says(r[k], "NewRoomCreated", id)
               PROVE  Calls(new, id) = {} /\ \A l \in DOMAIN r : Says(r[l], "NewRoomCreated", id) => k = l
    BY DEF CameOnce
  <2>1. CameOnce(lists, q, id)
    BY DEF Heard
  <2>2. Calls(new, id) = {} /\ \A l \in DOMAIN q : Says(q[l], "NewRoomCreated", id) => k + 1 = l
    BY <1>1, <2>1 DEF CameOnce
  <2>3. ASSUME NEW l \in DOMAIN r, Says(r[l], "NewRoomCreated", id) PROVE k = l
    <3>1. k + 1 = l + 1
      BY <1>1, <2>2, <2>3
    <3> QED
      BY <1>2, <3>1
  <2> QED
    BY <2>2, <2>3
<1>6. stage # "unborn"
  BY <1>0 DEF Heard, Unheard
<1>7. ASSUME stage = "known" PROVE Stays(new, r, id)
  <2>1. Stays(lists, q, id)
    BY <1>7 DEF Heard
  <2>2. \A k \in DOMAIN r : ~Says(r[k], "RoomDeleted", id)
    BY <1>1, <2>1 DEF Stays
  <2>3. ASSUME NEW k \in DOMAIN q, Says(q[k], "NewRoomCreated", id) PROVE \E l \in DOMAIN r : Says(r[l], "NewRoomCreated", id)
    <3>1. k # 1
      BY <1>0, <2>3
    <3>2. PICK l \in DOMAIN r : r[l] = q[k]
      <4>1. k - 1 \in DOMAIN r /\ (k - 1) + 1 = k
        BY <3>1 DEF Shrank
      <4> QED
        BY <1>1, <4>1
    <3> QED
      BY <2>3, <3>2
  <2> QED
    BY <2>1, <2>2, <2>3 DEF Stays
<1>8. ASSUME stage = "gone" PROVE Goes(new, r, id)
  <2>1. Goes(lists, q, id)
    BY <1>8 DEF Heard
  <2>2. Later(q, 0, "RoomDeleted", id) => Later(r, 0, "RoomDeleted", id)
    BY <1>0, <1>3, LaterStill
  <2> QED
    BY <1>1, <1>4, <2>1, <2>2 DEF Goes
<1>9. ASSUME stage = "known" /\ quiet PROVE NameComesTo(new, r, id, name)
  <2>1. NameComesTo(lists, q, id, name)
    BY <1>9 DEF Heard
  <2>2. q[1].name = name \/ Later(r, 0, "NewRoomName", id)
    BY <1>0, <1>3, <2>1 DEF NameComesTo
  <2>3. ASSUME NEW k \in DOMAIN r, Says(r[k], "NewRoomCreated", id) \/ Says(r[k], "NewRoomName", id)
        PROVE  r[k].name = name \/ Later(r, k, "NewRoomName", id)
    BY <1>1, <1>4, <2>1, <2>3 DEF NameComesTo
  <2> QED
    BY <2>2, <2>3 DEF NameComesTo
<1> QED
  BY <1>5, <1>6, <1>7, <1>8, <1>9 DEF Heard

\* The room goes.
LEMMA HeadDeleted ==
    ASSUME NEW q, NEW r, Shrank(q, r), NEW lists, NEW new, NEW id, Says(q[1], "RoomDeleted", id),
           Single(new, id), Calls(new, id) = {},
           NEW stage, NEW name, NEW quiet, Heard(lists, q, id, stage, name, quiet)
    PROVE  Heard(new, r, id, stage, name, quiet)
<1>0. 1 \in DOMAIN q /\ About(q[1], id)
  BY LaterStill DEF About, Says, Tidings
<1>1. \A k \in DOMAIN r : k + 1 \in DOMAIN q /\ r[k] = q[k + 1]
  BY LaterStill
<1>2. \A k \in DOMAIN r : k \in Nat
  BY DEF Shrank
<1>4. \A op : \A k \in DOMAIN r : Later(q, k + 1, op, id) => Later(r, k, op, id)
  BY LaterStill
<1>5. CameOnce(new, r, id)
  <2> SUFFICES ASSUME NEW k \in DOMAIN r, Says(r[k], "NewRoomCreated", id),
                      NEW l \in DOMAIN r, Says(r[l], "NewRoomCreated", id)
               PROVE  k = l
    BY DEF CameOnce
  <2>1. CameOnce(lists, q, id)
    BY DEF Heard
  <2>2. k + 1 = l + 1
    BY <1>1, <2>1 DEF CameOnce
  <2> QED
    BY <1>2, <2>2
<1>6. stage # "unborn"
  BY <1>0 DEF Heard, Unheard
<1>7. stage # "known"
  BY <1>0 DEF Heard, Stays
<1>8. ASSUME stage = "gone" PROVE Goes(new, r, id)
  <2>1. Goes(lists, q, id)
    BY <1>8 DEF Heard
  <2> QED
    BY <1>1, <1>4, <2>1 DEF Goes
<1> QED
  BY <1>5, <1>6, <1>7, <1>8 DEF Heard

-----------------------------------------------------------------------------
\* Nothing is heard, while the room may be renamed or deleted.
Unnoticed(stage, name, quiet, next, called, now) ==
    \/ next = stage /\ (stage = "known" /\ now => quiet /\ called = name)
    \/ next = "going"

LEMMA NothingHeard ==
    ASSUME NEW lists, NEW q, NEW id, NEW stage, NEW name, NEW quiet, Heard(lists, q, id, stage, name, quiet),
           NEW next, NEW called, NEW now, Unnoticed(stage, name, quiet, next, called, now)
    PROVE  Heard(lists, q, id, next, called, now)
BY DEF Heard, Unnoticed

\* Lists that come with nothing behind them.
LEMMA FreshHeard ==
    ASSUME NEW lists, NEW id, Single(lists, id), NEW stage, NEW name, NEW quiet,
           Calls(lists, id) = (IF stage = "known" THEN {name} ELSE {})
    PROVE  Heard(lists, <<>>, id, stage, name, quiet)
BY DEF Heard, CameOnce, Unheard, Stays, Goes, NameComesTo

-----------------------------------------------------------------------------
(***************************************************************************)
(* Requests: one goes on, ends or is new, and the others stay.             *)
(***************************************************************************)

\* Two sequences that are the same but for the i-th of the one and the a-th of
\* the other: there may be no such item.
Through(s, t, i, a, m) ==
    /\ \A j \in DOMAIN t \ {a} : m[j] \in DOMAIN s \ {i} /\ t[j] = s[m[j]]
    /\ \A j, l \in DOMAIN t \ {a} : m[j] = m[l] => j = l
    /\ \A k \in DOMAIN s \ {i} : \E j \in DOMAIN t \ {a} : m[j] = k
Turned(s, t, i, a) == \E m : Through(s, t, i, a, m)

ChoresTurned(v, i, a) ==
    /\ chores' = [w \in Visitor |-> chores'[w]]
    /\ \A w \in Visitor : w # v => chores'[w] = chores[w]
    /\ Turned(chores[v], chores'[v], i, a)

LEMMA ReplacedTurns ==
    ASSUME NEW s, NEW t, NEW i \in DOMAIN s, DOMAIN t = DOMAIN s, \A j \in DOMAIN s : j # i => t[j] = s[j]
    PROVE  Turned(s, t, i, i)
<1> DEFINE m == [j \in DOMAIN s |-> j]
<1>1. Through(s, t, i, i, m)
  BY DEF Through
<1> QED
  BY <1>1 DEF Turned

LEMMA RemovedTurns ==
    ASSUME NEW s, IsSeq(s), NEW i \in DOMAIN s
    PROVE  Turned(s, RemoveAt(s, i), i, 0) /\ 0 \notin DOMAIN RemoveAt(s, i)
<1>1. PICK S : s \in Seq(S)
  BY DEF IsSeq
<1>2. i \in 1 .. Len(s) /\ Len(s) \in Nat /\ DOMAIN s = 1 .. Len(s)
  BY <1>1
<1>3. PICK t : t = RemoveAt(s, i)
  OBVIOUS
<1>4. /\ t \in Seq(S) /\ Len(t) = Len(s) - 1
      /\ \A j \in 1 .. Len(s) - 1 : t[j] = IF j < i THEN s[j] ELSE s[j + 1]
  BY <1>1, <1>2, <1>3, RemoveOne
<1>5. PICK n \in Nat : Len(s) = n + 1
  <2>1. Len(s) - 1 \in Nat /\ Len(s) = (Len(s) - 1) + 1
    BY <1>2
  <2> QED
    BY <2>1
<1>6. /\ DOMAIN t = 1 .. n /\ DOMAIN s = 1 .. n + 1
      /\ \A j \in 1 .. n : t[j] = IF j < i THEN s[j] ELSE s[j + 1]
  BY <1>2, <1>4, <1>5
<1>7. PICK m : m = [j \in 1 .. n |-> IF j < i THEN j ELSE j + 1]
  OBVIOUS
<1>8. ASSUME NEW j \in DOMAIN t \ {0} PROVE m[j] \in DOMAIN s \ {i} /\ t[j] = s[m[j]]
  BY <1>2, <1>6, <1>7
<1>9. ASSUME NEW j \in DOMAIN t \ {0}, NEW l \in DOMAIN t \ {0}, m[j] = m[l] PROVE j = l
  BY <1>2, <1>6, <1>7, <1>9
<1>10. ASSUME NEW k \in DOMAIN s \ {i} PROVE \E j \in DOMAIN t \ {0} : m[j] = k
  <2>1. CASE k < i
    <3>1. k \in DOMAIN t \ {0} /\ m[k] = k
      BY <1>2, <1>6, <1>7, <2>1
    <3> QED
      BY <3>1
  <2>2. CASE ~(k < i)
    <3>1. PICK j \in 1 .. n : k = j + 1 /\ ~(j < i)
      <4>1. k - 1 \in 1 .. n /\ k = (k - 1) + 1 /\ ~(k - 1 < i)
        BY <1>2, <1>6, <2>2
      <4> QED
        BY <4>1
    <3>2. j \in DOMAIN t \ {0} /\ m[j] = k
      BY <1>6, <1>7, <3>1
    <3> QED
      BY <3>2
  <2> QED
    BY <2>1, <2>2
<1>11. Through(s, t, i, 0, m)
  BY <1>8, <1>9, <1>10 DEF Through
<1> QED
  BY <1>3, <1>6, <1>11 DEF Turned

LEMMA AppendedTurns ==
    ASSUME NEW s, NEW t, NEW e, Grew(s, t, e)
    PROVE  \E a \in DOMAIN t : Turned(s, t, 0, a) /\ t[a] = e
<1>1. PICK n \in Nat : DOMAIN s = 1 .. n /\ DOMAIN t = 1 .. n + 1 /\ (\A k \in 1 .. n : t[k] = s[k]) /\ t[n + 1] = e
  BY DEF Grew
<1>2. PICK m : m = [j \in 1 .. n |-> j]
  OBVIOUS
<1>3. \A j \in DOMAIN t \ {n + 1} : j \in 1 .. n /\ m[j] \in DOMAIN s \ {0} /\ t[j] = s[m[j]] /\ m[j] = j
  BY <1>1, <1>2
<1>4. \A k \in DOMAIN s \ {0} : k \in DOMAIN t \ {n + 1} /\ m[k] = k
  BY <1>1, <1>2
<1>5. Through(s, t, 0, n + 1, m)
  BY <1>3, <1>4 DEF Through
<1>6. n + 1 \in DOMAIN t
  BY <1>1
<1> QED
  BY <1>1, <1>5, <1>6 DEF Turned

-----------------------------------------------------------------------------
\* Every request but one was there before, and no two of them were one.
LEMMA OthersWereThere ==
    ASSUME NEW v \in Visitor, NEW i, NEW a, ChoresTurned(v, i, a)
    PROVE  /\ \A w \in Visitor : \A j \in DOMAIN chores'[w] : (w = v /\ j = a) \/
                 \E k \in DOMAIN chores[w] : ~(w = v /\ k = i) /\ chores'[w][j] = chores[w][k]
           /\ \A w \in Visitor : \A k \in DOMAIN chores[w] : (w = v /\ k = i) \/
                 \E j \in DOMAIN chores'[w] : ~(w = v /\ j = a) /\ chores'[w][j] = chores[w][k]
<1>1. PICK m : Through(chores[v], chores'[v], i, a, m)
  BY DEF ChoresTurned, Turned
<1>2. ASSUME NEW w \in Visitor, w # v PROVE chores'[w] = chores[w]
  BY <1>2 DEF ChoresTurned
<1>3. ASSUME NEW w \in Visitor, NEW j \in DOMAIN chores'[w], ~(w = v /\ j = a)
      PROVE  \E k \in DOMAIN chores[w] : ~(w = v /\ k = i) /\ chores'[w][j] = chores[w][k]
  BY <1>1, <1>2, <1>3 DEF Through
<1>4. ASSUME NEW w \in Visitor, NEW k \in DOMAIN chores[w], ~(w = v /\ k = i)
      PROVE  \E j \in DOMAIN chores'[w] : ~(w = v /\ j = a) /\ chores'[w][j] = chores[w][k]
  <2>1. CASE w = v
    <3>1. PICK j \in DOMAIN chores'[v] \ {a} : m[j] = k
      BY <1>1, <1>4, <2>1 DEF Through
    <3> QED
      BY <1>1, <2>1, <3>1 DEF Through
  <2>2. CASE w # v
    BY <1>2, <2>2
  <2> QED
    BY <2>1, <2>2
<1> QED
  BY <1>3, <1>4

\* What is said of at most one request of a visitor.
LEMMA StillOne ==
    ASSUME NEW v \in Visitor, NEW i, NEW a, ChoresTurned(v, i, a), NEW j \in DOMAIN chores'[v] \ {a}, NEW l \in DOMAIN chores'[v] \ {a},
           j # l
    PROVE  \E k, n \in DOMAIN chores[v] \ {i} : k # n /\ chores'[v][j] = chores[v][k] /\ chores'[v][l] = chores[v][n]
BY DEF ChoresTurned, Turned, Through

Tells(chore, op, id) == chore.op = op /\ chore.id = id /\ chore.stage = "tell"

LEMMA AnnouncedBefore ==
    ASSUME NEW v \in Visitor, NEW i, NEW a, ChoresTurned(v, i, a), NEW op, NEW id, Announcing(op, id)'
    PROVE  Announcing(op, id) \/ (a \in DOMAIN chores'[v] /\ Tells(chores'[v][a], op, id))
<1>1. PICK w \in Visitor : \E j \in DOMAIN chores'[w] : Tells(chores'[w][j], op, id)
  BY DEF Announcing, Tells
<1>0. PICK j \in DOMAIN chores'[w] : Tells(chores'[w][j], op, id)
  BY <1>1
<1>2. CASE w = v /\ j = a
  BY <1>0, <1>2
<1>3. CASE ~(w = v /\ j = a)
  <2>1. PICK k \in DOMAIN chores[w] : chores'[w][j] = chores[w][k]
    BY <1>3, OthersWereThere
  <2> QED
    BY <1>0, <2>1 DEF Announcing, Tells
<1> QED
  BY <1>2, <1>3

LEMMA AnnouncedStill ==
    ASSUME NEW v \in Visitor, NEW i, NEW a, ChoresTurned(v, i, a), NEW op, NEW id, Announcing(op, id)
    PROVE  Announcing(op, id)' \/ (i \in DOMAIN chores[v] /\ Tells(chores[v][i], op, id))
<1>1. PICK w \in Visitor : \E k \in DOMAIN chores[w] : Tells(chores[w][k], op, id)
  BY DEF Announcing, Tells
<1>0. PICK k \in DOMAIN chores[w] : Tells(chores[w][k], op, id)
  BY <1>1
<1>2. CASE w = v /\ k = i
  BY <1>0, <1>2
<1>3. CASE ~(w = v /\ k = i)
  <2>1. PICK j \in DOMAIN chores'[w] : chores'[w][j] = chores[w][k]
    BY <1>3, OthersWereThere
  <2> QED
    BY <1>0, <2>1 DEF Announcing, Tells
<1> QED
  BY <1>2, <1>3

\* The new request is announced already.
LEMMA AnnouncedNow ==
    ASSUME NEW v \in Visitor, NEW a, a \in DOMAIN chores'[v], NEW op, NEW id, Tells(chores'[v][a], op, id)
    PROVE  Announcing(op, id)'
BY DEF Announcing, Tells

-----------------------------------------------------------------------------
\* The kinds of steps, by what becomes of the requests and the notices.
Passed(v, i, chore) ==
    /\ ChoresTurned(v, i, i) /\ i \in DOMAIN chores'[v] /\ chores'[v][i] = chore
    /\ UNCHANGED notices

BoxesAre == notices' = [w \in Visitor |-> notices'[w]] /\ \A w \in Visitor : IsSeq(notices'[w])

RepliedTo(v, i, reply) ==
    /\ ChoresTurned(v, i, 0) /\ 0 \notin DOMAIN chores'[v]
    /\ BoxesAre
    /\ \A w \in Visitor : w # v => notices'[w] = notices[w]
    /\ Grew(notices[v], notices'[v], reply)

\* A notice to those who are registered, a reply.
Posted(w, v, notice, reply) ==
    \E q : /\ IF visit[w].listed THEN Grew(notices[w], q, notice) ELSE q = notices[w]
           /\ IF w = v THEN Grew(q, notices'[w], reply) ELSE notices'[w] = q

Announced(v, i, notice, reply) ==
    /\ ChoresTurned(v, i, 0) /\ 0 \notin DOMAIN chores'[v]
    /\ BoxesAre
    /\ \A w \in Visitor : Posted(w, v, notice, reply)
    /\ \/ \A w \in Visitor : \A j \in DOMAIN chores[w] : chores[w][j].op = "Auth" => chores[w][j].stage = "new"
       \/ notice.id \in puzzled'
    /\ puzzled \subseteq puzzled'

Seqs == /\ chores = [v \in Visitor |-> chores[v]] /\ \A v \in Visitor : IsSeq(chores[v])
        /\ notices = [v \in Visitor |-> notices[v]] /\ \A v \in Visitor : IsSeq(notices[v])

LEMMA StepPasses ==
    ASSUME Seqs, NEW v \in Visitor, NEW i \in DOMAIN chores[v], NEW stage, NEW chore, Step(v, i, stage, chore)
    PROVE  Passed(v, i, [chore EXCEPT !.stage = stage])
<1>1. PICK new : new = [chore EXCEPT !.stage = stage]
  OBVIOUS
<1>2. PICK mine : mine = [chores[v] EXCEPT ![i] = new]
  OBVIOUS
<1>3. chores' = [chores EXCEPT ![v] = mine] /\ UNCHANGED notices
  BY <1>1, <1>2 DEF Step
<1>4. DOMAIN mine = DOMAIN chores[v] /\ \A j \in DOMAIN chores[v] : mine[j] = IF j = i THEN new ELSE chores[v][j]
  BY <1>2, ReplaceOne DEF Seqs
<1>5. Turned(chores[v], mine, i, i)
  BY <1>4, ReplacedTurns
<1>6. chores'[v] = mine /\ chores' = [w \in Visitor |-> chores'[w]] /\ \A w \in Visitor : w # v => chores'[w] = chores[w]
  BY <1>3 DEF Seqs
<1>7. ChoresTurned(v, i, i)
  BY <1>5, <1>6 DEF ChoresTurned
<1>8. i \in DOMAIN chores'[v] /\ chores'[v][i] = new
  BY <1>4, <1>6
<1> QED
  BY <1>1, <1>3, <1>7, <1>8 DEF Passed

LEMMA DropTurns ==
    ASSUME Seqs, NEW v \in Visitor, NEW i \in DOMAIN chores[v], chores' = [chores EXCEPT ![v] = RemoveAt(@, i)]
    PROVE  ChoresTurned(v, i, 0) /\ 0 \notin DOMAIN chores'[v]
<1>1. PICK mine : mine = RemoveAt(chores[v], i)
  OBVIOUS
<1>2. Turned(chores[v], mine, i, 0) /\ 0 \notin DOMAIN mine
  BY <1>1, RemovedTurns DEF Seqs
<1>3. chores'[v] = mine /\ chores' = [w \in Visitor |-> chores'[w]] /\ \A w \in Visitor : w # v => chores'[w] = chores[w]
  BY <1>1 DEF Seqs
<1> QED
  BY <1>2, <1>3 DEF ChoresTurned

LEMMA ReplyAnswers ==
    ASSUME Seqs, NEW v \in Visitor, NEW i \in DOMAIN chores[v], NEW reply, Reply(v, i, reply)
    PROVE  RepliedTo(v, i, reply)
<1>1. ChoresTurned(v, i, 0) /\ 0 \notin DOMAIN chores'[v]
  BY DropTurns DEF Reply
<1>2. PICK box : box = Append(notices[v], reply)
  OBVIOUS
<1>3. Grew(notices[v], box, reply) /\ IsSeq(box)
  BY <1>2, AppendGrows DEF Seqs
<1>4. notices'[v] = box /\ notices' = [w \in Visitor |-> notices'[w]] /\ \A w \in Visitor : w # v => notices'[w] = notices[w]
  BY <1>2 DEF Seqs, Reply
<1>5. BoxesAre
  BY <1>3, <1>4 DEF BoxesAre, Seqs
<1> QED
  BY <1>1, <1>3, <1>4, <1>5 DEF RepliedTo

LEMMA AskTurns ==
    ASSUME Seqs, NEW v \in Visitor, NEW request, Ask(v, request)
    PROVE  \E a \in DOMAIN chores'[v] : ChoresTurned(v, 0, a) /\ chores'[v][a] = request
<1>1. PICK mine : mine = Append(chores[v], request)
  OBVIOUS
<1>2. Grew(chores[v], mine, request)
  BY <1>1, AppendGrows DEF Seqs
<1>3. PICK a \in DOMAIN mine : Turned(chores[v], mine, 0, a) /\ mine[a] = request
  BY <1>2, AppendedTurns
<1>4. chores'[v] = mine /\ chores' = [w \in Visitor |-> chores'[w]] /\ \A w \in Visitor : w # v => chores'[w] = chores[w]
  BY <1>1 DEF Seqs, Ask
<1> QED
  BY <1>3, <1>4 DEF ChoresTurned

-----------------------------------------------------------------------------
(***************************************************************************)
(* What is sent to all, and what happens to the rows.                      *)
(***************************************************************************)

LEMMA OneIsAppended ==
    ASSUME NEW s, IsSeq(s), NEW e
    PROVE  Grew(s, s \o <<e>>, e) /\ IsSeq(s \o <<e>>)
<1>1. PICK S : s \in Seq(S)
  BY DEF IsSeq
<1>2. PICK T : T = S \cup {e}
  OBVIOUS
<1>3. s \in Seq(T) /\ <<e>> \in Seq(T) /\ Len(<<e>>) = 1 /\ <<e>>[1] = e
  BY <1>1, <1>2
<1>4. /\ s \o <<e>> \in Seq(T) /\ Len(s \o <<e>>) = Len(s) + 1 /\ Len(s) \in Nat
      /\ \A k \in 1 .. Len(s) + 1 : (s \o <<e>>)[k] = IF k <= Len(s) THEN s[k] ELSE <<e>>[k - Len(s)]
  BY <1>3, ConcatProperties
<1>5. DOMAIN (s \o <<e>>) = 1 .. Len(s) + 1 /\ DOMAIN s = 1 .. Len(s)
  BY <1>3, <1>4
<1>6. \A k \in 1 .. Len(s) : (s \o <<e>>)[k] = s[k]
  BY <1>4
<1>7. (s \o <<e>>)[Len(s) + 1] = e
  BY <1>3, <1>4
<1>8. IsSeq(s \o <<e>>)
  BY <1>4 DEF IsSeq
<1> QED
  BY <1>4, <1>5, <1>6, <1>7, <1>8, Zenon DEF Grew

LEMMA NoneIsAppended ==
    ASSUME NEW s, IsSeq(s)
    PROVE  s \o <<>> = s
<1>1. PICK S : s \in Seq(S)
  BY DEF IsSeq
<1> QED
  BY <1>1

LEMMA SendAnnounces ==
    ASSUME Seqs, NEW v \in Visitor, NEW i \in DOMAIN chores[v], NEW notice, sendToAll(v, i, notice)
    PROVE  Announced(v, i, notice, [op |-> chores[v][i].op, ok |-> TRUE])
<1>1. ChoresTurned(v, i, 0) /\ 0 \notin DOMAIN chores'[v]
  BY DropTurns DEF sendToAll
<1>2. PICK reply : reply = [op |-> chores[v][i].op, ok |-> TRUE]
  OBVIOUS
<1>3. ASSUME NEW w \in Visitor PROVE Posted(w, v, notice, reply) /\ IsSeq(notices'[w])
  <2>1. notices'[w] = notices[w] \o (IF visit[w].listed THEN <<notice>> ELSE <<>>) \o (IF w = v THEN <<reply>> ELSE <<>>)
    BY <1>2 DEF sendToAll
  <2>2. PICK q : q = notices[w] \o (IF visit[w].listed THEN <<notice>> ELSE <<>>)
    OBVIOUS
  <2>3. IsSeq(q) /\ (IF visit[w].listed THEN Grew(notices[w], q, notice) ELSE q = notices[w])
    <3>0. IsSeq(notices[w])
      BY DEF Seqs
    <3>1. CASE visit[w].listed
      <4>1. q = notices[w] \o <<notice>>
        BY <2>2, <3>1
      <4> QED
        BY <3>0, <3>1, <4>1, OneIsAppended
    <3>2. CASE ~visit[w].listed
      <4>1. q = notices[w] \o <<>>
        BY <2>2, <3>2
      <4> QED
        BY <3>0, <3>2, <4>1, NoneIsAppended
    <3> QED
      BY <3>1, <3>2
  <2>4. IsSeq(notices'[w]) /\ (IF w = v THEN Grew(q, notices'[w], reply) ELSE notices'[w] = q)
    <3>1. CASE w = v
      <4>1. notices'[w] = q \o <<reply>>
        BY <2>1, <2>2, <3>1
      <4> QED
        BY <2>3, <3>1, <4>1, OneIsAppended
    <3>2. CASE w # v
      <4>1. notices'[w] = q \o <<>>
        BY <2>1, <2>2, <3>2
      <4> QED
        BY <2>3, <3>2, <4>1, NoneIsAppended
    <3> QED
      BY <3>1, <3>2
  <2> QED
    BY <2>3, <2>4 DEF Posted
<1>4. BoxesAre
  <2>1. notices' = [w \in Visitor |-> notices'[w]]
    BY DEF sendToAll
  <2> QED
    BY <1>3, <2>1 DEF BoxesAre
<1>5. /\ puzzled \subseteq puzzled'
      /\ \/ \A w \in Visitor : \A j \in DOMAIN chores[w] : chores[w][j].op = "Auth" => chores[w][j].stage = "new"
         \/ notice.id \in puzzled'
  BY DEF sendToAll, Started
<1> QED
  BY <1>1, <1>2, <1>3, <1>4, <1>5 DEF Announced

-----------------------------------------------------------------------------
\* How the rows may change: no name and no room but that of id, which may be
\* created, named or deleted; and nobody leaves a room that stays.
RowsMove(id) ==
    /\ db.serial <= db'.serial
    /\ \A rid : rid # id => /\ rid \in DOMAIN db'.rooms <=> rid \in DOMAIN db.rooms
                            /\ rid \in 1 .. db'.serial <=> rid \in 1 .. db.serial
                            /\ rid \in DOMAIN db.rooms => db'.rooms[rid].room_name = db.rooms[rid].room_name
    /\ \A rid \in 0 .. db.serial : rid \in DOMAIN db'.rooms =>
          /\ rid \in DOMAIN db.rooms
          /\ \A user : /\ <<user, rid>> \in DOMAIN db.membership => <<user, rid>> \in DOMAIN db'.membership
                       /\ IsMember(user, rid) => IsMember(user, rid)'
                       /\ <<user, rid>> \in DOMAIN db'.membership =>
                             <<user, rid>> \in DOMAIN db.membership \/ IsMember(user, rid)'

\* Nothing happens to the names and the rooms.
RoomsStay ==
    /\ DOMAIN db'.rooms = DOMAIN db.rooms /\ db'.serial = db.serial
    /\ \A rid \in DOMAIN db.rooms : db'.rooms[rid].room_name = db.rooms[rid].room_name

LEMMA SameTablesMove ==
    ASSUME TablesInv, UNCHANGED db, NEW id
    PROVE  RowsMove(id) /\ RoomsStay
BY DEF RowsMove, RoomsStay, IsMember, TablesInv

Created(id, name) ==
    /\ id = db.serial + 1 /\ db'.serial = id /\ DOMAIN db'.rooms = DOMAIN db.rooms \cup {id}
    /\ db'.rooms[id].room_name = name

LEMMA CreatingMoves ==
    ASSUME TablesInv, RowsTyped, NEW id, id = db.serial + 1, NEW user, NEW name, NEW row, row.room_name = name,
           NEW entry, DOMAIN entry = {"membership_status"},
           db'.rooms = With(db.rooms, id, row), db'.serial = id, db'.membership = With(db.membership, <<user, id>>, entry)
    PROVE  RowsMove(id) /\ Created(id, name) /\ (name \in RoomText => RowsTyped')
<1>1. /\ db'.rooms = With(db.rooms, id, row) /\ db'.serial = id
      /\ db'.membership = With(db.membership, <<user, id>>, entry)
  BY DEF TablesInv
<1>2. /\ DOMAIN db'.rooms = DOMAIN db.rooms \cup {id}
      /\ \A rid \in DOMAIN db'.rooms : db'.rooms[rid] = IF rid = id THEN row ELSE db.rooms[rid]
  BY <1>1 DEF With
<1>3. PICK key : key = <<user, id>>
  OBVIOUS
<1>4. /\ DOMAIN db'.membership = DOMAIN db.membership \cup {key}
      /\ \A other \in DOMAIN db'.membership : db'.membership[other] = IF other = key THEN entry ELSE db.membership[other]
  BY <1>1, <1>3 DEF With
<1>5. db.serial \in Nat /\ DOMAIN db.rooms \subseteq 1 .. db.serial
  BY DEF TablesInv
<1>6. ASSUME NEW rid \in 0 .. db.serial, rid \in DOMAIN db'.rooms
      PROVE  /\ rid \in DOMAIN db.rooms
             /\ \A u : /\ <<u, rid>> \in DOMAIN db.membership => <<u, rid>> \in DOMAIN db'.membership
                       /\ IsMember(u, rid) => IsMember(u, rid)'
                       /\ <<u, rid>> \in DOMAIN db'.membership => <<u, rid>> \in DOMAIN db.membership \/ IsMember(u, rid)'
  <2>1. rid # id
    BY <1>5
  <2>2. \A u : <<u, rid>> # key
    BY <1>3, <2>1
  <2> QED
    BY <1>2, <1>4, <1>6, <2>1, <2>2 DEF IsMember
<1>7. ASSUME NEW rid, rid # id
      PROVE  /\ rid \in DOMAIN db'.rooms <=> rid \in DOMAIN db.rooms
             /\ rid \in 1 .. db'.serial <=> rid \in 1 .. db.serial
             /\ rid \in DOMAIN db.rooms => db'.rooms[rid].room_name = db.rooms[rid].room_name
  BY <1>1, <1>2, <1>5, <1>7
<1>8. RowsMove(id)
  BY <1>1, <1>5, <1>6, <1>7 DEF RowsMove
<1>9. Created(id, name)
  BY <1>1, <1>2 DEF Created
<1>10. ASSUME name \in RoomText PROVE RowsTyped'
  <2>1. \A rid \in DOMAIN db'.rooms : db'.rooms[rid].room_name \in RoomText
    BY <1>2, <1>10 DEF RowsTyped
  <2>2. \A other \in DOMAIN db'.membership : DOMAIN db'.membership[other] = {"membership_status"}
    BY <1>4 DEF RowsTyped
  <2> QED
    BY <2>1, <2>2 DEF RowsTyped
<1> QED
  BY <1>8, <1>9, <1>10

NamedAs(id, name) ==
    /\ DOMAIN db'.rooms = DOMAIN db.rooms /\ db'.serial = db.serial
    /\ id \in DOMAIN db.rooms => db'.rooms[id].room_name = name

LEMMA UpdatingMoves ==
    ASSUME TablesInv, RowsTyped, NEW id, NEW object,
           db'.rooms = UpdatedRoom(id, object).rooms, db'.serial = db.serial, db'.membership = db.membership
    PROVE  /\ RowsMove(id) /\ DOMAIN db'.rooms = DOMAIN db.rooms
           /\ "room_name" \in object.dirty => NamedAs(id, object.values.room_name)
           /\ "room_name" \notin object.dirty => RoomsStay
           /\ object.values.room_name \in RoomText \/ "room_name" \notin object.dirty => RowsTyped'
<1>1. PICK new : new = UpdateRooms(db.rooms[id], object)
  OBVIOUS
<1>2. id \in DOMAIN db.rooms =>
        new.room_name = IF "room_name" \in object.dirty THEN object.values.room_name ELSE db.rooms[id].room_name
  BY <1>1, UpdatedRow DEF TablesInv
<1>3. /\ DOMAIN db'.rooms = DOMAIN db.rooms
      /\ \A rid \in DOMAIN db.rooms : db'.rooms[rid] = IF rid = id THEN new ELSE db.rooms[rid]
  <2>1. CASE id \in DOMAIN db.rooms
    <3>1. UpdatedRoom(id, object).rooms = [db.rooms EXCEPT ![id] = new]
      BY <1>1, <2>1 DEF UpdatedRoom, TablesInv
    <3> QED
      BY <3>1
  <2>2. CASE id \notin DOMAIN db.rooms
    BY <2>2 DEF UpdatedRoom
  <2> QED
    BY <2>1, <2>2
<1>4. RowsMove(id)
  BY <1>3 DEF RowsMove, IsMember, TablesInv
<1>5. "room_name" \in object.dirty => NamedAs(id, object.values.room_name)
  BY <1>2, <1>3 DEF NamedAs
<1>6. "room_name" \notin object.dirty => RoomsStay
  BY <1>2, <1>3 DEF RoomsStay
<1>7. ASSUME object.values.room_name \in RoomText \/ "room_name" \notin object.dirty PROVE RowsTyped'
  <2>1. \A rid \in DOMAIN db'.rooms : db'.rooms[rid].room_name \in RoomText
    BY <1>2, <1>3, <1>7 DEF RowsTyped
  <2> QED
    BY <2>1 DEF RowsTyped
<1> QED
  BY <1>3, <1>4, <1>5, <1>6, <1>7

Dropped(id) == DOMAIN db'.rooms = DOMAIN db.rooms \ {id} /\ db'.serial = db.serial

LEMMA DeletingMoves ==
    ASSUME TablesInv, RowsTyped, NEW id, NEW keys, keys = {key \in DOMAIN db.membership : key[2] = id},
           db'.rooms = Without(db.rooms, {id}), db'.serial = db.serial, db'.membership = Without(db.membership, keys)
    PROVE  RowsMove(id) /\ Dropped(id) /\ RowsTyped'
<1>1. db'.rooms = Without(db.rooms, {id}) /\ db'.serial = db.serial /\ db'.membership = Without(db.membership, keys)
  BY DEF TablesInv
<1>2. DOMAIN db'.rooms = DOMAIN db.rooms \ {id} /\ \A rid \in DOMAIN db'.rooms : db'.rooms[rid] = db.rooms[rid]
  BY <1>1 DEF Without, Restrict
<1>3. DOMAIN db'.membership = DOMAIN db.membership \ keys
      /\ \A key \in DOMAIN db'.membership : db'.membership[key] = db.membership[key]
  BY <1>1 DEF Without, Restrict
<1>4. ASSUME NEW rid \in DOMAIN db'.rooms, NEW u
      PROVE  /\ <<u, rid>> \in DOMAIN db.membership <=> <<u, rid>> \in DOMAIN db'.membership
             /\ IsMember(u, rid) => IsMember(u, rid)'
  <2>1. rid # id
    BY <1>2
  <2>2. <<u, rid>> \notin keys
    BY <2>1
  <2> QED
    BY <1>3, <2>2 DEF IsMember
<1>5. RowsMove(id)
  <2>1. db.serial <= db'.serial
    BY <1>1 DEF TablesInv
  <2>2. ASSUME NEW rid, rid # id
        PROVE  /\ rid \in DOMAIN db'.rooms <=> rid \in DOMAIN db.rooms
               /\ rid \in 1 .. db'.serial <=> rid \in 1 .. db.serial
               /\ rid \in DOMAIN db.rooms => db'.rooms[rid].room_name = db.rooms[rid].room_name
    BY <1>1, <1>2, <2>2
  <2>3. \A rid \in DOMAIN db'.rooms : rid \in DOMAIN db.rooms
    BY <1>2
  <2> QED
    BY <1>4, <2>1, <2>2, <2>3 DEF RowsMove
<1>6. Dropped(id)
  BY <1>1, <1>2 DEF Dropped
<1>7. RowsTyped'
  BY <1>2, <1>3 DEF RowsTyped
<1> QED
  BY <1>5, <1>6, <1>7

LEMMA EnrollingMoves ==
    ASSUME TablesInv, RowsTyped, NEW v, NEW id, NEW known, NEW object, DOMAIN object.values = {"membership_status"},
           db' = Enrolled(v, id, known, object), NEW any, NEW self, self = visit[v].user
    PROVE  /\ RowsMove(any) /\ RoomsStay /\ RowsTyped'
           /\ known /\ <<self, id>> \in DOMAIN db.membership => IsMember(self, id)'
           /\ ~known /\ <<self, id>> \notin DOMAIN db.membership /\ id \in DOMAIN db.rooms =>
                 IsMember(self, id)'
<1>1. PICK key : key = <<self, id>>
  OBVIOUS
<1>2. PICK joined : joined = setMembershipStatus(object, "JOINED")
  OBVIOUS
<1>3. "membership_status" \in joined.dirty /\ joined.values.membership_status = "JOINED"
  BY <1>2 DEF setMembershipStatus, Set
<1>4. PICK row : row = UpdateMembership(db.membership[key], joined)
  OBVIOUS
<1>5. key \in DOMAIN db.membership => DOMAIN row = {"membership_status"} /\ row.membership_status = "JOINED"
  BY <1>3, <1>4 DEF UpdateMembership, Updated, updateColumns, RowsTyped
<1>6. PICK entry : entry = InsertMembership(joined)
  OBVIOUS
<1>7. DOMAIN entry = {"membership_status"} /\ entry.membership_status = "JOINED"
  BY <1>3, <1>6 DEF InsertMembership, Inserted
<1>8. db'.rooms = db.rooms /\ db'.serial = db.serial
  BY DEF Enrolled, TablesInv
<1>9. \/ db' = db /\ ~(known /\ key \in DOMAIN db.membership)
             /\ ~(~known /\ key \notin DOMAIN db.membership /\ id \in DOMAIN db.rooms)
      \/ \E new : /\ DOMAIN new = {"membership_status"} /\ new.membership_status = "JOINED"
                  /\ DOMAIN db'.membership = DOMAIN db.membership \cup {key}
                  /\ \A other \in DOMAIN db'.membership :
                        db'.membership[other] = IF other = key THEN new ELSE db.membership[other]
  <2>1. CASE known /\ key \in DOMAIN db.membership
    <3>1. db'.membership = [db.membership EXCEPT ![key] = row]
      BY <1>1, <1>2, <1>4, <2>1 DEF Enrolled, TablesInv
    <3>2. /\ DOMAIN db'.membership = DOMAIN db.membership \cup {key}
          /\ \A other \in DOMAIN db'.membership :
                db'.membership[other] = IF other = key THEN row ELSE db.membership[other]
      BY <2>1, <3>1
    <3> QED
      BY <1>5, <2>1, <3>2
  <2>2. CASE ~known /\ key \notin DOMAIN db.membership /\ id \in DOMAIN db.rooms
    <3>1. db'.membership = With(db.membership, key, entry)
      BY <1>1, <1>2, <1>6, <2>2 DEF Enrolled, TablesInv
    <3>2. /\ DOMAIN db'.membership = DOMAIN db.membership \cup {key}
          /\ \A other \in DOMAIN db'.membership :
                db'.membership[other] = IF other = key THEN entry ELSE db.membership[other]
      BY <3>1 DEF With
    <3> QED
      BY <1>7, <3>2
  <2>3. CASE /\ ~(known /\ key \in DOMAIN db.membership)
             /\ ~(~known /\ key \notin DOMAIN db.membership /\ id \in DOMAIN db.rooms)
    <3>1. db' = db
      BY <1>1, <2>3 DEF Enrolled
    <3> QED
      BY <2>3, <3>1
  <2> QED
    BY <2>1, <2>2, <2>3
<1>10. CASE db' = db /\ ~(known /\ key \in DOMAIN db.membership)
             /\ ~(~known /\ key \notin DOMAIN db.membership /\ id \in DOMAIN db.rooms)
  <2>1. RowsMove(any) /\ RoomsStay
    BY <1>10, SameTablesMove
  <2>2. RowsTyped'
    BY <1>10 DEF RowsTyped
  <2> QED
    BY <1>1, <1>10, <2>1, <2>2
<1>11. ASSUME NEW new, DOMAIN new = {"membership_status"}, new.membership_status = "JOINED",
              DOMAIN db'.membership = DOMAIN db.membership \cup {key},
              \A other \in DOMAIN db'.membership : db'.membership[other] = IF other = key THEN new ELSE db.membership[other]
       PROVE  /\ RowsMove(any) /\ RoomsStay /\ RowsTyped'
              /\ IsMember(self, id)'
  <2>1. ASSUME NEW u, NEW rid
        PROVE  /\ <<u, rid>> \in DOMAIN db.membership => <<u, rid>> \in DOMAIN db'.membership
               /\ IsMember(u, rid) => IsMember(u, rid)'
               /\ <<u, rid>> \in DOMAIN db'.membership => <<u, rid>> \in DOMAIN db.membership \/ IsMember(u, rid)'
    <3>1. PICK other : other = <<u, rid>>
      OBVIOUS
    <3>2. CASE other = key
      BY <1>11, <3>1, <3>2 DEF IsMember
    <3>3. CASE other # key
      BY <1>11, <3>1, <3>3 DEF IsMember
    <3> QED
      BY <3>2, <3>3
  <2>2. RowsMove(any)
    <3>1. db.serial <= db'.serial
      BY <1>8 DEF TablesInv
    <3> QED
      BY <1>8, <2>1, <3>1 DEF RowsMove
  <2>3. RoomsStay
    BY <1>8 DEF RoomsStay
  <2>4. RowsTyped'
    BY <1>8, <1>11 DEF RowsTyped
  <2>5. IsMember(self, id)'
    <3>1. key \in DOMAIN db'.membership /\ db'.membership[key].membership_status = "JOINED"
      BY <1>11
    <3>2. <<self, id>> \in DOMAIN db'.membership /\ db'.membership[<<self, id>>].membership_status = "JOINED"
      BY <1>1, <3>1
    <3> QED
      BY <3>2 DEF IsMember
  <2> QED
    BY <2>2, <2>3, <2>4, <2>5
<1> QED
  BY <1>9, <1>10, <1>11

-----------------------------------------------------------------------------
(***************************************************************************)
(* Types.                                                                  *)
(***************************************************************************)

RoomsBase == LobbyInv /\ TypesInv

LEMMA BaseSeqs == RoomsBase => Seqs
BY DEF RoomsBase, LobbyInv, ChoresInv, TypesInv, BoxesTyped, Seqs

ChoresTyped == \A v \in Visitor : \A j \in DOMAIN chores[v] : ChoreTyped(chores[v][j])
NoticesTyped == notices = [v \in Visitor |-> notices[v]]
                /\ \A v \in Visitor : IsSeq(notices[v]) /\ \A k \in DOMAIN notices[v] : NoticeTyped(notices[v][k])

LEMMA BoxesParts == BoxesTyped <=> ChoresTyped /\ NoticesTyped
BY DEF BoxesTyped, ChoresTyped, NoticesTyped

LEMMA ChoresTypedStill ==
    ASSUME ChoresTyped, NEW v \in Visitor, NEW i, NEW a, ChoresTurned(v, i, a),
           a \in DOMAIN chores'[v] => ChoreTyped(chores'[v][a])
    PROVE  ChoresTyped'
<1>1. ASSUME NEW w \in Visitor, NEW j \in DOMAIN chores'[w] PROVE ChoreTyped(chores'[w][j])
  <2>1. CASE w = v /\ j = a
    BY <2>1
  <2>2. CASE ~(w = v /\ j = a)
    <3>1. PICK k \in DOMAIN chores[w] : chores'[w][j] = chores[w][k]
      BY <2>2, OthersWereThere
    <3>2. ChoreTyped(chores[w][k])
      BY DEF ChoresTyped
    <3> QED
      BY <3>1, <3>2
  <2> QED
    BY <2>1, <2>2
<1> QED
  BY <1>1 DEF ChoresTyped

AllTyped(q) == \A k \in DOMAIN q : NoticeTyped(q[k])

LEMMA GrewTyped ==
    ASSUME NEW q, NEW r, NEW e, Grew(q, r, e), AllTyped(q), NoticeTyped(e)
    PROVE  AllTyped(r)
<1>1. ASSUME NEW k \in DOMAIN r PROVE r[k] = e \/ (k \in DOMAIN q /\ r[k] = q[k])
  BY DEF Grew
<1> QED
  BY <1>1 DEF AllTyped

LEMMA ReplyTyped ==
    ASSUME NEW op \in Errands \ {"Auth"}, NEW ok
    PROVE  NoticeTyped([op |-> op, ok |-> ok])
BY DEF NoticeTyped, Errands, Tidings

LEMMA AnnouncedTyped ==
    ASSUME NoticesTyped, NEW v \in Visitor, NEW i, NEW notice, NEW reply, Announced(v, i, notice, reply),
           NoticeTyped(notice), NoticeTyped(reply)
    PROVE  NoticesTyped'
<1>1. ASSUME NEW w \in Visitor PROVE AllTyped(notices'[w])
  <2>1. PICK q : /\ IF visit[w].listed THEN Grew(notices[w], q, notice) ELSE q = notices[w]
                 /\ IF w = v THEN Grew(q, notices'[w], reply) ELSE notices'[w] = q
    BY DEF Announced, Posted
  <2>2. AllTyped(notices[w])
    BY DEF NoticesTyped, AllTyped
  <2>3. AllTyped(q)
    BY <2>1, <2>2, GrewTyped
  <2> QED
    BY <2>1, <2>3, GrewTyped
<1> QED
  BY <1>1 DEF NoticesTyped, AllTyped, Announced, BoxesAre

NoticeTaken(v) ==
    /\ BoxesAre /\ \A w \in Visitor : w # v => notices'[w] = notices[w]
    /\ Shrank(notices[v], notices'[v])

LEMMA TakenTyped ==
    ASSUME NoticesTyped, NEW v \in Visitor, NoticeTaken(v)
    PROVE  NoticesTyped'
<1>1. \A k \in DOMAIN notices'[v] : k + 1 \in DOMAIN notices[v] /\ notices'[v][k] = notices[v][k + 1]
  BY LaterStill DEF NoticeTaken
<1>2. \A k \in DOMAIN notices'[v] : NoticeTyped(notices'[v][k])
  BY <1>1 DEF NoticesTyped
<1> QED
  BY <1>2 DEF NoticesTyped, NoticeTaken, BoxesAre

-----------------------------------------------------------------------------
\* A request on its way, and what its handler has noted since.
SameErrand(chore, new, stage) ==
    /\ DOMAIN new = ChoreFields
    /\ new.op = chore.op /\ new.name = chore.name /\ new.id = chore.id /\ new.stage = stage
    /\ new.mine = chore.mine /\ new.public = chore.public
    /\ new.known = chore.known /\ new.object = chore.object

LEMMA ErrandStepped ==
    ASSUME NEW chore, DOMAIN chore = ChoreFields, NEW stage, NEW row, NEW former
    PROVE  /\ SameErrand(chore, [chore EXCEPT !.stage = stage], stage)
           /\ SameErrand(chore, [[chore EXCEPT !.row = row] EXCEPT !.stage = stage], stage)
           /\ SameErrand(chore, [[chore EXCEPT !.former = former] EXCEPT !.stage = stage], stage)
BY DEF SameErrand, ChoreFields

LEMMA SameErrandTyped ==
    ASSUME NEW chore, ChoreTyped(chore), NEW stage, NEW new, SameErrand(chore, new, stage)
    PROVE  ChoreTyped(new)
BY DEF ChoreTyped, SameErrand

\* What is noted of a membership.
MemberKnown(new, chore, user) ==
    /\ DOMAIN new = ChoreFields /\ ChoreTyped(new)
    /\ new.op = chore.op /\ new.id = chore.id /\ new.name = chore.name
    /\ new.known <=> <<user, chore.id>> \in DOMAIN db.membership
    /\ new.known /\ new.object.values.membership_status = "JOINED" <=> IsMember(user, chore.id)

LEMMA MembershipRead ==
    ASSUME TypesInv, NEW v \in Visitor, NEW chore, DOMAIN chore = ChoreFields, ChoreTyped(chore),
           NEW new, new = Membership(v, chore), NEW user, user = visit[v].user
    PROVE  MemberKnown(new, chore, user)
<1>1. PICK key : key = <<user, chore.id>>
  OBVIOUS
<1>2. CASE key \in DOMAIN db.membership
  <2>1. new = [chore EXCEPT !.known = TRUE, !.object = [values |-> db.membership[key], dirty |-> {}]]
    BY <1>1, <1>2 DEF Membership, RoomMembership, Read
  <2>2. DOMAIN db.membership[key] = {"membership_status"}
    BY <1>2 DEF TypesInv, RowsTyped
  <2>3. /\ DOMAIN new = ChoreFields /\ new.op = chore.op /\ new.id = chore.id /\ new.name = chore.name
        /\ new.mine = chore.mine /\ new.public = chore.public
        /\ new.known = TRUE /\ new.object.values = db.membership[key]
    BY <2>1 DEF ChoreFields
  <2>4. ChoreTyped(new)
    BY <2>2, <2>3 DEF ChoreTyped
  <2>5. new.object.values.membership_status = "JOINED" <=> IsMember(user, chore.id)
    BY <1>1, <1>2, <2>3 DEF IsMember
  <2>6. new.known /\ <<user, chore.id>> \in DOMAIN db.membership
    BY <1>1, <1>2, <2>3
  <2> QED
    BY <2>3, <2>4, <2>5, <2>6 DEF MemberKnown
<1>3. CASE key \notin DOMAIN db.membership
  <2>1. new = [chore EXCEPT !.known = FALSE, !.object = BlankMembership]
    BY <1>1, <1>3 DEF Membership
  <2>2. DOMAIN BlankMembership.values = {"membership_status"}
    BY DEF BlankMembership, Read
  <2>3. /\ DOMAIN new = ChoreFields /\ new.op = chore.op /\ new.id = chore.id /\ new.name = chore.name
        /\ new.mine = chore.mine /\ new.public = chore.public
        /\ new.known = FALSE /\ new.object = BlankMembership
    BY <2>1 DEF ChoreFields
  <2>4. ChoreTyped(new)
    BY <2>2, <2>3 DEF ChoreTyped
  <2>5. ~IsMember(user, chore.id)
    BY <1>1, <1>3 DEF IsMember
  <2>6. ~new.known /\ <<user, chore.id>> \notin DOMAIN db.membership
    BY <1>1, <1>3, <2>3
  <2> QED
    BY <2>3, <2>4, <2>5, <2>6 DEF MemberKnown
<1> QED
  BY <1>2, <1>3

\* The users stay who they are.
UsersStay ==
    VisitTyped' /\ \A w \in Visitor : visit'[w].user = visit[w].user

LEMMA VisitorMoves ==
    ASSUME VisitTyped, NEW v \in Visitor, NEW new, DOMAIN new = {"user", "listed", "room", "owner"},
           new.user = visit[v].user, new.listed \in BOOLEAN, visit' = [visit EXCEPT ![v] = new]
    PROVE  UsersStay
<1>1. /\ visit' = [w \in Visitor |-> visit'[w]]
      /\ \A w \in Visitor : visit'[w] = IF w = v THEN new ELSE visit[w]
  BY DEF VisitTyped
<1>2. VisitTyped'
  BY <1>1 DEF VisitTyped
<1> QED
  BY <1>1, <1>2 DEF UsersStay

LEMMA VisitMoves ==
    ASSUME VisitTyped, NEW v \in Visitor
    PROVE  /\ UNCHANGED visit => UsersStay
           /\ \A room : visit' = [visit EXCEPT ![v].room = room] => UsersStay
           /\ \A room, owner : visit' = [visit EXCEPT ![v] = [@ EXCEPT !.room = room, !.owner = owner]] => UsersStay
           /\ \A listed \in BOOLEAN : visit' = [visit EXCEPT ![v].listed = listed] => UsersStay
<1>0. DOMAIN visit[v] = {"user", "listed", "room", "owner"} /\ visit[v].listed \in BOOLEAN
  BY DEF VisitTyped
<1>1. ASSUME UNCHANGED visit PROVE UsersStay
  BY <1>1 DEF VisitTyped, UsersStay
<1>2. ASSUME NEW room, visit' = [visit EXCEPT ![v].room = room] PROVE UsersStay
  <2>1. PICK new : new = [visit[v] EXCEPT !.room = room]
    OBVIOUS
  <2>2. visit' = [visit EXCEPT ![v] = new]
    BY <1>2, <2>1
  <2>3. DOMAIN new = DOMAIN visit[v] /\ new.user = visit[v].user /\ new.listed = visit[v].listed
    BY <1>0, <2>1
  <2> QED
    BY <1>0, <2>2, <2>3, VisitorMoves
<1>3. ASSUME NEW room, NEW owner, visit' = [visit EXCEPT ![v] = [@ EXCEPT !.room = room, !.owner = owner]] PROVE UsersStay
  <2>1. PICK new : new = [visit[v] EXCEPT !.room = room, !.owner = owner]
    OBVIOUS
  <2>2. visit' = [visit EXCEPT ![v] = new]
    BY <1>3, <2>1
  <2>3. DOMAIN new = DOMAIN visit[v] /\ new.user = visit[v].user /\ new.listed = visit[v].listed
    BY <1>0, <2>1
  <2> QED
    BY <1>0, <2>2, <2>3, VisitorMoves
<1>4. ASSUME NEW listed \in BOOLEAN, visit' = [visit EXCEPT ![v].listed = listed] PROVE UsersStay
  <2>1. PICK new : new = [visit[v] EXCEPT !.listed = listed]
    OBVIOUS
  <2>2. visit' = [visit EXCEPT ![v] = new]
    BY <1>4, <2>1
  <2>3. DOMAIN new = DOMAIN visit[v] /\ new.user = visit[v].user /\ new.listed \in BOOLEAN
    BY <1>0, <2>1
  <2> QED
    BY <1>0, <2>2, <2>3, VisitorMoves
<1> QED
  BY <1>1, <1>2, <1>3, <1>4, Zenon

-----------------------------------------------------------------------------
(***************************************************************************)
(* Handlers, but for those of a log in and those that announce.            *)
(***************************************************************************)

NotTelling(chore) == chore.op \in {"CreateRoom", "RenameRoom", "DeleteRoom"} => chore.stage # "tell"

\* What a handler's step does to the tables, the clients and the users.
OthersStay(sid) ==
    /\ RowsMove(sid) /\ RowsTyped'
    /\ UsersStay /\ (\A w \in Visitor : visit'[w].listed = visit[w].listed)
    /\ puzzled \subseteq puzzled' /\ UNCHANGED lobby

\* How a request may end or go on, if it is none of those that announce it.
EndsQuietly(v, i, sid) ==
    /\ RoomsStay \/ sid \in puzzled'
    /\ \E ok : RepliedTo(v, i, [op |-> chores[v][i].op, ok |-> ok])
RequestGoesOn(v, i, new) ==
    /\ Passed(v, i, new) /\ ChoreTyped(new)
    /\ new.op = chores[v][i].op
GoesOnQuietly(v, i) ==
    /\ RoomsStay
    /\ \E new : /\ RequestGoesOn(v, i, new) /\ new.id = chores[v][i].id /\ NotTelling(new)
                /\ new.op \in {"RenameRoom", "BecomeMember", "JoinRoom", "AssignRole"}
GoesOnCreated(v, i, sid) ==
    \E new : /\ RequestGoesOn(v, i, new) /\ Tells(new, "CreateRoom", sid) /\ Created(sid, new.name)
GoesOnNamed(v, i, sid) ==
    \E new : /\ RequestGoesOn(v, i, new) /\ Tells(new, "RenameRoom", sid) /\ NamedAs(sid, new.name)
             /\ chores[v][i].id = sid
             /\ ~Quiet(sid) => sid \in puzzled'
GoesOnDropped(v, i, sid) ==
    \E new : /\ RequestGoesOn(v, i, new) /\ Tells(new, "DeleteRoom", sid) /\ Dropped(sid)
             /\ chores[v][i].id = sid /\ sid \in DOMAIN db.rooms

Handled(v, i, sid) ==
    /\ OthersStay(sid) /\ chores[v][i].op # "Auth" /\ NotTelling(chores[v][i])
    /\ \/ EndsQuietly(v, i, sid) \/ GoesOnQuietly(v, i)
       \/ GoesOnCreated(v, i, sid) \/ GoesOnNamed(v, i, sid) \/ GoesOnDropped(v, i, sid)

LEMMA AsideQuietly ==
    ASSUME RoomsBase, NEW v \in Visitor, NEW sid, UNCHANGED <<db, visit, lobby>>, puzzled \subseteq puzzled'
    PROVE  OthersStay(sid) /\ RoomsStay
<1>1. RowsMove(sid) /\ RoomsStay
  BY SameTablesMove DEF RoomsBase, LobbyInv
<1>2. UsersStay
  BY VisitMoves, Zenon DEF RoomsBase, TypesInv
<1>3. RowsTyped'
  BY DEF RoomsBase, TypesInv, RowsTyped
<1> QED
  BY <1>1, <1>2, <1>3 DEF OthersStay

LEMMA RefusedEnds ==
    ASSUME RoomsBase, NEW v \in Visitor, NEW i \in DOMAIN chores[v], NEW sid, Fail(v, i) \/ Succeed(v, i),
           RoomsStay \/ sid \in puzzled'
    PROVE  EndsQuietly(v, i, sid)
<1>1. PICK ok : Reply(v, i, [op |-> chores[v][i].op, ok |-> ok])
  BY DEF Fail, Succeed
<1>2. RepliedTo(v, i, [op |-> chores[v][i].op, ok |-> ok])
  BY <1>1, BaseSeqs, ReplyAnswers
<1> QED
  BY <1>2 DEF EndsQuietly

\* A commit: it goes on, or fails.
LEMMA CommitEnds ==
    ASSUME RoomsBase, NEW v \in Visitor, NEW i \in DOMAIN chores[v], NEW after, NEW id, NEW chore, NEW confusing,
           Commit(v, i, after, id, chore, confusing)
    PROVE  /\ puzzled \subseteq puzzled' /\ (db' = db \/ db' = after)
           /\ \/ db' = after /\ Passed(v, i, [chore EXCEPT !.stage = "tell"]) /\ (confusing => id \in puzzled')
              \/ EndsQuietly(v, i, id)
<1>1. CASE db' = after /\ Step(v, i, "tell", chore) /\ puzzled' = IF confusing THEN puzzled \cup {id} ELSE puzzled
  <2>1. Passed(v, i, [chore EXCEPT !.stage = "tell"])
    BY <1>1, BaseSeqs, StepPasses
  <2>2. puzzled \subseteq puzzled' /\ (confusing => id \in puzzled')
    BY <1>1
  <2> QED
    BY <1>1, <2>1, <2>2
<1>2. CASE db' \in {db, after} /\ Fail(v, i) /\ puzzled' = puzzled \cup {id}
  <2>1. id \in puzzled' /\ puzzled \subseteq puzzled'
    BY <1>2
  <2>2. EndsQuietly(v, i, id)
    BY <1>2, <2>1, RefusedEnds
  <2> QED
    BY <1>2, <2>1, <2>2
<1> QED
  BY <1>1, <1>2 DEF Commit

LEMMA ChoreShaped ==
    ASSUME RoomsBase, NEW v \in Visitor, NEW i \in DOMAIN chores[v]
    PROVE  DOMAIN chores[v][i] = ChoreFields /\ ChoreTyped(chores[v][i]) /\ IsSeq(chores[v])
<1>1. ChoreSound(chores[v][i]) /\ IsSeq(chores[v])
  BY DEF RoomsBase, LobbyInv, ChoresInv
<1>2. ChoreTyped(chores[v][i])
  BY DEF RoomsBase, TypesInv, BoxesTyped
<1> QED
  BY <1>1, <1>2 DEF ChoreSound

-----------------------------------------------------------------------------
LEMMA CreateHandled ==
    ASSUME RoomsBase, NEW v \in Visitor, NEW i \in DOMAIN chores[v], CreateRoom(v, i), UNCHANGED lobby
    PROVE  \E sid : Handled(v, i, sid)
<1>0. PICK id, user, chore, row, entry, after, told :
        /\ id = db.serial + 1 /\ user = visit[v].user /\ chore = chores[v][i]
        /\ row = InsertRooms(setOwnerId(setRoomName(BlankRoom, chore.name), user))
        /\ entry = InsertMembership(BlankMembership)
        /\ after = [db EXCEPT !.rooms = With(@, id, row), !.serial = id, !.membership = With(@, <<user, id>>, entry)]
        /\ told = [chore EXCEPT !.id = id]
  OBVIOUS
<1>1. Commit(v, i, after, id, told, FALSE) /\ chore.op = "CreateRoom" /\ chore.stage = "new" /\ UNCHANGED visit
  BY <1>0 DEF CreateRoom, At
<1>2. DOMAIN chore = ChoreFields /\ ChoreTyped(chore)
  BY <1>0, ChoreShaped
<1>3. PICK new : new = [told EXCEPT !.stage = "tell"]
  OBVIOUS
<1>4. /\ new.op = "CreateRoom" /\ new.stage = "tell" /\ new.id = id /\ new.name = chore.name
      /\ new.mine = chore.mine /\ new.public = chore.public /\ new.object = chore.object
  BY <1>0, <1>1, <1>2, <1>3 DEF ChoreFields
<1>5. id \in Nat
  BY <1>0 DEF RoomsBase, LobbyInv, TablesInv
<1>6. ChoreTyped(new)
  BY <1>1, <1>2, <1>4, <1>5 DEF ChoreTyped
<1>7. row.room_name = chore.name
  BY <1>0, InsertedRoom
<1>8. DOMAIN entry = {"membership_status"}
  BY <1>0 DEF InsertMembership, Inserted
<1>9. chore.name \in RoomText
  BY <1>2 DEF ChoreTyped
<1>10. /\ puzzled \subseteq puzzled' /\ (db' = db \/ db' = after)
       /\ \/ db' = after /\ Passed(v, i, new)
          \/ EndsQuietly(v, i, id)
  BY <1>1, <1>3, CommitEnds
<1>11. db' = after => RowsMove(id) /\ Created(id, chore.name) /\ RowsTyped'
  <2> SUFFICES ASSUME db' = after PROVE RowsMove(id) /\ Created(id, chore.name) /\ RowsTyped'
    OBVIOUS
  <2>1. PICK name : name = chore.name
    OBVIOUS
  <2>2. /\ db'.rooms = With(db.rooms, id, row) /\ db'.serial = id
        /\ db'.membership = With(db.membership, <<user, id>>, entry)
    BY <1>0 DEF RoomsBase, LobbyInv, TablesInv
  <2>3. TablesInv /\ RowsTyped /\ id = db.serial + 1 /\ row.room_name = name /\ name \in RoomText
    BY <1>0, <1>7, <1>9, <2>1 DEF RoomsBase, LobbyInv, TypesInv
  <2>4. RowsMove(id) /\ Created(id, name) /\ (name \in RoomText => RowsTyped')
    BY <1>8, <2>2, <2>3, CreatingMoves
  <2> QED
    BY <2>1, <2>3, <2>4
<1>12. db' = db => RowsMove(id) /\ RowsTyped'
  BY SameTablesMove DEF RoomsBase, LobbyInv, TypesInv, RowsTyped
<1>13. UsersStay /\ \A w \in Visitor : visit'[w].listed = visit[w].listed
  BY <1>1, VisitMoves, Zenon DEF RoomsBase, TypesInv
<1>14. OthersStay(id)
  BY <1>10, <1>11, <1>12, <1>13 DEF OthersStay
<1>15. CASE db' = after /\ Passed(v, i, new)
  <2>1. GoesOnCreated(v, i, id)
    BY <1>0, <1>1, <1>4, <1>6, <1>11, <1>15 DEF GoesOnCreated, RequestGoesOn, Tells
  <2> QED
    BY <1>0, <1>1, <1>14, <2>1 DEF Handled, NotTelling
<1>16. CASE EndsQuietly(v, i, id)
  BY <1>0, <1>1, <1>14, <1>16 DEF Handled, NotTelling
<1> QED
  BY <1>10, <1>15, <1>16

LEMMA RenameWriteHandled ==
    ASSUME RoomsBase, NEW v \in Visitor, NEW i \in DOMAIN chores[v], RenameWrite(v, i), UNCHANGED lobby
    PROVE  \E sid : Handled(v, i, sid)
<1>0. PICK id, chore, object, after, untold :
        /\ chore = chores[v][i] /\ id = chore.id /\ object = chore.row /\ after = UpdatedRoom(id, object)
        /\ untold = \E w \in Visitor : \E j \in Started(w) :
                       chores[w][j].op = "RenameRoom" /\ chores[w][j].id = id /\ chores[w][j].stage = "tell"
  OBVIOUS
<1>1. Commit(v, i, after, id, chore, untold) /\ chore.op = "RenameRoom" /\ chore.stage = "write" /\ UNCHANGED visit
  BY <1>0 DEF RenameWrite, At
<1>2. /\ DOMAIN chore = ChoreFields /\ ChoreTyped(chore)
      /\ object.dirty = {"room_name"} /\ object.values.room_name = chore.name
  <2>1. ChoreSound(chore)
    BY <1>0 DEF RoomsBase, LobbyInv, ChoresInv
  <2> QED
    BY <1>0, <1>1, <2>1, ChoreShaped DEF ChoreSound
<1>3. PICK new : new = [chore EXCEPT !.stage = "tell"]
  OBVIOUS
<1>4. SameErrand(chore, new, "tell")
  BY <1>2, <1>3, ErrandStepped, Zenon
<1>5. ChoreTyped(new)
  BY <1>2, <1>4, SameErrandTyped
<1>6. /\ puzzled \subseteq puzzled' /\ (db' = db \/ db' = after)
      /\ \/ db' = after /\ Passed(v, i, new) /\ (untold => id \in puzzled')
         \/ EndsQuietly(v, i, id)
  BY <1>1, <1>3, CommitEnds
<1>7. ~Quiet(id) => untold
  <2> SUFFICES ASSUME ~Quiet(id) PROVE untold
    OBVIOUS
  <2>1. PICK w \in Visitor : \E j \in DOMAIN chores[w] :
           chores[w][j].op = "RenameRoom" /\ chores[w][j].id = id /\ chores[w][j].stage = "tell"
    BY DEF Quiet, Announcing
  <2>2. PICK j \in DOMAIN chores[w] : chores[w][j].op = "RenameRoom" /\ chores[w][j].id = id /\ chores[w][j].stage = "tell"
    BY <2>1
  <2>3. j \in Started(w)
    BY <2>2 DEF Started
  <2> QED
    BY <1>0, <2>2, <2>3
<1>8. db' = after => RowsMove(id) /\ NamedAs(id, chore.name) /\ RowsTyped'
  <2> SUFFICES ASSUME db' = after PROVE RowsMove(id) /\ NamedAs(id, chore.name) /\ RowsTyped'
    OBVIOUS
  <2>1. db'.rooms = UpdatedRoom(id, object).rooms /\ db'.serial = db.serial /\ db'.membership = db.membership
    BY <1>0 DEF UpdatedRoom, RoomsBase, LobbyInv, TablesInv
  <2>2. TablesInv /\ RowsTyped /\ "room_name" \in object.dirty /\ object.values.room_name \in RoomText
    BY <1>2 DEF RoomsBase, LobbyInv, TypesInv, ChoreTyped
  <2> QED
    BY <1>2, <2>1, <2>2, UpdatingMoves
<1>9. db' = db => RowsMove(id) /\ RowsTyped'
  BY SameTablesMove DEF RoomsBase, LobbyInv, TypesInv, RowsTyped
<1>10. UsersStay /\ \A w \in Visitor : visit'[w].listed = visit[w].listed
  BY <1>1, VisitMoves, Zenon DEF RoomsBase, TypesInv
<1>11. OthersStay(id)
  BY <1>6, <1>8, <1>9, <1>10 DEF OthersStay
<1>12. CASE db' = after /\ Passed(v, i, new) /\ (untold => id \in puzzled')
  <2>1. GoesOnNamed(v, i, id)
    BY <1>0, <1>1, <1>4, <1>5, <1>7, <1>8, <1>12 DEF GoesOnNamed, RequestGoesOn, Tells, SameErrand
  <2> QED
    BY <1>0, <1>1, <1>11, <2>1 DEF Handled, NotTelling
<1>13. CASE EndsQuietly(v, i, id)
  BY <1>0, <1>1, <1>11, <1>13 DEF Handled, NotTelling
<1> QED
  BY <1>6, <1>12, <1>13

LEMMA DeleteHandled ==
    ASSUME RoomsBase, NEW v \in Visitor, NEW i \in DOMAIN chores[v], DeleteRoom(v, i), UNCHANGED lobby
    PROVE  \E sid : Handled(v, i, sid)
<1>0. PICK id, chore, keys, roles, after :
        /\ chore = chores[v][i] /\ id = chore.id
        /\ keys = {key \in DOMAIN db.membership : key[2] = id}
        /\ roles = Without(db.roles, {key \in DOMAIN db.roles : key[2] = id})
        /\ after = [db EXCEPT !.rooms = Without(@, {id}), !.membership = Without(@, keys), !.roles = roles]
  OBVIOUS
<1>1. /\ chore.op = "DeleteRoom" /\ chore.stage = "new" /\ UNCHANGED visit
      /\ \/ Refuse(v, i) /\ UNCHANGED db
         \/ id \in DOMAIN db.rooms /\ Commit(v, i, after, id, chore, FALSE)
  BY <1>0 DEF DeleteRoom, At
<1>2. DOMAIN chore = ChoreFields /\ ChoreTyped(chore)
  BY <1>0, ChoreShaped
<1>3. PICK new : new = [chore EXCEPT !.stage = "tell"]
  OBVIOUS
<1>4. SameErrand(chore, new, "tell")
  BY <1>2, <1>3, ErrandStepped, Zenon
<1>5. ChoreTyped(new)
  BY <1>2, <1>4, SameErrandTyped
<1>6. CASE Refuse(v, i) /\ UNCHANGED db
  <2>1. OthersStay(id) /\ RoomsStay
    BY <1>1, <1>6, AsideQuietly DEF Refuse
  <2>2. EndsQuietly(v, i, id)
    BY <1>6, <2>1, RefusedEnds DEF Refuse
  <2> QED
    BY <1>0, <1>1, <2>1, <2>2 DEF Handled, NotTelling
<1>7. CASE id \in DOMAIN db.rooms /\ Commit(v, i, after, id, chore, FALSE)
  <2>1. /\ puzzled \subseteq puzzled' /\ (db' = db \/ db' = after)
        /\ \/ db' = after /\ Passed(v, i, new)
           \/ EndsQuietly(v, i, id)
    BY <1>3, <1>7, CommitEnds
  <2>2. db' = after => RowsMove(id) /\ Dropped(id) /\ RowsTyped'
    <3> SUFFICES ASSUME db' = after PROVE RowsMove(id) /\ Dropped(id) /\ RowsTyped'
      OBVIOUS
    <3>1. /\ db'.rooms = Without(db.rooms, {id}) /\ db'.serial = db.serial
          /\ db'.membership = Without(db.membership, keys)
      BY <1>0 DEF RoomsBase, LobbyInv, TablesInv
    <3>2. TablesInv /\ RowsTyped /\ keys = {key \in DOMAIN db.membership : key[2] = id}
      BY <1>0 DEF RoomsBase, LobbyInv, TypesInv
    <3> QED
      BY <3>1, <3>2, DeletingMoves
  <2>3. db' = db => RowsMove(id) /\ RowsTyped'
    BY SameTablesMove DEF RoomsBase, LobbyInv, TypesInv, RowsTyped
  <2>4. UsersStay /\ \A w \in Visitor : visit'[w].listed = visit[w].listed
    BY <1>1, VisitMoves, Zenon DEF RoomsBase, TypesInv
  <2>5. OthersStay(id)
    BY <2>1, <2>2, <2>3, <2>4 DEF OthersStay
  <2>6. CASE db' = after /\ Passed(v, i, new)
    <3>1. GoesOnDropped(v, i, id)
      BY <1>0, <1>1, <1>4, <1>5, <1>7, <2>2, <2>6 DEF GoesOnDropped, RequestGoesOn, Tells, SameErrand
    <3> QED
      BY <1>0, <1>1, <2>5, <3>1 DEF Handled, NotTelling
  <2>7. CASE EndsQuietly(v, i, id)
    BY <1>0, <1>1, <2>5, <2>7 DEF Handled, NotTelling
  <2> QED
    BY <2>1, <2>6, <2>7
<1> QED
  BY <1>1, <1>6, <1>7

Quietly(op) == op \in {"RenameRoom", "BecomeMember", "JoinRoom", "AssignRole"}

LEMMA RefuseHandled ==
    ASSUME RoomsBase, NEW v \in Visitor, NEW i \in DOMAIN chores[v], NEW sid, OthersStay(sid), RoomsStay \/ sid \in puzzled',
           Quietly(chores[v][i].op), NotTelling(chores[v][i]), Fail(v, i) \/ Succeed(v, i)
    PROVE  Handled(v, i, sid)
<1>1. EndsQuietly(v, i, sid)
  BY RefusedEnds
<1> QED
  BY <1>1 DEF Handled, Quietly

LEMMA StepHandled ==
    ASSUME RoomsBase, NEW v \in Visitor, NEW i \in DOMAIN chores[v], NEW sid, OthersStay(sid), RoomsStay,
           Quietly(chores[v][i].op), NotTelling(chores[v][i]),
           NEW stage, NEW chore, Step(v, i, stage, chore), ChoreTyped(chore), DOMAIN chore = ChoreFields,
           chore.op = chores[v][i].op, chore.id = chores[v][i].id, stage # "tell" \/ chore.op # "RenameRoom"
    PROVE  Handled(v, i, sid)
<1>1. PICK new : new = [chore EXCEPT !.stage = stage]
  OBVIOUS
<1>2. Passed(v, i, new)
  BY <1>1, BaseSeqs, StepPasses
<1>3. SameErrand(chore, new, stage)
  BY <1>1, ErrandStepped, Zenon
<1>4. ChoreTyped(new)
  BY <1>3, SameErrandTyped
<1>5. GoesOnQuietly(v, i)
  BY <1>2, <1>3, <1>4 DEF GoesOnQuietly, RequestGoesOn, SameErrand, NotTelling, Quietly
<1> QED
  BY <1>5 DEF Handled, Quietly

LEMMA RenameReadHandled ==
    ASSUME RoomsBase, NEW v \in Visitor, NEW i \in DOMAIN chores[v], RenameRead(v, i), UNCHANGED lobby
    PROVE  \E sid : Handled(v, i, sid)
<1>0. PICK chore, row, told : /\ chore = chores[v][i] /\ row = setRoomName(Rooms(db.rooms[chore.id]), chore.name)
                              /\ told = [chore EXCEPT !.row = row]
  OBVIOUS
<1>1. /\ chore.op = "RenameRoom" /\ chore.stage = "new" /\ UNCHANGED <<db, visit>>
      /\ Refuse(v, i) \/ Go(v, i, "write", told)
  BY <1>0 DEF RenameRead, At
<1>2. OthersStay(chore.id) /\ RoomsStay
  BY <1>1, AsideQuietly DEF Refuse, Go
<1>3. Quietly(chore.op) /\ NotTelling(chore)
  BY <1>1 DEF Quietly, NotTelling
<1>4. CASE Refuse(v, i)
  BY <1>0, <1>2, <1>3, <1>4, RefuseHandled DEF Refuse
<1>5. CASE Go(v, i, "write", told)
  <2>1. DOMAIN chore = ChoreFields /\ ChoreTyped(chore)
    BY <1>0, ChoreShaped
  <2>2. DOMAIN told = ChoreFields /\ told.op = chore.op /\ told.id = chore.id /\ ChoreTyped(told)
    BY <1>0, <2>1 DEF ChoreFields, ChoreTyped
  <2> QED
    BY <1>0, <1>2, <1>3, <1>5, <2>2, StepHandled DEF Go
<1> QED
  BY <1>1, <1>4, <1>5

LEMMA MemberReadHandled ==
    ASSUME RoomsBase, NEW v \in Visitor, NEW i \in DOMAIN chores[v], BecomeMemberRead(v, i), UNCHANGED lobby
    PROVE  \E sid : Handled(v, i, sid)
<1>0. PICK chore, told, user : chore = chores[v][i] /\ told = Membership(v, chore) /\ user = visit[v].user
  OBVIOUS
<1>1. /\ chore.op = "BecomeMember" /\ chore.stage = "new" /\ UNCHANGED <<db, visit>>
      /\ Refuse(v, i) \/ Go(v, i, "write", told)
  BY <1>0 DEF BecomeMemberRead, At
<1>2. OthersStay(chore.id) /\ RoomsStay
  BY <1>1, AsideQuietly DEF Refuse, Go
<1>3. Quietly(chore.op) /\ NotTelling(chore)
  BY <1>1 DEF Quietly, NotTelling
<1>4. CASE Refuse(v, i)
  BY <1>0, <1>2, <1>3, <1>4, RefuseHandled DEF Refuse
<1>5. CASE Go(v, i, "write", told)
  <2>1. DOMAIN chore = ChoreFields /\ ChoreTyped(chore)
    BY <1>0, ChoreShaped
  <2>2. DOMAIN told = ChoreFields /\ told.op = chore.op /\ told.id = chore.id /\ ChoreTyped(told)
    <3>1. MemberKnown(told, chore, user)
      BY <1>0, <2>1, MembershipRead DEF RoomsBase
    <3> QED
      BY <3>1 DEF MemberKnown
  <2> QED
    BY <1>0, <1>2, <1>3, <1>5, <2>2, StepHandled DEF Go
<1> QED
  BY <1>1, <1>4, <1>5

\* A failure to enroll is ignored.
LEMMA EnrolledAside ==
    ASSUME RoomsBase, NEW v \in Visitor, NEW id, NEW chore, ChoreTyped(chore), setUserMembershipStatus(v, id, chore),
           UNCHANGED <<visit, lobby>>
    PROVE  OthersStay(id) /\ RoomsStay
<1>1. puzzled \subseteq puzzled' /\ (db' = db \/ db' = Enrolled(v, id, chore.known, chore.object))
  BY DEF setUserMembershipStatus
<1>2. RowsMove(id) /\ RoomsStay /\ RowsTyped'
  <2>1. CASE db' = db
    BY <2>1, SameTablesMove DEF RoomsBase, LobbyInv, TypesInv, RowsTyped
  <2>2. CASE db' = Enrolled(v, id, chore.known, chore.object)
    <3>1. PICK known, object : known = chore.known /\ object = chore.object
      OBVIOUS
    <3>2. DOMAIN object.values = {"membership_status"} /\ db' = Enrolled(v, id, known, object)
      BY <2>2, <3>1 DEF ChoreTyped
    <3>3. PICK self : self = visit[v].user
      OBVIOUS
    <3>4. TablesInv /\ RowsTyped
      BY DEF RoomsBase, LobbyInv, TypesInv
    <3> QED
      BY <3>2, <3>3, <3>4, EnrollingMoves
  <2> QED
    BY <1>1, <2>1, <2>2
<1>3. UsersStay /\ \A w \in Visitor : visit'[w].listed = visit[w].listed
  BY VisitMoves, Zenon DEF RoomsBase, TypesInv
<1> QED
  BY <1>1, <1>2, <1>3 DEF OthersStay

LEMMA MemberWriteHandled ==
    ASSUME RoomsBase, NEW v \in Visitor, NEW i \in DOMAIN chores[v], BecomeMemberWrite(v, i), UNCHANGED lobby
    PROVE  \E sid : Handled(v, i, sid)
<1>0. PICK chore, id : chore = chores[v][i] /\ id = chore.id
  OBVIOUS
<1>1. /\ chore.op = "BecomeMember" /\ chore.stage = "write" /\ UNCHANGED visit
      /\ setUserMembershipStatus(v, id, chore) /\ Succeed(v, i)
  BY <1>0 DEF BecomeMemberWrite, At
<1>2. OthersStay(id) /\ RoomsStay
  BY <1>0, <1>1, ChoreShaped, EnrolledAside
<1>3. Quietly(chore.op) /\ NotTelling(chore)
  BY <1>1 DEF Quietly, NotTelling
<1> QED
  BY <1>0, <1>1, <1>2, <1>3, RefuseHandled

LEMMA JoinWriteHandled ==
    ASSUME RoomsBase, NEW v \in Visitor, NEW i \in DOMAIN chores[v], JoinWrite(v, i), UNCHANGED lobby
    PROVE  \E sid : Handled(v, i, sid)
<1>0. PICK chore, id : chore = chores[v][i] /\ id = chore.id
  OBVIOUS
<1>1. /\ chore.op = "JoinRoom" /\ chore.stage = "write" /\ UNCHANGED visit
      /\ setUserMembershipStatus(v, id, chore) /\ Step(v, i, "enter", chore)
  BY <1>0 DEF JoinWrite, At
<1>2. OthersStay(id) /\ RoomsStay
  BY <1>0, <1>1, ChoreShaped, EnrolledAside
<1>3. Quietly(chore.op) /\ NotTelling(chore)
  BY <1>1 DEF Quietly, NotTelling
<1>4. DOMAIN chore = ChoreFields /\ ChoreTyped(chore)
  BY <1>0, ChoreShaped
<1> QED
  BY <1>0, <1>1, <1>2, <1>3, <1>4, StepHandled

\* Steps that only write a session.
LEMMA SessionAside ==
    ASSUME RoomsBase, NEW v \in Visitor, NEW sid, UNCHANGED <<db, lobby>>, puzzled \subseteq puzzled',
           UsersStay, \A w \in Visitor : visit'[w].listed = visit[w].listed
    PROVE  OthersStay(sid) /\ RoomsStay
<1>1. RowsMove(sid) /\ RoomsStay
  BY SameTablesMove DEF RoomsBase, LobbyInv
<1>2. RowsTyped'
  BY DEF RoomsBase, TypesInv, RowsTyped
<1> QED
  BY <1>1, <1>2 DEF OthersStay

LEMMA JoinReadHandled ==
    ASSUME RoomsBase, NEW v \in Visitor, NEW i \in DOMAIN chores[v], JoinRead(v, i), UNCHANGED lobby
    PROVE  \E sid : Handled(v, i, sid)
<1>0. PICK chore, found, row, told, joined :
         /\ chore = chores[v][i] /\ found = Membership(v, chore)
         /\ row = Rooms(db.rooms[chore.id]) /\ told = [found EXCEPT !.row = row]
         /\ joined = (found.known /\ found.object.values.membership_status = "JOINED")
  OBVIOUS
<1>1. /\ chore.op = "JoinRoom" /\ chore.stage = "new" /\ UNCHANGED db /\ visit' = [visit EXCEPT ![v].room = 0]
      /\ Refuse(v, i) \/ Go(v, i, IF joined THEN "enter" ELSE "write", told)
  BY <1>0 DEF JoinRead, At
<1>2. UsersStay /\ \A w \in Visitor : visit'[w].listed = visit[w].listed
  <2>1. UsersStay
    BY <1>1, VisitMoves, Zenon DEF RoomsBase, TypesInv
  <2>2. \A w \in Visitor : visit'[w].listed = visit[w].listed
    BY <1>1 DEF RoomsBase, TypesInv, VisitTyped
  <2> QED
    BY <2>1, <2>2
<1>3. OthersStay(chore.id) /\ RoomsStay
  BY <1>1, <1>2, SessionAside DEF Refuse, Go
<1>4. Quietly(chore.op) /\ NotTelling(chore)
  BY <1>1 DEF Quietly, NotTelling
<1>5. CASE Refuse(v, i)
  BY <1>0, <1>3, <1>4, <1>5, RefuseHandled DEF Refuse
<1>6. CASE Go(v, i, IF joined THEN "enter" ELSE "write", told)
  <2>1. DOMAIN chore = ChoreFields /\ ChoreTyped(chore)
    BY <1>0, ChoreShaped
  <2>2. PICK user : user = visit[v].user
    OBVIOUS
  <2>3. DOMAIN found = ChoreFields /\ found.op = chore.op /\ found.id = chore.id /\ ChoreTyped(found)
    <3>1. MemberKnown(found, chore, user)
      BY <1>0, <2>1, <2>2, MembershipRead DEF RoomsBase
    <3> QED
      BY <3>1 DEF MemberKnown
  <2>4. DOMAIN told = ChoreFields /\ told.op = chore.op /\ told.id = chore.id /\ ChoreTyped(told)
    BY <1>0, <2>3 DEF ChoreFields, ChoreTyped
  <2>5. PICK stage : stage = (IF joined THEN "enter" ELSE "write") /\ stage # "tell"
    OBVIOUS
  <2>6. Step(v, i, stage, told)
    BY <1>6, <2>5 DEF Go
  <2> QED
    BY <1>0, <1>3, <1>4, <2>4, <2>5, <2>6, StepHandled
<1> QED
  BY <1>1, <1>5, <1>6

LEMMA JoinEnterHandled ==
    ASSUME RoomsBase, NEW v \in Visitor, NEW i \in DOMAIN chores[v], JoinEnter(v, i), UNCHANGED lobby
    PROVE  \E sid : Handled(v, i, sid)
<1>0. PICK chore, owner : chore = chores[v][i] /\ owner = (chore.row.values.owner_id = visit[v].user)
  OBVIOUS
<1>1. /\ chore.op = "JoinRoom" /\ chore.stage = "enter" /\ UNCHANGED <<db, puzzled>> /\ Succeed(v, i)
      /\ visit' = [visit EXCEPT ![v] = [@ EXCEPT !.room = chore.id, !.owner = owner]]
  BY <1>0 DEF JoinEnter, At
<1>2. UsersStay /\ \A w \in Visitor : visit'[w].listed = visit[w].listed
  <2>1. UsersStay
    BY <1>1, VisitMoves, Zenon DEF RoomsBase, TypesInv
  <2>2. \A w \in Visitor : visit'[w].listed = visit[w].listed
    BY <1>1 DEF RoomsBase, TypesInv, VisitTyped
  <2> QED
    BY <2>1, <2>2
<1>3. OthersStay(chore.id) /\ RoomsStay
  BY <1>1, <1>2, SessionAside
<1>4. Quietly(chore.op) /\ NotTelling(chore)
  BY <1>1 DEF Quietly, NotTelling
<1> QED
  BY <1>0, <1>1, <1>3, <1>4, RefuseHandled

LEMMA TransferCheckHandled ==
    ASSUME RoomsBase, NEW v \in Visitor, NEW i \in DOMAIN chores[v], TransferCheck(v, i), UNCHANGED lobby
    PROVE  \E sid : Handled(v, i, sid)
<1>0. PICK chore : chore = chores[v][i]
  OBVIOUS
<1>1. /\ chore.op = "AssignRole" /\ chore.stage = "new" /\ UNCHANGED <<db, visit>>
      /\ Refuse(v, i) \/ Go(v, i, "read", chore)
  BY <1>0 DEF TransferCheck, At
<1>2. OthersStay(chore.id) /\ RoomsStay
  BY <1>1, AsideQuietly DEF Refuse, Go
<1>3. Quietly(chore.op) /\ NotTelling(chore)
  BY <1>1 DEF Quietly, NotTelling
<1>4. DOMAIN chore = ChoreFields /\ ChoreTyped(chore)
  BY <1>0, ChoreShaped
<1>5. CASE Refuse(v, i)
  BY <1>0, <1>2, <1>3, <1>5, RefuseHandled DEF Refuse
<1>6. CASE Go(v, i, "read", chore)
  BY <1>0, <1>2, <1>3, <1>4, <1>6, StepHandled DEF Go
<1> QED
  BY <1>1, <1>5, <1>6

LEMMA TransferReadHandled ==
    ASSUME RoomsBase, NEW v \in Visitor, NEW i \in DOMAIN chores[v], TransferRead(v, i), UNCHANGED lobby
    PROVE  \E sid : Handled(v, i, sid)
<1>0. PICK chore, row, told : /\ chore = chores[v][i] /\ row = Rooms(db.rooms[chore.id])
                              /\ told = [chore EXCEPT !.row = row]
  OBVIOUS
<1>1. /\ chore.op = "AssignRole" /\ chore.stage = "read" /\ UNCHANGED <<db, visit>>
      /\ Refuse(v, i) \/ Go(v, i, "write", told)
  BY <1>0 DEF TransferRead, At
<1>2. OthersStay(chore.id) /\ RoomsStay
  BY <1>1, AsideQuietly DEF Refuse, Go
<1>3. Quietly(chore.op) /\ NotTelling(chore)
  BY <1>1 DEF Quietly, NotTelling
<1>4. DOMAIN chore = ChoreFields /\ ChoreTyped(chore)
  BY <1>0, ChoreShaped
<1>5. CASE Refuse(v, i)
  BY <1>0, <1>2, <1>3, <1>5, RefuseHandled DEF Refuse
<1>6. CASE Go(v, i, "write", told)
  <2>2. DOMAIN told = ChoreFields /\ told.op = chore.op /\ told.id = chore.id /\ ChoreTyped(told)
    BY <1>0, <1>4 DEF ChoreFields, ChoreTyped
  <2> QED
    BY <1>0, <1>1, <1>2, <1>3, <1>6, <2>2, StepHandled DEF Go
<1> QED
  BY <1>1, <1>5, <1>6

LEMMA TransferTellHandled ==
    ASSUME RoomsBase, NEW v \in Visitor, NEW i \in DOMAIN chores[v], TransferTell(v, i), UNCHANGED lobby
    PROVE  \E sid : Handled(v, i, sid)
<1>0. PICK chore, theirs : /\ chore = chores[v][i]
                           /\ theirs = {w \in Visitor : visit[w].listed /\ visit[w].user \in {chore.former, chore.user}}
  OBVIOUS
<1>1. /\ chore.op = "AssignRole" /\ chore.stage = "tell" /\ UNCHANGED <<db, puzzled>> /\ Succeed(v, i)
      /\ visit' = [w \in Visitor |-> IF w \in theirs /\ visit[w].room = chore.id
                                     THEN [visit[w] EXCEPT !.owner = visit[w].user = chore.user] ELSE visit[w]]
  BY <1>0 DEF TransferTell, At
<1>2. UsersStay /\ \A w \in Visitor : visit'[w].listed = visit[w].listed
  <2>1. \A w \in Visitor : DOMAIN visit'[w] = DOMAIN visit[w] /\ visit'[w].user = visit[w].user /\ visit'[w].listed = visit[w].listed
    BY <1>1 DEF RoomsBase, TypesInv, VisitTyped
  <2>2. visit' = [w \in Visitor |-> visit'[w]]
    BY <1>1
  <2> QED
    BY <2>1, <2>2 DEF RoomsBase, TypesInv, VisitTyped, UsersStay
<1>3. OthersStay(chore.id) /\ RoomsStay
  BY <1>1, <1>2, SessionAside
<1>4. Quietly(chore.op) /\ NotTelling(chore)
  BY <1>1 DEF Quietly, NotTelling
<1> QED
  BY <1>0, <1>1, <1>3, <1>4, RefuseHandled

LEMMA TransferWriteHandled ==
    ASSUME RoomsBase, NEW v \in Visitor, NEW i \in DOMAIN chores[v], TransferWrite(v, i), UNCHANGED lobby
    PROVE  \E sid : Handled(v, i, sid)
<1>0. PICK chore, id, user, former, object, moved, after, told :
        /\ chore = chores[v][i] /\ id = chore.id /\ user = chore.user /\ former = chore.row.values.owner_id
        /\ object = setOwnerId(chore.row, user) /\ moved = UpdatedRoom(id, object)
        /\ after = IF former = user THEN moved ELSE [moved EXCEPT !.roles = Moderating(@, <<former, id>>)]
        /\ told = [chore EXCEPT !.former = former]
  OBVIOUS
<1>1. /\ chore.op = "AssignRole" /\ chore.stage = "write" /\ UNCHANGED visit
      /\ \/ Refuse(v, i) /\ UNCHANGED db
         \/ Commit(v, i, after, id, told, FALSE)
  BY <1>0 DEF TransferWrite, At
<1>2. DOMAIN chore = ChoreFields /\ ChoreTyped(chore) /\ chore.row.dirty = {}
  <2>1. ChoreSound(chore)
    BY <1>0 DEF RoomsBase, LobbyInv, ChoresInv
  <2> QED
    BY <1>0, <1>1, <2>1, ChoreShaped DEF ChoreSound
<1>3. PICK new : new = [told EXCEPT !.stage = "tell"]
  OBVIOUS
<1>4. SameErrand(chore, new, "tell")
  BY <1>0, <1>2, <1>3, ErrandStepped
<1>5. ChoreTyped(new)
  BY <1>2, <1>4, SameErrandTyped
<1>6. Quietly(chore.op) /\ NotTelling(chore)
  BY <1>1 DEF Quietly, NotTelling
<1>7. CASE Refuse(v, i) /\ UNCHANGED db
  <2>1. OthersStay(id) /\ RoomsStay
    BY <1>1, <1>7, AsideQuietly DEF Refuse
  <2> QED
    BY <1>0, <1>6, <1>7, <2>1, RefuseHandled DEF Refuse
<1>8. CASE Commit(v, i, after, id, told, FALSE)
  <2>1. /\ puzzled \subseteq puzzled' /\ (db' = db \/ db' = after)
        /\ \/ db' = after /\ Passed(v, i, new)
           \/ EndsQuietly(v, i, id)
    BY <1>3, <1>8, CommitEnds
  <2>2. db' = after => RowsMove(id) /\ RoomsStay /\ RowsTyped'
    <3> SUFFICES ASSUME db' = after PROVE RowsMove(id) /\ RoomsStay /\ RowsTyped'
      OBVIOUS
    <3>1. "room_name" \notin object.dirty
      BY <1>0, <1>2 DEF setOwnerId, Set
    <3>2. DOMAIN moved = DOMAIN db
      BY <1>0 DEF UpdatedRoom
    <3>3. after.rooms = moved.rooms /\ after.serial = moved.serial /\ after.membership = moved.membership
      BY <1>0, <3>2 DEF RoomsBase, LobbyInv, TablesInv
    <3>4. moved.serial = db.serial /\ moved.membership = db.membership
      BY <1>0 DEF UpdatedRoom, RoomsBase, LobbyInv, TablesInv
    <3>5. db'.rooms = UpdatedRoom(id, object).rooms /\ db'.serial = db.serial /\ db'.membership = db.membership
      BY <1>0, <3>3, <3>4
    <3>6. TablesInv /\ RowsTyped
      BY DEF RoomsBase, LobbyInv, TypesInv
    <3> QED
      BY <3>1, <3>5, <3>6, UpdatingMoves
  <2>3. db' = db => RowsMove(id) /\ RoomsStay /\ RowsTyped'
    BY SameTablesMove DEF RoomsBase, LobbyInv, TypesInv, RowsTyped
  <2>4. UsersStay /\ \A w \in Visitor : visit'[w].listed = visit[w].listed
    BY <1>1, VisitMoves, Zenon DEF RoomsBase, TypesInv
  <2>5. OthersStay(id) /\ RoomsStay
    BY <2>1, <2>2, <2>3, <2>4 DEF OthersStay
  <2>6. CASE Passed(v, i, new)
    <3>1. GoesOnQuietly(v, i)
      BY <1>0, <1>1, <1>4, <1>5, <2>5, <2>6 DEF GoesOnQuietly, RequestGoesOn, SameErrand, NotTelling
    <3> QED
      BY <1>0, <1>1, <1>6, <2>5, <3>1 DEF Handled
  <2>7. CASE EndsQuietly(v, i, id)
    BY <1>0, <1>1, <1>6, <2>5, <2>7 DEF Handled
  <2> QED
    BY <2>1, <2>6, <2>7
<1> QED
  BY <1>1, <1>7, <1>8

\* Every step but announcements and log ins.
LEMMA AllHandled ==
    ASSUME RoomsBase, NEW v \in Visitor, NEW i \in DOMAIN chores[v], UNCHANGED lobby,
           \/ CreateRoom(v, i) \/ RenameRead(v, i) \/ RenameWrite(v, i) \/ DeleteRoom(v, i)
           \/ BecomeMemberRead(v, i) \/ BecomeMemberWrite(v, i) \/ JoinRead(v, i) \/ JoinWrite(v, i) \/ JoinEnter(v, i)
           \/ TransferCheck(v, i) \/ TransferRead(v, i) \/ TransferWrite(v, i) \/ TransferTell(v, i)
    PROVE  \E sid : Handled(v, i, sid)
BY CreateHandled, RenameReadHandled, RenameWriteHandled, DeleteHandled, MemberReadHandled, MemberWriteHandled,
   JoinReadHandled, JoinWriteHandled, JoinEnterHandled, TransferCheckHandled, TransferReadHandled,
   TransferWriteHandled, TransferTellHandled

=============================================================================
