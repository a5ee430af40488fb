--------------------------------- MODULE Rows --------------------------------
(***************************************************************************)
(* The row objects through which the handlers read and write the database. *)
(* An object has the values it was read with or given, and remembers the   *)
(* columns that were set: an update writes those, an insertion leaves the  *)
(* others to their defaults.  A handler may hold an object over several    *)
(* awaits while others write the row; columns no handler reads or writes   *)
(* are left out.                                                           *)
(***************************************************************************)
CONSTANTS NULL

Read(row) == [values |-> row, dirty |-> {}]

Set(object, column, value) ==
    [values |-> [object.values EXCEPT ![column] = value], dirty |-> object.dirty \cup {column}]

\* (mutation: an update writes every column, as it was read)
AllColumns(object) == DOMAIN object.values

updateColumns(object) == object.dirty

Updated(row, object) ==
    [column \in DOMAIN row |->
        IF column \in updateColumns(object) THEN object.values[column] ELSE row[column]]

\* What is not set gets the default of its column.
Inserted(object, defaults) ==
    [column \in DOMAIN defaults |->
        IF column \in object.dirty THEN object.values[column] ELSE defaults[column]]

\* A table keyed by other columns than the ids of its rows.
With(table, key, row) == [other \in DOMAIN table \cup {key} |-> IF other = key THEN row ELSE table[other]]

-----------------------------------------------------------------------------
\* The tables' classes.
Users(row)                      == Read(row)
setUsername(user, name)         == Set(user, "username", name)
setHashPassword(user, hash)     == Set(user, "hash_password", hash)
setSalt(user, salt)             == Set(user, "salt", salt)
UpdateUsers(row, user)          == Updated(row, user)
BlankUser                       == Read([username |-> NULL, hash_password |-> NULL, salt |-> NULL])
InsertUsers(user)               == Inserted(user, BlankUser.values)

Rooms(row)                      == Read(row)
setRoomName(room, name)         == Set(room, "room_name", name)
setOwnerId(room, user)          == Set(room, "owner_id", user)
UpdateRooms(row, room)          == Updated(row, room)
BlankRoom                       == Read([room_name |-> NULL, owner_id |-> NULL])
InsertRooms(room)               == Inserted(room, BlankRoom.values)

RoomMembership(row)             == Read(row)
setMembershipStatus(row, value) == Set(row, "membership_status", value)
UpdateMembership(row, object)   == Updated(row, object)
BlankMembership                 == Read([membership_status |-> NULL])
InsertMembership(object)        == Inserted(object, [membership_status |-> "INVITED"])

UserRoomData(row)               == Read(row)
setIsModerator(row, value)      == Set(row, "is_moderator", value)
UpdateUserRoomData(row, object) == Updated(row, object)
BlankUserRoomData               == Read([is_moderator |-> NULL])
InsertUserRoomData(object)      == Inserted(object, [is_moderator |-> FALSE])

=============================================================================
