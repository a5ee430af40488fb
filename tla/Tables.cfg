SPECIFICATION MCSpec
CONSTANTS
    NULL = NULL
    a1 = a1
    a2 = a2
    Line = {a1, a2}
    Name = {"ann", "bob"}
    Password = {"old", "new"}
    MaxClicks = 3
    MaxFailures = 1
    Visitor = {a1, a2}
    Member = {1, 2}
    RoomName = {"hall", "den"}
    MaxErrands = 3
    MaxFaults = 1
INVARIANTS
    PasswordsHold
    NamesAreTrue
    RoomsAreTrue
    ColumnsAreKept
CHECK_DEADLOCK FALSE
