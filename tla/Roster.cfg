SPECIFICATION MCSpec
CONSTANTS
    c1 = c1
    c2 = c2
    c3 = c3
    r1 = r1
    r2 = r2
    NoRoom = NoRoom
    Conn = {c1, c2, c3}
    User = {1, 2, 3}
    Room = {r1, r2}
    UserOf <- Users
    Name = {1, 2, 3, 4}
    FirstOwner = 1
    MaxRequests = 5
INVARIANTS
    ListsAreTrue
    MenusAreHonoured
    TypingEnds
CHECK_DEADLOCK FALSE
