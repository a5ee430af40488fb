SPECIFICATION MCSpec
CONSTANTS
    None = None
    lobby = lobby
    den = den
    w1 = w1
    f1 = f1
    f2 = f2
    Room = {lobby, den}
    Writer = {w1}
    Frame = {f1, f2}
    Chunk = 2
    MaxShown = 3
    MaxRows = 5
    MaxGone = 1
    MaxRequests <- Requests
    MaxAsked = 2
    Rows0 <- Histories
SYMMETRY Symmetry
INVARIANTS
    OnlyThisRoomsMessages
    LoadingIsAnswered
    PagesJoinUp
    NothingIsMissed
    DeletedStayAway
CHECK_DEADLOCK FALSE
