SPECIFICATION PatientSpec
CONSTANTS
    None = None
    c1 = c1
    c2 = c2
    t1 = t1
    t2 = t2
    t3 = t3
    alice = alice
    bob = bob
    carol = carol
    lobby = lobby
    den = den
    Conn = {c1}
    User = {alice}
    Room = {lobby}
    Task = {t1, t2, t3}
    Request <- LogoutRequests
    Admins = {}
    PrivateRooms = {}
    Accounts0 = {{alice}}
    Owner0 <- AliceOwnsLobby
SYMMETRY Symmetry
INVARIANTS
    ClosedAreForgotten
CHECK_DEADLOCK FALSE
