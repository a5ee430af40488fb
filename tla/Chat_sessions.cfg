SPECIFICATION ScenarioSpec
CONSTANTS
    None = None
    c1 = c1
    c2 = c2
    t1 = t1
    t2 = t2
    t3 = t3
    alice = alice
    bob = bob
    carol = carol
    lobby = lobby
    den = den
    Conn = {c1, c2}
    User = {alice, bob, carol}
    Room = {lobby, den}
    Task = {t1, t2}
    Request <- AnyRequest
    Admins = {}
    PrivateRooms = {}
    Accounts0 = {{alice}, {alice, carol}}
    Owner0 <- AliceOwnsLobby
SYMMETRY Symmetry
INVARIANTS
    SessionsShaped
    UsersAreRegistered
    RoomRegistrySound
    MembersAreListed
CHECK_DEADLOCK FALSE
