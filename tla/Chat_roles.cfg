SPECIFICATION ScenarioSpec
CONSTANTS
    None = None
    dave = dave
    MaxStrays = 1
    c1 = c1
    c2 = c2
    t1 = t1
    t2 = t2
    t3 = t3
    alice = alice
    bob = bob
    carol = carol
    lobby = lobby
    den = den
    Conn = {c1, c2}
    User = {alice, bob, carol, dave}
    Room = {lobby}
    Task = {t1, t2}
    Request <- RoleRequests
    Admins = {carol}
    PrivateRooms = {}
    Accounts0 = {{alice, bob}, {alice, bob, dave}, {alice, bob, carol}}
    Owner0 <- AliceOwnsLobby
SYMMETRY Symmetry
INVARIANTS
    TypeOK
    UserRegistrySound
    CachedRightsAreTrue
PROPERTIES
    IteratorsStayValid
    HeldSessionsAreStable
    OldOwnersStayModerators
CHECK_DEADLOCK FALSE
