SPECIFICATION FairSpec
CONSTANTS
    None = None
    c1 = c1
    c2 = c2
    t1 = t1
    t2 = t2
    t3 = t3
    alice = alice
    bob = bob
    carol = carol
    lobby = lobby
    den = den
    Conn = {c1}
    User = {alice, bob}
    Room = {lobby}
    Task = {t1, t2, t3}
    Request <- BurstRequests
    Admins = {alice}
    PrivateRooms = {lobby}
    Accounts0 = {{alice, bob}}
    Owner0 <- AliceOwnsLobby
PROPERTIES
    ClosedConnectionsDrain
CHECK_DEADLOCK FALSE
