SPECIFICATION FairSpec
CONSTANTS
    r1 = r1
    r2 = r2
    w1 = w1
    w2 = w2
    t1 = t1
    t2 = t2
    Nobody = Nobody
    Coro <- MCCoro
    Thread <- MCThread
    Home <- MCHome
    Mode <- MCMode
INVARIANTS
    TypeOK
    StateCountsOwners
    ThreadAffinity
    ResumedOnce
PROPERTIES
    ImplementsRWLock
    BurstDrains
CHECK_DEADLOCK FALSE
