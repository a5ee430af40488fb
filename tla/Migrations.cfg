SPECIFICATION FairSpec
CONSTANTS
    Version = {1, 2, 3}
    Files <- MCFiles
    MaxBreaks = 4
INVARIANTS
    AppliedOnceInOrder
    ServingIsMigrated
PROPERTIES
    EventuallyServes
CHECK_DEADLOCK FALSE
