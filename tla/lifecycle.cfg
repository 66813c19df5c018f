SPECIFICATION FairSpec
CONSTANTS
    Start = 1
    End = 2
    KeepAlive = 1
    Toucher = {t1}
    MaxTime = 3
    MaxCalls = 2
    MaxCrashes = 1
INVARIANTS
    TypeOK
    LifecycleOrder
    KeepAliveHonoured
    FinalizedForAReason
PROPERTIES
    EventuallyFinalized
CHECK_DEADLOCK FALSE
