SPECIFICATION FairSpec
CONSTANTS
    Start = 1
    End = 2
    KeepAlive = 1
    Toucher = {t1}
    MaxTime = 3
    MaxCalls = 1
    MaxCrashes = 0
PROPERTIES
    StartIsPublished
CHECK_DEADLOCK FALSE
