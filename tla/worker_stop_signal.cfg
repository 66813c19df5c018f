SPECIFICATION FairSpec
CONSTANTS
    BatchSize = 2
    MaxQueue = 1
    Retries = 2
    ListSize = 1
    Limit <- StopLimit
PROPERTIES
    StopsEventually
