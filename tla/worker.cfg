SPECIFICATION FairSpec
CONSTANTS
    BatchSize = 2
    MaxQueue = 1
    Retries = 2
    ListSize = 2
    Limit <- WorkLimit
INVARIANTS
    TypeOK
    FifoLedger
    AtLeastOnce
    QueueBound
    NoLostWakeup
    DropsAccounted
    RetriesBound
PROPERTIES
    GivesUpLate
    ImplementsChannel
    Delivered
    EndsAfterReservation
