SPECIFICATION FairSpec
CONSTANTS
    Uri = {u1, u2}
    Client = {c1}
    Worker = {w1, w2}
    NoUri = NoUri
    NoWorker = NoWorker
INVARIANTS
    TypeOK
    RegisteredIffServing
PROPERTIES
    ShutdownCompletes
CONSTRAINT NotOverlapped
CHECK_DEADLOCK FALSE
