SPECIFICATION Spec
CONSTANTS
    Uri = {u1}
    Client = {c1}
    Worker = {w1, w2}
    NoUri = NoUri
    NoWorker = NoWorker
PROPERTIES
    StoppedForAReason
CHECK_DEADLOCK FALSE
