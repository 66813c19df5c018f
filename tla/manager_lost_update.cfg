SPECIFICATION Spec
CONSTANTS
    Uri = {u1, u2}
    Client = {c1, c2}
    Worker = {w1, w2}
    NoUri = NoUri
    NoWorker = NoWorker
INVARIANTS
    GivesUpForGood
CHECK_DEADLOCK FALSE
