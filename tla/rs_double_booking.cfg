SPECIFICATION Spec
CONSTANTS
    n1 = n1
    n2 = n2
    Node = {n1, n2}
    Client = {c1, c2}
    Reservation = {r1, r2}
    Request <- Requests
    MaxTime = 2
    MaxKeys = 1
CHECK_DEADLOCK FALSE
INVARIANT
    OneOwner
