SPECIFICATION Spec
CONSTANTS
    MaxConnects = 6
    Reservation = {r1, r2}
    Fetch = {f1, f2}
    MaxRequests = 4
    MaxTime = 3
    MaxLength = 3
    MaxVisits = 3
    Flash = {1, 2}
    MaxPolls = 2
    MaxStarts = 2
    MaxPressed = 2
INVARIANTS
    TypeOK
    ConnectedIsTrue
    PollersFollowLogin
    AnnouncedOnce
    
    FederatedIsRight
    OneViewPerReservation
    NothingMissed
    BadgeFollows
    ControlsFollow
    PollsWhileUnanswered
    OneFlashAtATime
PROPERTIES
    Reconnects
    FlashAnswered
CHECK_DEADLOCK FALSE
