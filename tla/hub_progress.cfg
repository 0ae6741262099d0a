SPECIFICATION FairSpec
CONSTANTS
    Player = {p1, p2}
    Slow = {}
    BroadcastCap = 1
    None = None
PROPERTIES
    LeaverEnds
    RegistrationTaken
    RunReturns
\* Every connection may end.
CHECK_DEADLOCK FALSE
