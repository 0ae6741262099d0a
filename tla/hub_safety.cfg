SPECIFICATION PlayersSpec
CONSTANTS
    Player = {p1, p2}
    Slow = {p1, p2}
    BroadcastCap = 1
    None = None
    Guest = {p1, p2}
    TopStage = 2
    MaxForced = 1
    Participant = {p1, p2}
    Question = {q1, q2}
    Choice = {c1, c2}
    NoQuestion = NoQuestion
    NoChoice = NoChoice
    MaxAnswers = 2
    MaxSnapshots = 3
    MaxChanges = 2
INVARIANTS
    HubIsSound
    BarrierIsSound
    BoardIsSound
PROPERTIES
    GhostOnlyByLateRegistration
    MovedOnlyWhenReady
    
SYMMETRY Symmetry
\* Every connection may end, and a full InChannel stops Run for good.
CHECK_DEADLOCK FALSE
