SPECIFICATION Spec
CONSTANTS
    MaxAttempts = 2
    MaxCandidates = 2
INVARIANTS
    PlayerIsSound
PROPERTIES
    StaleIsSilent
    ConnectingEnds
CHECK_DEADLOCK FALSE
