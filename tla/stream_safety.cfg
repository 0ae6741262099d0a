SPECIFICATION Spec
CONSTANTS
    Source = {s1, s2}
    Viewer = {v1, v2}
    QueueCap = 1
    None = None
INVARIANTS
    StreamIsSound
    FirstUnitIsKey
PROPERTIES
    ClosedGetsNothing
\* Every viewer may leave.
SYMMETRY Symmetry
CHECK_DEADLOCK FALSE
