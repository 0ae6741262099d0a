SPECIFICATION FairSpec
CONSTANTS
    Source = {s1}
    Viewer = {v1, v2}
    QueueCap = 1
    None = None
PROPERTIES
    UnwatchedSourceEnds
    ServedWhileRunning
\* Every viewer may leave.
CHECK_DEADLOCK FALSE
