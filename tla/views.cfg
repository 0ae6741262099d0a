SPECIFICATION ViewsSpec
CONSTANTS
    Device = {d1, d2, d3}
    Room = {r1, r2}
    None = None
    MaxStreams = 2
    Padding = 1
    Offset = 1
    DefaultSize = 2
    MinSize = 1
    Viewports = {3, 5}
    Pointer = {p1, p2}
    MaxZ = 4
    MaxSwitches = 2
    MaxCloses = 1
INVARIANTS
    WindowsAreSound
    PageIsOfItsRoom
PROPERTIES
    LoadingEnds
CHECK_DEADLOCK FALSE
