SPECIFICATION Spec
CONSTANTS
    Room = {r1, r2}
    Activity = {a1, a2}
    None = None
    MaxPolls = 2
    MaxSwitches = 1
    MaxFailures = 1
INVARIANTS
    ControlIsSound
PROPERTIES
    PageSettles
