SPECIFICATION Spec
CONSTANTS
    Room = {r1, r2}
    Device = {d1, d2}
    Request = {q1, q2}
    MaxDevices = 1
    MaxRestarts = 2
    NoRoom = NoRoom
    NoDevice = NoDevice

    
PROPERTIES
    StartupHeals
    StartupKeepsOwners
\* A safety run: every action property is about single steps.
SYMMETRY Symmetry
