SPECIFICATION Spec
CONSTANTS
    Room = {r1, r2}
    ThisRoom = r1
    NoRoom = NoRoom
    Unclear = Unclear
    NoDraft = NoDraft
    MaxBusy = 2
    MaxFailures = 1
INVARIANTS
    AssignmentIsSound
PROPERTIES
    PagesSettle
