SPECIFICATION RoomSpec
CONSTANTS
    Activity = {a1, a2}
    Operator = {p1}
    Recorder = {p1}
    MaxEvents = 2
    MaxCrashes = 1
    MaxFailures = 1
    None = None
    NoRoom = NoRoom
    Visitor = {v1, v2}
    NoVisitor = NoVisitor
    MaxActivities = 2
    MaxParameters = 1
    Link = {1, 2, 3, 4}
    Device <- Devices
    deviceOf <- DeviceOf
    Assignable = {0, 1}
    NoLink = NoLink
    MaxRequests = 2
INVARIANTS
    ActivityIsSound
    RoomAgreesUnlessRestarted
    ArchivedUnlessFault
    SessionIsSound
    SequencesAreSound
PROPERTIES
    KeepsLifecycle
