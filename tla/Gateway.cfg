SPECIFICATION MCSpec
CONSTANTS
    Sessions = {s1, s2}
    Dispatches = {d1, d2}
    MaxInFlight = 1
    Wrap = 4
    NoSession = NoSession
    CanRemove = TRUE
INVARIANTS
    RegistryTracksSessions
    NoGhostConnected
    RemovedStaysOut
    AnsweredByTheNode
PROPERTIES
    DispatchEnds
    ToldToEndEnds
CHECK_DEADLOCK FALSE
