SPECIFICATION FairSpec
CONSTANTS
    Ops = {o1, o2, o3}
    Unsupported = {o3}
    MaxDeliveries = 2
    Threshold = 2
    MaxBoots = 3
    NoOp = NoOp
INVARIANTS
    RunsOnce
    FileMatchesIndex
    AnsweredIsDurable
PROPERTIES
    DeliveriesEnd
CHECK_DEADLOCK FALSE
