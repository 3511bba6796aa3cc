SPECIFICATION LiveSpec
CONSTANTS
    NumOps = 1
    Callers = {c1}
    Deadlines = {4}
    Lease = 1
    MaxActive = 1
    MaxTime = 3
    MaxBoots = 2
    InlineOps = {}
    CanPanic = FALSE
    MaxStall = 1
PROPERTY EveryOperationSettles
CHECK_DEADLOCK FALSE
