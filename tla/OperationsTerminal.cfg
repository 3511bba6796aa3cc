SPECIFICATION Spec
CONSTANTS
    NumOps = 1
    Callers = {c1}
    Deadlines = {}
    Lease = 1
    MaxActive = 1
    MaxTime = 0
    MaxBoots = 1
    InlineOps = {}
    CanPanic = FALSE
PROPERTY TerminalIsFinal
CHECK_DEADLOCK FALSE
