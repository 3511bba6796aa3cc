SPECIFICATION MCSpec
CONSTANTS
    NumOps = 2
    Callers = {c1}
    Deadlines = {1}
    Lease = 1
    MaxActive = 1
    MaxTime = 3
    MaxBoots = 2
    InlineOps = {1}
    CanPanic = TRUE
INVARIANTS
    ExecutedOnce
    ActiveBound
    FlaggedPendingNeverQueued
    DrainAsksEveryTask
PROPERTIES
    RecoveryRespectsLease
    ImplementsRecord
CHECK_DEADLOCK FALSE
