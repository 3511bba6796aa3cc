SPECIFICATION MCSpec
CONSTANTS
    l1 = l1
    l2 = l2
    v1 = v1
    Leases = {l1, l2}
    Vmids = {v1}
    Callers = {c1}
    Fillers = {f1, f2}
    Nothing = Nothing
    Stranger = Stranger
    MaxAttempts = 1
    MaxFailures = 2
    MaxExtensions = 1
    MaxCrashes = 1
    MaxFills = 2
INVARIANTS ReadyLeaseHasReadyRecord ReadyLeaseOwnsItsGuest HeldTogether
PROPERTIES NoForeignGuestDestroyed AttemptsNeverGoBack ExtensionWins ReturnedReverted LeasesSettle OrphansReported
CHECK_DEADLOCK FALSE
