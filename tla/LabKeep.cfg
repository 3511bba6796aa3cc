SPECIFICATION FairSpec
CONSTANTS
    Leases = {l1}
    Vmids = {v1}
    Callers = {c1, c2}
    Nothing = Nothing
    Stranger = Stranger
    MaxAttempts = 1
    MaxFailures = 1
    MaxExtensions = 0
    MaxCrashes = 0
PROPERTY KeepReleases
CHECK_DEADLOCK FALSE
