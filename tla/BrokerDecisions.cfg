SPECIFICATION MCSpec
CONSTANTS
    r1 = r1
    r2 = r2
    c1 = c1
    Requests = {r1, r2}
    Calls = {c1, c2}
    Approvers = {p1}
    Max = 1
    Grace = 0
    Ttl = 1
    MaxTime = 2
    MaxBoots = 2

    
PROPERTIES
    ImplementsRecord
    OpenedUnderCurrentPolicy
    Recovery
CHECK_DEADLOCK FALSE
