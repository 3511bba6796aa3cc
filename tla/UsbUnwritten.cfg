SPECIFICATION Spec
CONSTANTS
    Leases = {l1}
    Slots = {0}
    NoSlot = NoSlot
    MaxAsked = 0
    MaxFaults = 1
PROPERTY OnlyOwnDeleted
CHECK_DEADLOCK FALSE
