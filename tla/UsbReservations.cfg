SPECIFICATION MCSpec
CONSTANTS
    l1 = l1
    l2 = l2
    Leases <- MCLeases
    Slots <- MCSlots
    NoSlot = NoSlot
    MaxAsked = 1
    MaxFaults = 1
INVARIANTS
    
    AttachedIsThere
    OnePlace
PROPERTY Resolves
CHECK_DEADLOCK FALSE
