SPECIFICATION LiveSpec
CONSTANTS
    c1 = c1
    c2 = c2
    Commits = {c1, c2}
    Valid = {c1, c2}
    Descends <- MCDescends
    RegistryFiles <- MCRegistry
    RegistryRecords <- MCRegistry
    HistoryLimit = 2
    Fetches = {f1, f2}
    MaxFaults = 1
    None = None
PROPERTIES AutoMovesForward RollbackHolds PollerCatchesUp
CHECK_DEADLOCK FALSE
