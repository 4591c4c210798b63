SPECIFICATION Spec
CONSTANTS
    NumDrivers = 2
    Logs <- MCLogs
    MaxObjects = 7
INVARIANTS
    RefsExact
CHECK_DEADLOCK FALSE
