SPECIFICATION Spec
CONSTANTS
    NumDrivers = 2
    Logs <- MCLogs
    MaxObjects = 7
INVARIANTS
    CountPositive
CHECK_DEADLOCK FALSE
