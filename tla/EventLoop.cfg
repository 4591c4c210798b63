SPECIFICATION Spec
CONSTANTS
    NumWorkers = 2
    MaxTasks = 2
INVARIANTS
    TypeOK
    NoLostWakeup
    EventFdUsed
PROPERTIES
    ImplementsQueues
    ShutdownEnds
CHECK_DEADLOCK FALSE
