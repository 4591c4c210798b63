SPECIFICATION Spec
CONSTANTS
    NumWorkers = 1
    Sessions <- MCSessions
    MaxRecords = 3
    MaxRows = 1
    MaxChunk = 4
    SendBuffer = 3
INVARIANTS
    FramesAsSent
    StreamIntact
CHECK_DEADLOCK FALSE
PROPERTIES
    RequestsServed
    MainReturns
