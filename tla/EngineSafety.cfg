SPECIFICATION FairSpec
CONSTANTS
    Storages = {1}
    MaxTransact = 2
    MaxDocument = 2
    MaxMutations = 1
    MaxConstraints = 1
    Offered <- Constraints
    Modified = {1}
INVARIANTS
    TypeOK
    LogReplayable
    RequestsServable
    SubmittedCompatible
    StoragesFollowLog
    AckedSurvives
    PromiseKept
    InsertsFresh
PROPERTIES
    ImplementsHistory
    RequestsAnswered
