SPECIFICATION FairSpec
CONSTANTS
    f1 = f1
    f2 = f2
    d1 = d1
    d2 = d2
    Fetches = {f1, f2}
    Documents = {d1, d2}
    MaxSequence = 2
    MaxMutations = 2
    MaxCallers = 1
INVARIANTS
    TypeOK
    ReadersExcluded
    OneClosure
PROPERTIES
    ImplementsStore
    StallsOnlyOnMissedWakeup
CHECK_DEADLOCK FALSE
