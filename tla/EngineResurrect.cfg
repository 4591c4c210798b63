SPECIFICATION Spec
CONSTANTS
    Storages = {1}
    MaxTransact = 3
    MaxDocument = 2
    MaxMutations = 1
    MaxConstraints = 0
    Offered <- Constraints
    Modified = {1}
INVARIANT RolledBackStaysGone
