SPECIFICATION Spec
CONSTANTS
    StorageNames = {s1, s2}
    ViewNames = {v1}
    NoName = NoName
    MaxSubmits = 2
INVARIANTS
    TypeOK
    AlwaysLoadable
    NamesSurvive
    ViewsFollowStorages
CHECK_DEADLOCK FALSE
