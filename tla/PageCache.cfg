SPECIFICATION Spec
CONSTANTS
    Pages <- ThreePages
    Clients = {c1, c2}
    NoPage = 0
    Limit = 2
    MaxWrites = 1
INVARIANTS
    NoWriteLost
    PagesAccounted
PROPERTY ReadsServed
