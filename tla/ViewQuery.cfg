SPECIFICATION Spec
CONSTANTS
    Queries = {q1, q2}
    Insert = insert
    d1 = d1
    d2 = d2
    Mutations <- MCMutations
    FromKeys = {2}
    Instances = 1
    Limits = {1}
    MaxCommits = 2
    MaxGarbage = 2
INVARIANTS
    InstancesAccounted
    SettledQueryExact
    SettledQueryFinds
PROPERTY QueriesEnd
