SPECIFICATION Spec
CONSTANTS
    Keys <- ThreeKeys
    EntsPerLeaf = 4
    EntsPerInner = 4
    MaxInserts = 10
INVARIANTS
    SearchTree
    AnswersCorrect
    IterationComplete
    PagesHeld
