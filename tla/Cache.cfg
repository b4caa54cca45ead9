SPECIFICATION Spec
CONSTANTS
    lower = lower
    upper = upper
    other = other
    r1 = r1
    r2 = r2
    r3 = r3
    Domains <- OneSpelling
    Lower <- LowerOne
    Requests <- ThreeRequests
    Lifetimes <- OneLife
    MaxTime = 2
    MaxGeneration = 3
    MayDropUnpolled = FALSE
SYMMETRY Symmetry
INVARIANTS
    NoEmptySlot
    FreshEnough
    AnswersAreCurrent
    SettleInOrder
PROPERTY ImplementsContract
