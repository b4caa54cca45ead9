SPECIFICATION SharingSpec
CONSTANTS
    k1 = k1
    k2 = k2
    k3 = k3
    Keys <- MCKeys
    ChildrenOf <- MCChildrenOf
    VarsOf <- MCVarsOf
    Total = 7
    Batch = 2
    Workers = 3
    Scripts <- MCScripts
INVARIANTS
    EachOnce
    ArenasMatch
    FailsOnlyByPanic
    MapsAreStable
    RoundsAreWhole
    LayoutIsRight
