SPECIFICATION FairSpec
CONSTANTS
    lower = lower
    upper = upper
    other = other
    r1 = r1
    r2 = r2
    r3 = r3
    Domains <- Spellings
    Lower <- LowerAll
    Requests <- TwoRequests
    Lifetimes <- ShortLives
    MaxTime = 2
    MaxGeneration = 2
    MayDropUnpolled = TRUE
INVARIANTS TypeOK SingleFlight
PROPERTY NothingHangs
