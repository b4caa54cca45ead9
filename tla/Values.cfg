SPECIFICATION ValuesSpec
CHECK_DEADLOCK FALSE
CONSTANTS
    AtFirst <- MCAtFirst
    Elements <- MCElements
    Args <- MCArgs
    MaxEdits = 2
    MaxNexts = 2
    Names = {"a", "b"}
    MaxSteps = 4
    Texts <- MCTexts
    Answers <- MCAnswers
    Templates <- SmallTemplates
    Regexes <- SmallRegexes
    Numbers <- SmallNumbers
    Rests <- SmallRests
    Wholes <- AllWholes
    Samples <- SmallValues
    None = None
    MaxCalls = 4
INVARIANTS
    LoopsSurviveChanges
    CachedReadIsLookup
    BuiltinsAreExact
