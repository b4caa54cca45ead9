SPECIFICATION SessionSpec
CONSTANTS
    Inputs <- MCInputs
    Lines <- FewLines
    MaxLines = 1
    Devices = {"iphone"}
    Desktop = "chrome"
    Grain = 3
    MaxTime = 1
    Choices <- OneChoice
    Legs <- NoLegs
    Halves <- NoHalves
INVARIANTS SentLikeOnePage VerdictIsEarned CookiesAreCurrent TimelineIsMeasured TimelinesInOrder
CHECK_DEADLOCK FALSE
