SPECIFICATION ControlSpec
CHECK_DEADLOCK FALSE
CONSTANTS
    Inputs <- MCInputs
    MinGallop = 2
    MinMerge = 4
    MaxTouches = 1
    Nothing = Nothing
    NoDerived = NoDerived
    MaxPromises = 3
    MaxCalls = 4
INVARIANTS SortIsExact ReactionsRunOnce
PROPERTY AlwaysCloser
