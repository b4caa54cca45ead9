SPECIFICATION HeadersSpec
CONSTANTS
    MaxDirectives = 3
    MaxDeltaSeconds = 2
    MaxReceived = 1
    MaxInstant = 5
    Cap = 25
    Alphabet = {0, 1, 2, 9, 10, 11}
    MaxLength = 4
INVARIANTS GrantedSpanIsProper MeetsReference
