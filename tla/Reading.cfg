SPECIFICATION ReadingSpec
CHECK_DEADLOCK FALSE
CONSTANTS
    Codes <- AllCodes
    Templates <- AllTemplates
    Perms <- TwoPerms
    GenOf <- FirstGen
    Tags <- SmallTags
    TagSpan = 8
    Shift = 4
    PoolLen = 3
    Alphabet <- MCAlphabet
    SweepStarts = {0, 1, 5}
    SweepPool = 2
    Followed <- MCFollowed
    None = None
    Firsts = {"none", "key", "index", "variable", "field", "computed", "copy", "array", "items", "push", "function", "list", "method", "apply", "callback", "exception", "guarded", "choice", "loop", "arithmetic", "config", "fresh"}
    Seconds = {"none", "key", "index", "variable", "field", "computed", "copy", "array", "items", "push", "function", "list", "method", "apply", "callback", "exception", "guarded", "choice", "loop", "arithmetic", "config", "fresh"}
    Bodies = {"same", "part", "arguments", "this", "fails", "recursive", "array", "list"}
INVARIANTS ReadingsAreExact VerdictHolds
