SPECIFICATION OptimizerSpec
CONSTANTS
    Programs <- MCPrograms
    Logs <- MCLogs
    Keys = {1, 2, 3}
    ArrayRunSpan = 4
    ThreadHops = 3
    FollowHops = 3
    SummarySteps = 20
    Fuel = 8
    rx = rx
    ry = ry
    rth = rth
    rel = rel
    ra = ra
    rb = rb
    rf = rf
    c1 = c1
    c2 = c2
    ans = ans
    Functions <- MCFunctions
    Bodies <- MCBodies
    Answers <- MCAnswers
INVARIANTS CompiledAlike SameEffects PassesKeepEffects
PROPERTY KeepsPace
