SPECIFICATION Spec
CONSTANTS
    q1 = q1
    q2 = q2
    s1 = s1
    s2 = s2
    t1 = t1
    Requests = {q1, q2}
    Servers = {s1, s2}
    Pool = {t1}
    Helpers = 1
    Fates <- MCFates
INVARIANTS RequestsStandAlone
PROPERTY EveryRequestAnswered
