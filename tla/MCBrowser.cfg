SPECIFICATION Spec
CONSTANTS
    t1 = t1
    t2 = t2
    Tab = {t1, t2}
    Session = {1, 2}
    First = 1
    AccessTtl = 1
    Grace = 1
    MaxRetries = 2
    RequestTime = 1
    AnswerTime = 0
    MaxTime = 2
    MaxVisits = 2
    MaxFaults = 1
SYMMETRY Symmetry
INVARIANT ReplayExplained
INVARIANT JarFollowsHead
INVARIANT RequestsBounded
CHECK_DEADLOCK FALSE
