\* Two requests; one slot or two; an account that one failure locks.
SPECIFICATION FairSpec
CONSTANTS
    r1 = r1
    r2 = r2
    Request = {r1, r2}
    Limits = {1, 2}
    MaxFailed = 1
    ExpiryDays = 0
    GraceDays = 0
    MaxTime = 1
CHECK_DEADLOCK FALSE
INVARIANT SlotsAccounted
INVARIANT CountExplained
INVARIANT VerdictsAudited
INVARIANT SessionsOnCurrentPassword
PROPERTY LockedKeepsPassword
PROPERTY EveryRequestReplies
