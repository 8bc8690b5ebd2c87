SPECIFICATION Spec
CONSTANTS
    r1 = r1
    r2 = r2
    Request = {r1, r2}
    Limits = {1, 2}
    MaxFailed = 1
    ExpiryDays = 0
    GraceDays = 0
    MaxTime = 0
CHECK_DEADLOCK FALSE
PROPERTY LockedUntilUnlock
