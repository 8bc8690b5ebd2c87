\* Two logins of one user and a clock that runs past the sample window, lockouts and grace.
SPECIFICATION Spec
CONSTANTS
    p1 = p1
    p2 = p2
    l1 = l1
    l2 = l2
    u1 = u1
    u2 = u2
    i1 = i1
    e1 = e1
    e2 = e2
    e3 = e3
    e4 = e4
    NoIp = NoIp
    Proc = {p1, p2}
    Login = {l1, l2}
    Home <- HomeOfTwo
    User = {u1}
    Client <- OneClient
    Ip = {}
    Early = {{e1, e2, e3}, {e1, e2, e3, e4}}
    UserThreshold = 1
    IpThreshold = 1
    UserPeriod = 1
    IpPeriod = 1
    Lockout = 2
    Budget = 9
    PurgeLease = 1
    Retries = 2
    MaxTime = 4
CHECK_DEADLOCK FALSE
INVARIANT LockoutHolds
INVARIANT BytesExact
INVARIANT NoFailureLost
PROPERTY TripAfterGrace
