\* Two logins of two users from one address on two processes, room for one context; faults, crashes and a lock that outlives its holder.
SPECIFICATION FairSpec
CONSTANTS
    p1 = p1
    p2 = p2
    l1 = l1
    l2 = l2
    u1 = u1
    u2 = u2
    NoIp = NoIp
    Proc = {p1, p2}
    Login = {l1, l2}
    Home <- HomeOfTwo
    User = {u1, u2}
    Client <- TwoClients
    Ip = {i1}
    i1 = i1
    Early = {{}}
    UserThreshold = 1
    IpThreshold = 1
    UserPeriod = 1
    IpPeriod = 1
    Lockout = 1
    Budget = 4
    PurgeLease = 1
    Retries = 2
    MaxTime = 0
CHECK_DEADLOCK FALSE
INVARIANT ContextsBounded
PROPERTY TasksEnd
