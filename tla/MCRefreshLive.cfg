\* One session, two requests of any kind and the cleanup; a session may outlive its expiry.
SPECIFICATION FairSpec
CONSTANTS
    s1 = s1
    r1 = r1
    r2 = r2
    Session = {s1}
    NoSession = NoSession
    Request = {r1, r2}
    TotalTtl = 1
    RefreshTtl = 1
    AccessTtl = 1
    Grace = 0
    Window = 1
    MaxTime = 1
    MaxMint = 2
    LoginUntil = 0
PROPERTY EveryRequestReplies
PROPERTY ExpiredIsPurged
