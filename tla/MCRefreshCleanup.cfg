SPECIFICATION Spec
CONSTANTS
    s1 = s1
    s2 = s2
    r1 = r1
    Session = {s1, s2}
    NoSession = NoSession
    Request = {r1}
    TotalTtl = 2
    RefreshTtl = 2
    AccessTtl = 1
    Grace = 0
    Window = 2
    MaxTime = 3
    MaxMint = 2
    LoginUntil = 1
INVARIANT CleanupSucceeds
