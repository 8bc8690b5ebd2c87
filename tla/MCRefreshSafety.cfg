\* Two requests on one session; three tokens; every expiry within the clock.
SPECIFICATION Spec
CONSTANTS
    s1 = s1
    r1 = r1
    r2 = r2
    Session = {s1}
    NoSession = NoSession
    Request = {r1, r2}
    TotalTtl = 3
    RefreshTtl = 2
    AccessTtl = 1
    Grace = 1
    Window = 2
    MaxTime = 3
    MaxMint = 3
    LoginUntil = 1
SYMMETRY RequestSymmetry
INVARIANT SingleRedemption
INVARIANT NewestIsCurrent
INVARIANT EndedIsGone
PROPERTY TimesInOrder
PROPERTY RefinesTokenChain
