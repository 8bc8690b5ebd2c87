\* A process of each kind; loads as slow as the TTL; two writes or one that is compensated.
SPECIFICATION Spec
CONSTANTS
    auth = auth
    api = api
    ssr = ssr
    a1 = a1
    a2 = a2
    b1 = b1
    b2 = b2
    s1 = s1
    s2 = s2
    w1 = w1
    w2 = w2
    Auth = {auth}
    Api = {api}
    Ssr = {ssr}
    Reader = {a1, s1}
    Writer = {w1}
    Home <- HomeMap
    Ttls = {1}
    Backoff = 1
    Horizon = 1
    MaxVer = 3
INVARIANT StaleBounded
