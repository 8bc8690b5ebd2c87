\* Overlapping gets of the threaded API: a failed one can put an old entry back.
SPECIFICATION FairSpec
CONSTANTS
    auth = auth
    api = api
    ssr = ssr
    a1 = a1
    a2 = a2
    b1 = b1
    b2 = b2
    s1 = s1
    s2 = s2
    w1 = w1
    w2 = w2
    Auth = {}
    Api = {api}
    Ssr = {}
    Reader = {b1, b2}
    Writer = {w1}
    Home <- HomeMap
    Ttls = {1}
    Backoff = 1
    Horizon = 1
    MaxVer = 2
PROPERTY Settles
