\* Two gets of the auth service overlap with a write.
SPECIFICATION Spec
CONSTANTS
    auth = auth
    api = api
    ssr = ssr
    a1 = a1
    a2 = a2
    b1 = b1
    b2 = b2
    s1 = s1
    s2 = s2
    w1 = w1
    w2 = w2
    Auth = {auth}
    Api = {api}
    Ssr = {}
    Reader = {a1, a2}
    Writer = {w1}
    Home <- HomeMap
    Ttls = {2}
    Backoff = 1
    Horizon = 2
    MaxVer = 2
PROPERTY KeepsLastGood
