SPECIFICATION Spec
CONSTANTS
    u1 = u1
    sys = sys
    seeded = seeded
    base = base
    own = own
    k1 = k1
    k0 = k0
    User = {u1, sys}
    System = sys
    Role = {seeded, base, own}
    SeedRole = {seeded, base}
    Key = {k0, k1}
    Admin = k0
    Legacy = {k1}
    Public = {}
    Catalog <- Catalogs
    Request = {r1, r2}
    Operator = {o1}
    Depth = 2
    MaxVer = 3
INVARIANT EntryCurrent
INVARIANT DecisionWithinRequest
INVARIANT FlattenRight
INVARIANT EdgeCheckSound
SYMMETRY Alike
CHECK_DEADLOCK FALSE
