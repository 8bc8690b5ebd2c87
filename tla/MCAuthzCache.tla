--------------------------- MODULE MCAuthzCache ---------------------------
\* AuthzCache for TLC: a release that renames and drops keys, one seeded role
\* pair, one operator role, and chains that reach the depth bound.
EXTENDS AuthzCache, TLC

CONSTANTS u1, sys, seeded, base, own, k0, k1

Old == [keys |-> {k0, k1}, perms |-> {<<seeded, k0>>, <<base, k1>>},
        child |-> {<<seeded, base>>}, held |-> {<<u1, seeded>>}]
New == [keys |-> {k0}, perms |-> {<<base, k0>>},
        child |-> {}, held |-> {<<u1, seeded>>}]
Catalogs == {Old, New}
Alike == Permutations(Request)
============================================================================
