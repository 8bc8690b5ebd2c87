---------------------------- MODULE AuthzCache ----------------------------
(***************************************************************************)
(* Role-based authorisation: the tables user_role, role_child and          *)
(* role_permission, the query that flattens them into the permission keys  *)
(* of a user (rbac/sql/effective_permissions.sql), the per-user entries    *)
(* kept in Redis under the version of the tables (rbac/cache.py and        *)
(* auth/src/rbac/permissions.ts), the requests that decide by them, the    *)
(* seed that brings the tables to a release's catalog (seed/), and         *)
(* operators who edit them as rbac/store.py asks: the edge checked first   *)
(* (no route does this yet), the version raised in the edit's transaction. *)
(*                                                                         *)
(* Every query sees what was committed when it began (READ COMMITTED), so  *)
(* a request's reads are separate steps and a transaction is one step.     *)
(***************************************************************************)
EXTENDS Integers, Sequences

CONSTANTS
    User, System,     \* the users; the platform's own one, which never logs in
    Role, SeedRole,   \* the roles; the ones of the seed
    Key, Admin,       \* permission keys; the one that allows everything
    Legacy,           \* LEGACY_SEED_PERMISSION_KEYS
    Public,           \* read and search keys of public classes
    Catalog,          \* the releases' catalogs: keys, perms, child, held
    Request, Operator,
    Depth,            \* MAX_ROLE_GRAPH_DEPTH
    MaxVer            \* bound of the number of commits

ASSUME AuthzAssumption ==
    /\ System \in User /\ SeedRole \subseteq Role
    /\ Admin \in Key /\ Legacy \subseteq Key /\ Public \subseteq Key
    /\ Depth \in Nat \ {0} /\ MaxVer \in Nat \ {0}
    /\ \A c \in Catalog :
         /\ c.keys \subseteq Key
         /\ c.perms \subseteq SeedRole \X c.keys
         /\ c.child \subseteq SeedRole \X SeedRole
         /\ c.held \subseteq (User \ {System}) \X SeedRole

VARIABLES
    version,   \* the authz_version singleton
    held,      \* user_role
    byHand,    \* those of its rows whose id is not the seed's
    child,     \* role_child
    perms,     \* role_permission joined with permission
    oldId,     \* keys whose permission row has not the id of its key
    seedAt,    \* the next transaction of seed_all
    entry,     \* the entry of each user in Redis
    pc, usr, need, ver, keys, answer,      \* requests
    opc, edge, \* operators: an edge that passed the check
    \* history
    seen,      \* what the user's keys were while the request ran
    saw        \* the graph the check of an edge has read

tables  == <<version, held, byHand, child, perms, oldId>>
request == <<pc, usr, need, ver, keys, answer>>
ops     == <<opc, edge, saw>>
vars    == <<tables, seedAt, entry, request, ops, seen>>

NoEntry == [v |-> 0, keys |-> {}]
Error   == {"RoleGraphError"}

----------------------------------------------------------------------------
\* effective_permissions.sql.  A row of role_tree is the path to its role.

Last(p)       == p[Len(p)]
Children(r)   == {e[2] : e \in {x \in child : x[1] = r}}
IsCycle(p)    == \E i \in 1 .. Len(p) - 1 : p[i] = Last(p)
RolesOf(u)    == {h[2] : h \in {x \in held : x[1] = u}}

\* The rows at each depth that start in one of rs; cyclic ones are not extended.
RoleTree(rs) ==
    LET level[d \in 1 .. Depth] ==
          IF d = 1 THEN {<<r>> : r \in rs}
          ELSE UNION {{Append(p, c) : c \in Children(Last(p))} :
                        p \in {q \in level[d - 1] : ~ IsCycle(q)}}
    IN  UNION {level[d] : d \in 1 .. Depth}

HasCycle(tree) == \E p \in tree : IsCycle(p)

\* Mutated form: a child edge beyond the last depth goes unnoticed.
DepthExceededNever(tree) == FALSE

DepthExceeded(tree) ==
    \E p \in tree : Len(p) >= Depth /\ ~ IsCycle(p) /\ Children(Last(p)) # {}

\* fetch_effective_permission_keys: the keys, or Error
Effective(u) ==
    LET tree == RoleTree(RolesOf(u))
    IN  IF HasCycle(tree) \/ DepthExceeded(tree) THEN Error
        ELSE {g[2] : g \in {x \in perms : \E p \in tree : Last(p) = x[1]}}

\* would_create_role_cycle.  Mutated form: descendants are not looked at.
ClosesCycleSelf(parent, c) == parent = c

ClosesCycle(parent, c) ==
    parent = c \/ \E p \in RoleTree({c}) : Last(p) = parent

\* class_operation_granted and permission_grants
Verdict(ks, k) ==
    IF ks = Error THEN "error"
    ELSE IF k \in Public \/ Admin \in ks \/ k \in ks THEN "allow" ELSE "deny"

----------------------------------------------------------------------------
Init ==
    /\ version = 1
    /\ \/ held = {} /\ oldId = {}                          \* a new database
       \/ held = {System} \X SeedRole /\ oldId = Legacy    \* an old one
    /\ byHand = held
    /\ child = {} /\ perms = {}
    /\ seedAt = "idle"
    /\ entry = [u \in User |-> NoEntry]
    /\ pc = [r \in Request |-> "idle"]
    /\ usr = [r \in Request |-> System]
    /\ need = [r \in Request |-> Admin]
    /\ ver = [r \in Request |-> 0]
    /\ keys = [r \in Request |-> {}]
    /\ answer = [r \in Request |-> "none"]
    /\ opc = [o \in Operator |-> "idle"]
    /\ edge = [o \in Operator |-> <<>>]
    /\ saw = [o \in Operator |-> {}]
    /\ seen = [r \in Request |-> {}]

Busy(r) == pc[r] \notin {"idle", "done"}

\* Every edit of the tables raises the version in its own transaction.
\* Mutated form: it does not.
NextVersionSame == version' = version

NextVersion == version' = version + 1

Observe ==
    seen' = [r \in Request |-> IF Busy(r) THEN seen[r] \cup {Effective(usr[r])'}
                               ELSE seen[r]]

----------------------------------------------------------------------------
\* Requests: get_current_user, then fetch_effective_permission_keys_cached,
\* then the decision.  The system user is inactive, so that no request is its
\* own.  /auth/me of the auth service takes the same steps.

Begin(r) ==
    /\ ~ Busy(r)
    /\ \E u \in User \ {System} :
         /\ usr' = [usr EXCEPT ![r] = u]
         /\ seen' = [seen EXCEPT ![r] = {Effective(u)}]
    /\ pc' = [pc EXCEPT ![r] = "version"]
    /\ need' = [need EXCEPT ![r] = Admin]
    /\ answer' = [answer EXCEPT ![r] = "none"]
    /\ UNCHANGED <<tables, seedAt, entry, ver, keys, ops>>

ReadVersion(r) ==
    /\ pc[r] = "version"
    /\ pc' = [pc EXCEPT ![r] = "get"]
    /\ ver' = [ver EXCEPT ![r] = version]
    /\ UNCHANGED <<tables, seedAt, entry, usr, need, keys, answer, ops, seen>>

\* Redis answers GET; an entry counts under the version that was read only.
\* Mutated form: an entry of any version will do.
HitAnyVersion(r) == entry[usr[r]] # NoEntry

Hit(r) == entry[usr[r]] # NoEntry /\ entry[usr[r]].v = ver[r]

CacheHit(r) ==
    /\ pc[r] = "get" /\ Hit(r)
    /\ pc' = [pc EXCEPT ![r] = "decide"]
    /\ keys' = [keys EXCEPT ![r] = entry[usr[r]].keys]
    /\ UNCHANGED <<tables, seedAt, entry, usr, need, ver, answer, ops, seen>>

\* No entry, one of another version or that does not parse, or Redis fails; an
\* entry also goes by its TTL, by eviction or by invalidate_user_authz_cache, and
\* what one has lost is this step and nothing else.
CacheMiss(r) ==
    /\ pc[r] = "get"
    /\ pc' = [pc EXCEPT ![r] = "resolve"]
    /\ UNCHANGED <<tables, seedAt, entry, usr, need, ver, keys, answer, ops, seen>>

Resolve(r) ==
    /\ pc[r] = "resolve" /\ Effective(usr[r]) # Error
    /\ pc' = [pc EXCEPT ![r] = "set"]
    /\ keys' = [keys EXCEPT ![r] = Effective(usr[r])]
    /\ UNCHANGED <<tables, seedAt, entry, usr, need, ver, answer, ops, seen>>

\* RoleGraphError: the request fails, nothing is cached.
ResolveFails(r) ==
    /\ pc[r] = "resolve" /\ Effective(usr[r]) = Error
    /\ pc' = [pc EXCEPT ![r] = "done"]
    /\ ver' = [ver EXCEPT ![r] = 0]
    /\ answer' = [answer EXCEPT ![r] = "error"]
    /\ UNCHANGED <<tables, seedAt, entry, usr, need, keys, ops, seen>>

\* SET; a failure is logged and the request goes on.
CacheSet(r) ==
    /\ pc[r] = "set"
    /\ pc' = [pc EXCEPT ![r] = "decide"]
    /\ \/ entry' = [entry EXCEPT ![usr[r]] = [v |-> ver[r], keys |-> keys[r]]]
       \/ entry' = entry
    /\ UNCHANGED <<tables, seedAt, usr, need, ver, keys, answer, ops, seen>>

\* require_permission, require_class_operation; what was read is let go.
Decide(r) ==
    /\ pc[r] = "decide"
    /\ pc' = [pc EXCEPT ![r] = "done"]
    /\ \E k \in Key :
         /\ need' = [need EXCEPT ![r] = k]
         /\ answer' = [answer EXCEPT ![r] = Verdict(keys[r], k)]
    /\ ver' = [ver EXCEPT ![r] = 0] /\ keys' = [keys EXCEPT ![r] = {}]
    /\ UNCHANGED <<tables, seedAt, entry, usr, ops, seen>>

----------------------------------------------------------------------------
\* seed_all: its transactions

\* upsert_system_user: the platform's user has no roles.  It is
\* inactive, so that no request can hold its keys, and the version stays.
WithoutSystem(h) == {x \in h : x[1] # System}

SeedUsers ==
    /\ seedAt = "idle"
    /\ seedAt' = "rbac"
    /\ held' = WithoutSystem(held) /\ byHand' = WithoutSystem(byHand)
    /\ UNCHANGED <<version, child, perms, oldId, entry, request, ops, seen>>

\* _reconcile_permissions: keys whose row is replaced, or that are obsolete,
\* lose their grants.
DroppedKeys(c) == (oldId \cap c.keys) \cup (Legacy \ c.keys)

\* _upsert_role_permissions, _upsert_role_children: exact for the seed's roles
SeedPerms(c) ==
    {g \in perms : g[1] \notin SeedRole /\ g[2] \notin DroppedKeys(c)} \cup c.perms

SeedChildren(c) == {e \in child : e[1] \notin SeedRole} \cup c.child

\* _upsert_user_roles: assignments are added only
SeedHeld(c) == held \cup c.held

\* seed_rbac.  An operator's row for the same user and role violates the
\* unique index, a failed audit write rolls back: then nothing is committed.
SeedRbac ==
    /\ seedAt = "rbac" /\ version < MaxVer
    /\ \E c \in Catalog :
         /\ byHand \cap c.held = {}
         /\ perms' = SeedPerms(c)
         /\ child' = SeedChildren(c)
         /\ held' = SeedHeld(c)
         /\ oldId' = oldId \ (c.keys \cup DroppedKeys(c))
    /\ NextVersion
    /\ seedAt' = "clear"
    /\ UNCHANGED <<byHand, entry, request, ops>>
    /\ Observe

SeedFails ==
    /\ seedAt = "rbac"
    /\ seedAt' = "idle"
    /\ UNCHANGED <<tables, entry, request, ops, seen>>

SeedClears ==
    /\ seedAt = "clear"
    /\ seedAt' = "idle"
    /\ held' = WithoutSystem(held) /\ byHand' = WithoutSystem(byHand)
    /\ UNCHANGED <<version, child, perms, oldId, entry, request, ops, seen>>

----------------------------------------------------------------------------
\* Operators

\* assert_role_child_edge_allowed, on the graph as it is now: what a caller does
\* who is to add an edge.  So far only the tests of store.py are such callers.
CheckEdge(o) ==
    /\ opc[o] = "idle"
    /\ \E parent, c \in Role :
         /\ ~ ClosesCycle(parent, c) /\ <<parent, c>> \notin child
         /\ edge' = [edge EXCEPT ![o] = <<parent, c>>]
    /\ opc' = [opc EXCEPT ![o] = "insert"]
    /\ saw' = [saw EXCEPT ![o] = child]
    /\ UNCHANGED <<tables, seedAt, entry, request, seen>>

\* The edge goes in by a later statement; it may be there already.
InsertEdge(o) ==
    /\ opc[o] = "insert" /\ version < MaxVer
    /\ child' = child \cup {edge[o]}
    /\ opc' = [opc EXCEPT ![o] = "idle"]
    /\ edge' = [edge EXCEPT ![o] = <<>>] /\ saw' = [saw EXCEPT ![o] = {}]
    /\ NextVersion
    /\ UNCHANGED <<held, byHand, perms, oldId, seedAt, entry, request>>
    /\ Observe

\* Any other edit of the tables in a transaction that raises the version.
Edit ==
    /\ version < MaxVer
    /\ \/ \E u \in User \ {System}, r \in Role :
            LET h == {<<u, r>>} IN
            /\ \/ held' = held \cup h /\ byHand' = byHand \cup (h \ held)
               \/ h \subseteq held /\ held' = held \ h /\ byHand' = byHand \ h
            /\ UNCHANGED <<child, perms>>
       \/ \E r \in Role \ SeedRole, k \in Key :
            /\ \/ perms' = perms \cup {<<r, k>>}
               \/ <<r, k>> \in perms /\ perms' = perms \ {<<r, k>>}
            /\ UNCHANGED <<held, byHand, child>>
       \/ \E e \in child : child' = child \ {e} /\ UNCHANGED <<held, byHand, perms>>
    /\ NextVersion
    /\ UNCHANGED <<oldId, seedAt, entry, request, ops>>
    /\ Observe

RequestStep(r) ==
    \/ Begin(r) \/ ReadVersion(r) \/ CacheHit(r) \/ CacheMiss(r)
    \/ Resolve(r) \/ ResolveFails(r) \/ CacheSet(r) \/ Decide(r)

Next ==
    \/ \E r \in Request : RequestStep(r)
    \/ SeedUsers \/ SeedRbac \/ SeedFails \/ SeedClears
    \/ \E o \in Operator : CheckEdge(o) \/ InsertEdge(o)
    \/ Edit

Spec == Init /\ [][Next]_vars

----------------------------------------------------------------------------
\* What a role includes: itself and what its children include.
Included(rs) ==
    {r \in Role : \A s \in SUBSET Role :
        (rs \subseteq s /\ \A e \in child : e[1] \in s => e[2] \in s) => r \in s}

\* A chain of more roles than the bound; a cycle gives chains of every length.
TooDeep(rs, g) ==
    \E w \in [1 .. Depth + 1 -> Role] :
        w[1] \in rs /\ \A i \in 1 .. Depth : <<w[i], w[i + 1]>> \in g

TypeOK ==
    /\ version \in 1 .. MaxVer
    /\ held \subseteq User \X Role /\ byHand \subseteq held
    /\ child \subseteq Role \X Role /\ perms \subseteq Role \X Key /\ oldId \subseteq Key
    /\ seedAt \in {"idle", "rbac", "clear"}
    /\ entry \in [User -> [v : 0 .. MaxVer, keys : SUBSET Key]]
    /\ pc \in [Request -> {"idle", "version", "get", "resolve", "set", "decide", "done"}]
    /\ usr \in [Request -> User] /\ need \in [Request -> Key]
    /\ ver \in [Request -> 0 .. MaxVer] /\ keys \in [Request -> SUBSET Key]
    /\ answer \in [Request -> {"none", "allow", "deny", "error"}]
    /\ opc \in [Operator -> {"idle", "insert"}]
    /\ edge \in [Operator -> (Role \X Role) \cup {<<>>}]
    /\ saw \in [Operator -> SUBSET (Role \X Role)]
    /\ seen \in [Request -> SUBSET ((SUBSET Key) \cup {Error})]

\* A Redis entry with the current version holds exactly the keys that the
\* tables give its user now: the tag, read before the keys, can be too old but
\* never too new (fetch_effective_permission_keys_cached, bump_global_authz_version).
EntryCurrent ==
    \A u \in User : entry[u].v = version => entry[u].keys = Effective(u)

\* A request is decided as the tables would have it at some instant between its
\* first query and its answer, whatever was cached, evicted, seeded or edited
\* meanwhile (require_class_operation, get_effective_permissions).
DecisionWithinRequest ==
    \A r \in Request :
        pc[r] = "done" => answer[r] \in {Verdict(ks, need[r]) : ks \in seen[r]}

\* The flatten query yields the union of the permissions of all included roles,
\* and an error exactly when the graph below the user's roles has a cycle or a
\* chain longer than MAX_ROLE_GRAPH_DEPTH (effective_permissions.sql).
FlattenRight ==
    \A u \in User :
        Effective(u) = IF TooDeep(RolesOf(u), child) THEN Error
                       ELSE {k \in Key : \E r \in Included(RolesOf(u)) : <<r, k>> \in perms}

\* An edge that passed the check closes no cycle in the graph the check has
\* read, unless that graph was too deep already (would_create_role_cycle).
EdgeCheckSound ==
    \A o \in Operator :
        LET parent == edge[o][1]
            c      == edge[o][2]
        IN  opc[o] = "insert" /\ ~ TooDeep({c}, saw[o])
              => ~ \E n \in 1 .. Depth : \E w \in [1 .. n -> Role] :
                     /\ w[1] = c /\ w[n] = parent
                     /\ \A i \in 1 .. n - 1 : <<w[i], w[i + 1]>> \in saw[o]
============================================================================
