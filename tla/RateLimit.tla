----------------------------- MODULE RateLimit -----------------------------
(***************************************************************************)
(* The login rate limiter of the auth processes: the context arithmetic of *)
(* rate_limit.ts and its Redis form, rate_limit_redis.ts.                  *)
(*                                                                         *)
(* A context counts the failed logins of one username or one source        *)
(* address.  Every read-modify-write of a context is an optimistic Redis   *)
(* transaction (WATCH, reads, MULTI/EXEC) retried on conflict, and in one  *)
(* process these transactions run one at a time (run_exclusive).  Logins   *)
(* evaluate and then record; a purge, at most one per process, walks over  *)
(* all contexts.  A process may crash, a command may fail, and the reply   *)
(* to an EXEC may be lost after it was applied.                            *)
(*                                                                         *)
(* Times are in units of a sample period's granularity, bytes in units of  *)
(* FAILURE_MEMBER_BYTES.  The delay levels, which change no state, and the *)
(* audit event of a trip are left out.                                     *)
(***************************************************************************)
EXTENDS Integers, FiniteSets

CONSTANTS
    Proc,           \* auth processes; each also names its purge task
    Login,          \* login requests
    Home,           \* the process that serves each login
    User, Ip,       \* username keys and source addresses: the contexts
    NoIp,           \* the request has no source address
    Client,         \* who logs in: pairs of a username key and an address
    Early,          \* sets of failures that may be on record at the start
    UserThreshold, IpThreshold,
    UserPeriod, IpPeriod,       \* sample_period_s
    Lockout,        \* lockout_s
    Budget,         \* budget_bytes(max_kib)
    PurgeLease,     \* PURGE_LOCK_SECONDS
    Retries,        \* WATCH_RETRY_LIMIT
    MaxTime         \* bound of the clock

Context == User \cup Ip
Task == Login \cup Proc

ASSUME SetsAssumption ==
    /\ IsFiniteSet(Proc) /\ Proc # {} /\ IsFiniteSet(Login) /\ IsFiniteSet(Context)
    /\ \A old \in Early : IsFiniteSet(old) /\ Login \cap old = {}
    /\ Login \cap Proc = {} /\ User \cap Ip = {} /\ NoIp \notin Context
    /\ Home \in [Login -> Proc]
    /\ Client \subseteq [user : User, ip : Ip \cup {NoIp}]
ASSUME SettingsAssumption ==
    /\ UserThreshold \in Nat \ {0} /\ IpThreshold \in Nat \ {0}
    /\ UserPeriod \in Nat \ {0} /\ IpPeriod \in Nat \ {0}
    /\ Lockout \in Nat \ {0} /\ Budget \in Nat \ {0}
    /\ PurgeLease \in Nat \ {0} /\ Retries \in Nat \ {0} /\ MaxTime \in Nat

VARIABLES
    clock,
    \* Redis
    ctx,        \* the hash and zset of each context
    bytes,      \* META_BYTES
    lease,      \* when META_PURGE expires; 0: not set
    \* auth processes
    purging,    \* local_purge_running
    pc,
    peer,       \* the user and ip contexts of a login
    refused,    \* the verdict of evaluate so far
    tx,         \* the transaction of each task
    rest,       \* contexts the scan of a purge has yet to visit
    \* history
    failed,     \* failures recorded of each context
    granted     \* the last lockout of each context

redisVars == <<ctx, bytes, failed, granted>>
taskVars  == <<purging, pc, peer, refused, tx, rest>>
vars == <<clock, lease, redisVars, taskVars>>

----------------------------------------------------------------------------
\* rate_limit.ts

\* A failure: when, and whose; the zset index keeps equal stamps apart.
Stamp == [by : Login \cup UNION Early, at : Nat]
ContextState == [made : BOOLEAN, lock : Nat, grace : Nat, fails : SUBSET Stamp]

\* No key in Redis.  A lock or grace of 0 is null: both are over at any time.
NoContext == [made |-> FALSE, lock |-> 0, grace |-> 0, fails |-> {}]
empty_context == [NoContext EXCEPT !.made = TRUE]

threshold(c) == IF c \in User THEN UserThreshold ELSE IpThreshold
period(c) == IF c \in User THEN UserPeriod ELSE IpPeriod

prune_failures(fails, now, p) == {f \in fails : f.at >= now - 3 * p}

\* Mutated form: grace and lockout do not keep a context.
expiredWhenEmpty(s, now) == s.fails = {}

context_is_expired(s, now) == s.fails = {} /\ now >= s.lock /\ now >= s.grace

\* CONTEXT_BASE_BYTES is four times FAILURE_MEMBER_BYTES.
BaseBytes == 4
estimate_context_bytes(s) == IF s.made THEN BaseBytes + Cardinality(s.fails) ELSE 0

Pruned(s, c, now) == [s EXCEPT !.fails = prune_failures(@, now, period(c))]

\* Mutated form: a full window trips as soon as the lockout is over.
tripsInGrace(s, c, now) == now >= s.lock /\ Cardinality(s.fails) > 3 * threshold(c)

\* A lockout starts: too many failures, outside of lockout and grace.
lockout_started(s, c, now) ==
    /\ now >= s.lock
    /\ Cardinality(s.fails) > 3 * threshold(c)
    /\ now >= s.grace

\* evaluate_context: the next state ...
evaluate_context(s, c, now) ==
    LET p == Pruned(s, c, now)
    IN  IF lockout_started(p, c, now)
        THEN [p EXCEPT !.lock = now + Lockout, !.grace = now + 2 * Lockout]
        ELSE p

\* ... and the verdict.
locked_out(s, c, now) == now < s.lock \/ lockout_started(Pruned(s, c, now), c, now)

record_on_context(s, f) ==
    [(IF s.made THEN s ELSE empty_context) EXCEPT !.fails = @ \cup {f}]

----------------------------------------------------------------------------
\* with_watch

\* A transaction queued behind run_exclusive, and none at all.
Queued(op, c, n) == [op |-> op, key |-> c, old |-> NoContext, used |-> 0, at |-> 0,
                     intact |-> FALSE, tries |-> n]
NoTx == Queued("none", NoIp, 0)

host(t) == IF t \in Proc THEN t ELSE Home[t]

\* Between WATCH and EXEC, and inside with_watch at all.
Watching(t) == pc[t] \in {"used", "exec"}
Inside(t) == Watching(t) \/ tx[t].tries > 0

\* A transaction of task t is over: whose watches it broke, and what t does next.
After(t, next, broken) ==
    tx' = [u \in Task |->
             IF u = t THEN next
             ELSE IF broken /\ tx[u].key = tx[t].key
                  THEN [tx[u] EXCEPT !.intact = FALSE]
             ELSE tx[u]]

Begin(t, op, c) == After(t, Queued(op, c, 0), FALSE)

Goto(t, label) == pc' = [pc EXCEPT ![t] = label]

\* Mutated form: a new context is made whatever the others take.
budgetUnchecked(t) == FALSE

\* The budget refuses a failure that would create a context.
over_budget(t) == ~tx[t].old.made /\ tx[t].used >= Budget

\* The body of a transaction puts commands into the MULTI.
Writes(t) == IF tx[t].op = "record" THEN ~over_budget(t) ELSE tx[t].old.made

\* purge_one
purge_one(s, c, now) ==
    IF context_is_expired(Pruned(s, c, now), now) THEN NoContext
    ELSE Pruned(s, c, now)

\* The context an EXEC of task t leaves.
Written(t) ==
    LET x == tx[t]
    IN  IF x.op = "eval" THEN evaluate_context(x.old, x.key, x.at)
        ELSE IF x.op = "record"
             THEN record_on_context(x.old, [by |-> t, at |-> x.at])
        ELSE purge_one(x.old, x.key, x.at)

\* Mutated form: INCRBY of a new context counts its failure only.
chargeNoBase(t) ==
    IF tx[t].old.made
    THEN estimate_context_bytes(Written(t)) - estimate_context_bytes(tx[t].old)
    ELSE 1

\* INCRBY META_BYTES next_bytes - previous_bytes.
Charge(t) == estimate_context_bytes(Written(t)) - estimate_context_bytes(tx[t].old)

Trips(t) ==
    tx[t].op = "eval" /\ lockout_started(Pruned(tx[t].old, tx[t].key, tx[t].at),
                                         tx[t].key, tx[t].at)

\* EXEC applied: every other watch of the key is broken.
Applied(t) ==
    LET x == tx[t] IN
    /\ ctx' = [ctx EXCEPT ![x.key] = Written(t)]
    /\ bytes' = bytes + Charge(t)
    /\ failed' = IF x.op = "record"
                 THEN [failed EXCEPT ![x.key] = @ \cup {[by |-> t, at |-> x.at]}]
                 ELSE failed
    /\ granted' = IF Trips(t)
                  THEN [granted EXCEPT ![x.key] = [lock |-> Written(t).lock,
                                                   grace |-> Written(t).grace]]
                  ELSE granted

\* The transaction after this one, and where the task waits for it.
Following(t) ==
    LET x == tx[t]
    IN  IF x.op \in {"eval", "record"} /\ x.key \in User /\ peer[t].ip # NoIp
        THEN [tx |-> Queued(x.op, peer[t].ip, 0), pc |-> "watch"]
        ELSE [tx |-> NoTx, pc |-> IF x.op = "eval" THEN "decide"
                                  ELSE IF x.op = "record" THEN "bytes" ELSE "next"]

\* An exception ends a login; a purge still runs its finally.
Thrown(t) == IF t \in Proc THEN "unlock" ELSE "done"

\* WATCH and load_state, when no other task of the process is in a transaction.
Watch(t) ==
    /\ pc[t] = "watch"
    /\ \A u \in Task : u # t /\ host(u) = host(t) => ~Inside(u)
    /\ tx' = [tx EXCEPT ![t].old = ctx[tx[t].key], ![t].at = clock,
                        ![t].intact = TRUE]
    /\ Goto(t, IF tx[t].op = "record" THEN "used" ELSE "exec")
    /\ UNCHANGED <<clock, lease, redisVars, purging, peer, refused, rest>>

\* record_one: read_bytes, which is not watched.
ReadUsed(t) ==
    /\ pc[t] = "used"
    /\ tx' = [tx EXCEPT ![t].used = bytes, ![t].at = clock]
    /\ Goto(t, "exec")
    /\ UNCHANGED <<clock, lease, redisVars, purging, peer, refused, rest>>

\* Mutated form: keys are not watched.
MayCommitBlind(t) == TRUE

\* EXEC answers with a result: nobody wrote the keys, or there was nothing to do.
MayCommit(t) == tx[t].intact \/ ~Writes(t)

Commit(t) ==
    /\ pc[t] = "exec" /\ MayCommit(t)
    /\ IF Writes(t) THEN Applied(t) ELSE UNCHANGED redisVars
    /\ After(t, Following(t).tx, Writes(t))
    /\ Goto(t, Following(t).pc)
    /\ refused' = [refused EXCEPT ![t] =
                     @ \/ /\ tx[t].op = "eval"
                          /\ locked_out(tx[t].old, tx[t].key, tx[t].at)]
    /\ UNCHANGED <<clock, lease, purging, peer, rest>>

\* EXEC was applied, but its reply is lost: the error is not a conflict.
CommitUnheard(t) ==
    /\ pc[t] = "exec" /\ tx[t].intact /\ Writes(t)
    /\ Applied(t)
    /\ After(t, NoTx, TRUE)
    /\ Goto(t, Thrown(t))
    /\ UNCHANGED <<clock, lease, purging, peer, refused, rest>>

\* A watched key was written: again, up to WATCH_RETRY_LIMIT attempts.
Conflict(t) ==
    /\ pc[t] = "exec" /\ ~tx[t].intact
    /\ IF tx[t].tries + 1 < Retries
       THEN /\ After(t, Queued(tx[t].op, tx[t].key, tx[t].tries + 1), FALSE)
            /\ Goto(t, "watch")
       ELSE /\ After(t, NoTx, FALSE)
            /\ Goto(t, Thrown(t))
    /\ UNCHANGED <<clock, lease, redisVars, purging, peer, refused, rest>>

\* A command fails, in or out of a transaction.
RedisFails(t) ==
    /\ pc[t] \in {"watch", "used", "exec", "bytes", "scan", "next"}
    /\ pc[t] = "watch" => \A u \in Task : u # t /\ host(u) = host(t) => ~Inside(u)
    /\ After(t, NoTx, FALSE)
    /\ Goto(t, Thrown(t))
    /\ UNCHANGED <<clock, lease, redisVars, purging, peer, refused, rest>>

\* The connection is lost and made again: the client reports its watch as broken.
Reconnect(t) ==
    /\ Watching(t) /\ tx[t].intact
    /\ tx' = [tx EXCEPT ![t].intact = FALSE]
    /\ UNCHANGED <<clock, lease, redisVars, purging, pc, peer, refused, rest>>

----------------------------------------------------------------------------
\* evaluate and record_failure of a login

Evaluate(t, client) ==
    /\ t \in Login /\ pc[t] = "idle"
    /\ peer' = [peer EXCEPT ![t] = client]
    /\ Begin(t, "eval", client.user)
    /\ Goto(t, "watch")
    /\ UNCHANGED <<clock, lease, redisVars, purging, refused, rest>>

\* run_login_pipeline: a locked out login fails whatever its password.
Succeed(t) ==
    /\ pc[t] = "decide" /\ ~refused[t]
    /\ Goto(t, "done")
    /\ UNCHANGED <<clock, lease, redisVars, purging, peer, refused, tx, rest>>

RecordFailure(t) ==
    /\ pc[t] = "decide"
    /\ Begin(t, "record", peer[t].user)
    /\ Goto(t, "watch")
    /\ UNCHANGED <<clock, lease, redisVars, purging, peer, refused, rest>>

\* PURGE_TRIGGER_RATIO is 0.8.
maybe_schedule_purge(p, used) == used * 10 > Budget * 8 /\ ~purging[p]

\* read_bytes after the records, and the purge it may schedule.
ReadBytes(t) ==
    /\ pc[t] = "bytes"
    /\ IF maybe_schedule_purge(host(t), bytes)
       THEN /\ purging' = [purging EXCEPT ![host(t)] = TRUE]
            /\ pc' = [pc EXCEPT ![t] = "done", ![host(t)] = "lock"]
       ELSE Goto(t, "done") /\ UNCHANGED purging
    /\ UNCHANGED <<clock, lease, redisVars, peer, refused, tx, rest>>

----------------------------------------------------------------------------
\* run_purge

\* SET META_PURGE NX EX.
PurgeLock(p) ==
    /\ pc[p] = "lock" /\ clock >= lease
    /\ lease' = clock + PurgeLease
    /\ Goto(p, "scan")
    /\ UNCHANGED <<clock, redisVars, purging, peer, refused, tx, rest>>

\* Mutated form: the early return leaves local_purge_running set.
PurgeRefusedForgetful(p) ==
    /\ pc[p] = "lock" /\ clock < lease
    /\ Goto(p, "idle")
    /\ UNCHANGED <<clock, lease, redisVars, purging, peer, refused, tx, rest>>

\* Another purge holds the lease; or the SET fails.
PurgeRefused(p) ==
    /\ pc[p] = "lock" /\ clock < lease
    /\ Goto(p, "idle")
    /\ purging' = [purging EXCEPT ![p] = FALSE]
    /\ UNCHANGED <<clock, lease, redisVars, peer, refused, tx, rest>>

PurgeLockFails(p) ==
    /\ pc[p] = "lock"
    /\ lease' \in {lease, IF clock >= lease THEN clock + PurgeLease ELSE lease}
    /\ Goto(p, "idle")
    /\ purging' = [purging EXCEPT ![p] = FALSE]
    /\ UNCHANGED <<clock, redisVars, peer, refused, tx, rest>>

\* SCAN returns the contexts there are, and any of those made while it runs.
PurgeScan(p) ==
    /\ pc[p] = "scan"
    /\ \E seen \in SUBSET Context :
          /\ {c \in Context : ctx[c].made} \subseteq seen
          /\ rest' = [rest EXCEPT ![p] = seen]
    /\ Goto(p, "next")
    /\ UNCHANGED <<clock, lease, redisVars, purging, peer, refused, tx>>

PurgeNext(p) ==
    /\ pc[p] = "next"
    /\ \E c \in rest[p] :
          /\ Begin(p, "purge", c)
          /\ rest' = [rest EXCEPT ![p] = @ \ {c}]
    /\ Goto(p, "watch")
    /\ UNCHANGED <<clock, lease, redisVars, purging, peer, refused>>

PurgeScanned(p) ==
    /\ pc[p] = "next" /\ rest[p] = {}
    /\ Goto(p, "unlock")
    /\ UNCHANGED <<clock, lease, redisVars, purging, peer, refused, tx, rest>>

\* finally: DEL META_PURGE, whoever holds it by now; the DEL may fail.
PurgeUnlock(p) ==
    /\ pc[p] = "unlock"
    /\ lease' \in {0, lease}
    /\ purging' = [purging EXCEPT ![p] = FALSE]
    /\ rest' = [rest EXCEPT ![p] = {}]
    /\ Goto(p, "idle")
    /\ UNCHANGED <<clock, redisVars, peer, refused, tx>>

----------------------------------------------------------------------------
\* The process stops; a new one starts in its place.
Crash(p) ==
    /\ \E t \in Task : host(t) = p /\ pc[t] \notin {"idle", "done"}
    /\ pc' = [t \in Task |->
                IF host(t) # p \/ pc[t] = "idle" THEN pc[t]
                ELSE IF t \in Proc THEN "idle" ELSE "done"]
    /\ tx' = [t \in Task |-> IF host(t) = p THEN NoTx ELSE tx[t]]
    /\ purging' = [purging EXCEPT ![p] = FALSE]
    /\ rest' = [rest EXCEPT ![p] = {}]
    /\ UNCHANGED <<clock, lease, redisVars, peer, refused>>

Tick ==
    /\ clock < MaxTime
    /\ clock' = clock + 1
    /\ UNCHANGED <<lease, redisVars, taskVars>>

\* Contexts may hold failures of one past burst; they were created one after the
\* other, the last of them below the budget.
Loaded(old) == [empty_context EXCEPT !.fails = {[by |-> e, at |-> 0] : e \in old}]

\* META_BYTES counts what the contexts hold.
SumBytes(f) ==
    LET made == {c \in Context : f[c].made}
        stamps == UNION {{<<c, s>> : s \in f[c].fails} : c \in made}
    IN  BaseBytes * Cardinality(made) + Cardinality(stamps)

Init ==
    /\ clock = 0 /\ lease = 0
    /\ ctx \in [Context -> {NoContext} \cup {Loaded(old) : old \in Early}]
    /\ BaseBytes * (Cardinality({c \in Context : ctx[c].made}) - 1) < Budget
    /\ bytes = SumBytes(ctx)
    /\ purging = [p \in Proc |-> FALSE]
    /\ pc = [t \in Task |-> "idle"]
    /\ peer = [t \in Task |-> [user |-> NoIp, ip |-> NoIp]]
    /\ refused = [t \in Task |-> FALSE]
    /\ tx = [t \in Task |-> NoTx]
    /\ rest = [p \in Proc |-> {}]
    /\ failed = [c \in Context |-> ctx[c].fails]
    /\ granted = [c \in Context |-> [lock |-> 0, grace |-> 0]]

TxStep(t) == Watch(t) \/ ReadUsed(t) \/ Commit(t) \/ Conflict(t)
LoginStep(t) == Succeed(t) \/ RecordFailure(t) \/ ReadBytes(t)
PurgeStep(p) ==
    PurgeLock(p) \/ PurgeRefused(p) \/ PurgeScan(p) \/ PurgeNext(p)
        \/ PurgeScanned(p) \/ PurgeUnlock(p)
Faults(t) == CommitUnheard(t) \/ RedisFails(t) \/ Reconnect(t)

Next ==
    \/ \E t \in Login, client \in Client : Evaluate(t, client)
    \/ \E t \in Task : TxStep(t) \/ Faults(t)
    \/ \E t \in Login : LoginStep(t)
    \/ \E p \in Proc : PurgeStep(p) \/ PurgeLockFails(p) \/ Crash(p)
    \/ Tick

Spec == Init /\ [][Next]_vars

\* A process that runs takes the steps of its tasks; requests, faults and time
\* are not assumed.
Fairness ==
    /\ \A t \in Login : WF_vars(TxStep(t) \/ LoginStep(t))
    /\ \A p \in Proc : WF_vars(TxStep(p) \/ PurgeStep(p))

FairSpec == Spec /\ Fairness

----------------------------------------------------------------------------
Labels == {"idle", "watch", "used", "exec", "decide", "bytes", "done", "lock",
           "scan", "next", "unlock"}

Tx == [op : {"none", "eval", "record", "purge"}, key : Context \cup {NoIp},
       old : ContextState, used : Int, at : Nat, intact : BOOLEAN,
       tries : 0 .. Retries - 1]

\* Types; in particular no transaction starts more than WATCH_RETRY_LIMIT attempts.
TypeOK ==
    /\ clock \in Nat /\ lease \in Nat /\ bytes \in Int
    /\ ctx \in [Context -> ContextState]
    /\ purging \in [Proc -> BOOLEAN]
    /\ pc \in [Task -> Labels]
    /\ peer \in [Task -> [user : User \cup {NoIp}, ip : Ip \cup {NoIp}]]
    /\ refused \in [Task -> BOOLEAN]
    /\ tx \in [Task -> Tx]
    /\ rest \in [Proc -> SUBSET Context]
    /\ failed \in [Context -> SUBSET Stamp]
    /\ granted \in [Context -> [lock : Nat, grace : Nat]]

\* META_BYTES, moved by differences against states read earlier, is exactly what
\* the contexts hold: through conflicts, lost replies, crashes and purges.
BytesExact == bytes = SumBytes(ctx)

\* No failure that still counts is lost to a concurrent write or a purge.
NoFailureLost ==
    \A c \in Context : \A f \in failed[c] :
        f.at >= clock - 3 * period(c) => f \in ctx[c].fails

\* local-development.md: "existing lockouts are kept", until they end.
LockoutHolds ==
    \A c \in Context : clock < granted[c].lock => ctx[c].lock = granted[c].lock

\* The same of the grace that follows a lockout.
GraceHolds ==
    \A c \in Context : clock < granted[c].grace => ctx[c].grace = granted[c].grace

\* What a transaction may rely on: its stamp is not ahead of the clock, and while
\* its watch is intact the state it read is the state it replaces.
WatchSound ==
    \A t \in Task :
        /\ tx[t].at <= clock
        /\ pc[t] \in {"watch", "used", "exec"} => tx[t].key \in Context
        /\ Watching(t) /\ tx[t].intact => tx[t].old = ctx[tx[t].key]

\* A key that is not in Redis holds nothing.
AbsentIsEmpty == \A c \in Context : ~ctx[c].made => ctx[c] = NoContext

FiniteFails ==
    /\ \A c \in Context : IsFiniteSet(ctx[c].fails)
    /\ \A t \in Task : IsFiniteSet(tx[t].old.fails)

\* Who runs what: logins evaluate and record, processes purge.
JobsMatch ==
    /\ \A t \in Login :
          /\ pc[t] # "idle" => peer[t].user \in User
          /\ tx[t].op \in {"none", "eval", "record"}
          /\ pc[t] \in {"watch", "used", "exec"} => tx[t].op # "none"
          /\ pc[t] \notin {"lock", "scan", "next", "unlock"}
    /\ \A p \in Proc : tx[p].op \in {"none", "purge"}

\* The inductive invariant behind NoFailureLost, LockoutHolds and TripAfterGrace.
IInv ==
    TypeOK /\ WatchSound /\ AbsentIsEmpty /\ FiniteFails /\ JobsMatch
        /\ NoFailureLost /\ LockoutHolds /\ GraceHolds

\* A burst locks a context out once: no second lockout before the grace is over,
\* neither by logins that evaluated it at the same time nor by one that comes
\* between the end of the lockout and that of the grace.
TripAfterGrace ==
    [][\A c \in Context : granted'[c] # granted[c] => clock >= granted[c].grace]_vars

\* The budget is checked against an unwatched read: each process may create one
\* context too many, and no more.
ContextsBounded ==
    BaseBytes * (Cardinality({c \in Context : ctx[c].made}) - Cardinality(Proc)) < Budget

\* Every login is answered and every purge gives its process the next one.
TasksEnd ==
    /\ \A t \in Login : pc[t] # "idle" ~> pc[t] = "done"
    /\ \A p \in Proc : purging[p] ~> ~purging[p]
============================================================================
