-------------------------- MODULE RateLimitProofs --------------------------
(***************************************************************************)
(* Theorems about RateLimit for any number of processes, logins and        *)
(* contexts and any settings.  The argument: a transaction that commits    *)
(* read the very state it replaces (WatchSound), so its effect is one of   *)
(* the three functions of rate_limit.ts on the current state, taken at a   *)
(* stamp no later than the clock; each keeps what still counts.            *)
(*                                                                         *)
(* The byte count is exact because an EXEC that commits replaces the size  *)
(* it has read.  The bound on contexts counts those stored together with   *)
(* the creators that have passed the budget check: of each process there   *)
(* is one at most.                                                         *)
(***************************************************************************)
EXTENDS RateLimit, FiniteSetTheorems, TLAPS

\* Pruning keeps the type and every failure of the window.
LEMMA PrunedType ==
    ASSUME NEW s \in ContextState, NEW c \in Context, NEW now \in Nat
    PROVE  /\ Pruned(s, c, now) \in ContextState
           /\ Pruned(s, c, now).made = s.made
           /\ Pruned(s, c, now).lock = s.lock
           /\ Pruned(s, c, now).grace = s.grace
           /\ Pruned(s, c, now).fails =
                  {f \in s.fails : f.at >= now - 3 * period(c)}
  BY DEF Pruned, prune_failures, ContextState

LEMMA EmptyType == NoContext \in ContextState /\ empty_context \in ContextState
  BY DEF NoContext, empty_context, ContextState

\* What evaluate_context leaves: the failures of the window, and either the old
\* lockout and grace or, past both, new ones.
LEMMA EvaluateFact ==
    ASSUME NEW s \in ContextState, NEW c \in Context, NEW now \in Nat
    PROVE  LET e == evaluate_context(s, c, now) IN
           /\ e \in ContextState
           /\ e.made = s.made
           /\ e.fails = {f \in s.fails : f.at >= now - 3 * period(c)}
           /\ ~lockout_started(Pruned(s, c, now), c, now) =>
                  e.lock = s.lock /\ e.grace = s.grace
           /\ lockout_started(Pruned(s, c, now), c, now) =>
                  now >= s.lock /\ now >= s.grace
  <1>1. Lockout \in Nat
    BY SettingsAssumption
  <1>2. now + Lockout \in Nat /\ now + 2 * Lockout \in Nat
    BY <1>1
  <1>3. CASE lockout_started(Pruned(s, c, now), c, now)
    <2>1. evaluate_context(s, c, now) =
            [Pruned(s, c, now) EXCEPT !.lock = now + Lockout,
                                      !.grace = now + 2 * Lockout]
      BY <1>3 DEF evaluate_context
    <2>2. now >= s.lock /\ now >= s.grace
      BY <1>3, PrunedType DEF lockout_started
    <2> DEFINE e == evaluate_context(s, c, now)
               q == Pruned(s, c, now)
    <2>3. q \in ContextState /\ q.made = s.made
            /\ q.fails = {f \in s.fails : f.at >= now - 3 * period(c)}
      BY PrunedType
    <2>4. e = [q EXCEPT !.lock = now + Lockout, !.grace = now + 2 * Lockout]
      BY <2>1
    <2> HIDE DEF e, q
    <2>5. e \in ContextState
      BY <1>2, <2>3, <2>4 DEF ContextState
    <2>6. e.made = q.made /\ e.fails = q.fails
      BY <2>3, <2>4 DEF ContextState
    <2>7. /\ e \in ContextState /\ e.made = s.made
          /\ e.fails = {f \in s.fails : f.at >= now - 3 * period(c)}
      BY <2>3, <2>5, <2>6
    <2> QED  BY <1>3, <2>2, <2>7 DEF e
  <1>4. CASE ~lockout_started(Pruned(s, c, now), c, now)
    BY <1>4, PrunedType DEF evaluate_context
  <1> QED  BY <1>3, <1>4

\* What purge_one leaves: nothing, when nothing counts any more, or the window.
LEMMA PurgeFact ==
    ASSUME NEW s \in ContextState, NEW c \in Context, NEW now \in Nat
    PROVE  LET e == purge_one(s, c, now) IN
           /\ e \in ContextState
           /\ \/ /\ e = NoContext
                 /\ now >= s.lock /\ now >= s.grace
                 /\ \A f \in s.fails : ~(f.at >= now - 3 * period(c))
              \/ /\ e.made = s.made /\ e.lock = s.lock /\ e.grace = s.grace
                 /\ e.fails = {f \in s.fails : f.at >= now - 3 * period(c)}
  <1>1. CASE context_is_expired(Pruned(s, c, now), now)
    BY <1>1, PrunedType, EmptyType DEF purge_one, context_is_expired
  <1>2. CASE ~context_is_expired(Pruned(s, c, now), now)
    BY <1>2, PrunedType DEF purge_one
  <1> QED  BY <1>1, <1>2

\* What record_on_context leaves: one failure more.
LEMMA RecordFact ==
    ASSUME NEW s \in ContextState, NEW f \in Stamp, ~s.made => s = NoContext
    PROVE  LET e == record_on_context(s, f) IN
           /\ e \in ContextState /\ e.made
           /\ e.lock = s.lock /\ e.grace = s.grace
           /\ e.fails = s.fails \cup {f}
  <1>1. CASE s.made
    BY <1>1 DEF record_on_context, ContextState
  <1>2. CASE ~s.made
    BY <1>2, EmptyType DEF record_on_context, ContextState, empty_context, NoContext
  <1> QED  BY <1>1, <1>2

----------------------------------------------------------------------------
\* A transaction about to commit: it works on the state it replaces.
LEMMA CommitFacts ==
    ASSUME IInv, NEW t \in Task, pc[t] = "exec", tx[t].intact, Writes(t)
    PROVE  /\ tx[t].key \in Context /\ tx[t].at \in Nat /\ tx[t].at <= clock
           /\ clock \in Nat
           /\ tx[t].old = ctx[tx[t].key] /\ tx[t].old \in ContextState
           /\ ~tx[t].old.made => tx[t].old = NoContext
           /\ tx[t].op = "record" => [by |-> t, at |-> tx[t].at] \in Stamp
           /\ tx[t].op # "record" => tx[t].old.made
  <1>1. tx[t] \in Tx /\ clock \in Nat /\ ctx \in [Context -> ContextState]
    BY DEF IInv, TypeOK
  <1>2. tx[t].key \in Context /\ tx[t].at <= clock /\ tx[t].old = ctx[tx[t].key]
    BY DEF IInv, WatchSound, Watching
  <1>3. tx[t].at \in Nat /\ tx[t].old \in ContextState
    BY <1>1 DEF Tx
  <1>4. ~tx[t].old.made => tx[t].old = NoContext
    BY <1>2 DEF IInv, AbsentIsEmpty
  <1>5. tx[t].op = "record" => t \in Login
    BY DEF IInv, JobsMatch, Task
  <1>6. tx[t].op = "record" => [by |-> t, at |-> tx[t].at] \in Stamp
    BY <1>3, <1>5 DEF Stamp
  <1>7. tx[t].op # "record" => tx[t].old.made
    BY DEF Writes
  <1> QED  BY <1>1, <1>2, <1>3, <1>4, <1>6, <1>7

\* What an EXEC writes: a lockout or grace that runs is kept, and so is every
\* failure of the window; a new lockout comes only after the old grace.
LEMMA WrittenFacts ==
    ASSUME IInv, NEW t \in Task, pc[t] = "exec", tx[t].intact, Writes(t)
    PROVE  LET c == tx[t].key
               w == Written(t)
           IN  /\ w \in ContextState
               /\ ~w.made => w = NoContext
               /\ ~Trips(t) /\ clock < ctx[c].lock => w.lock = ctx[c].lock
               /\ ~Trips(t) /\ clock < ctx[c].grace => w.grace = ctx[c].grace
               /\ Trips(t) => clock >= ctx[c].lock /\ clock >= ctx[c].grace
               /\ \A f \in ctx[c].fails :
                      f.at \in Nat /\ f.at >= clock - 3 * period(c) => f \in w.fails
               /\ tx[t].op = "record" => [by |-> t, at |-> tx[t].at] \in w.fails
               /\ w.fails \subseteq ctx[c].fails \cup {[by |-> t, at |-> tx[t].at]}
  <1> DEFINE c == tx[t].key
             w == Written(t)
             s == tx[t].old
             now == tx[t].at
  <1>1. /\ c \in Context /\ now \in Nat /\ now <= clock /\ clock \in Nat
        /\ s = ctx[c] /\ s \in ContextState
        /\ ~s.made => s = NoContext
        /\ tx[t].op = "record" => [by |-> t, at |-> now] \in Stamp
        /\ tx[t].op # "record" => s.made
    BY CommitFacts
  <1>2. period(c) \in Nat
    BY SettingsAssumption DEF period
  <1>3. s.lock \in Nat /\ s.grace \in Nat
    BY <1>1 DEF ContextState
  <1>4. \A f \in s.fails : f.at \in Nat
    BY <1>1 DEF ContextState, Stamp
  <1>5. CASE tx[t].op = "eval"
    <2>1. w = evaluate_context(s, c, now)
      BY <1>5 DEF Written
    <2>2. Trips(t) <=> lockout_started(Pruned(s, c, now), c, now)
      BY <1>5 DEF Trips
    <2> HIDE DEF w, s, c, now
    <2>3. /\ w \in ContextState /\ w.made = s.made
          /\ w.fails = {f \in s.fails : f.at >= now - 3 * period(c)}
          /\ ~Trips(t) => w.lock = s.lock /\ w.grace = s.grace
          /\ Trips(t) => now >= s.lock /\ now >= s.grace
      BY <1>1, <2>1, <2>2, EvaluateFact
    <2>4. \A f \in s.fails : f.at \in Nat /\ f.at >= clock - 3 * period(c) => f \in w.fails
      BY <1>1, <1>2, <1>4, <2>3
    <2>5. Trips(t) => clock >= s.lock /\ clock >= s.grace
      BY <1>1, <1>3, <2>3
    <2>6. w.made
      BY <1>1, <1>5, <2>3
    <2> QED  BY <1>1, <1>5, <2>3, <2>4, <2>5, <2>6 DEF w, s, c, now
  <1>6. CASE tx[t].op = "record"
    <2>1. w = record_on_context(s, [by |-> t, at |-> now])
      BY <1>6 DEF Written
    <2>2. ~Trips(t)
      BY <1>6 DEF Trips
    <2> HIDE DEF w, s, c, now
    <2>3. /\ w \in ContextState /\ w.made
          /\ w.lock = s.lock /\ w.grace = s.grace
          /\ w.fails = s.fails \cup {[by |-> t, at |-> now]}
      BY <1>1, <1>6, <2>1, RecordFact
    <2> QED  BY <1>1, <1>6, <2>2, <2>3 DEF w, s, c, now
  <1>7. CASE tx[t].op \notin {"eval", "record"}
    <2>1. w = purge_one(s, c, now)
      BY <1>7 DEF Written
    <2>2. ~Trips(t)
      BY <1>7 DEF Trips
    <2> HIDE DEF w, s, c, now
    <2>3. s.made
      BY <1>1, <1>7
    <2>4. /\ w \in ContextState
          /\ \/ /\ w = NoContext
                /\ now >= s.lock /\ now >= s.grace
                /\ \A f \in s.fails : ~(f.at >= now - 3 * period(c))
             \/ /\ w.made = s.made /\ w.lock = s.lock /\ w.grace = s.grace
                /\ w.fails = {f \in s.fails : f.at >= now - 3 * period(c)}
      BY <1>1, <2>1, PurgeFact
    <2>5. \A f \in s.fails : f.at \in Nat /\ f.at >= clock - 3 * period(c) => f \in w.fails
      BY <1>1, <1>2, <1>4, <2>4
    <2>6. /\ clock < s.lock => w.lock = s.lock
          /\ clock < s.grace => w.grace = s.grace
      BY <1>1, <1>3, <2>4
    <2>7. ~w.made => w = NoContext
      BY <2>3, <2>4
    <2>8. w.fails \subseteq s.fails
      BY <2>4 DEF NoContext
    <2> QED  BY <1>1, <1>7, <2>2, <2>4, <2>5, <2>6, <2>7, <2>8 DEF w, s, c, now
  <1> QED  BY <1>5, <1>6, <1>7

\* INCRBY moves META_BYTES by an integer.
LEMMA ChargeIsInt ==
    ASSUME IInv, NEW t \in Task, pc[t] = "exec", tx[t].intact, Writes(t)
    PROVE  IsFiniteSet(Written(t).fails) /\ Charge(t) \in Int
  <1> DEFINE w == Written(t)
             s == tx[t].old
             f == [by |-> t, at |-> tx[t].at]
  <1>1. s = ctx[tx[t].key] /\ tx[t].key \in Context
    BY CommitFacts
  <1>2. IsFiniteSet(s.fails)
    BY DEF IInv, FiniteFails
  <1>3. IsFiniteSet(s.fails \cup {f})
    BY <1>2, FS_AddElement
  <1>4. w.fails \subseteq s.fails \cup {f}
    BY <1>1, WrittenFacts
  <1>5. IsFiniteSet(w.fails)
    BY <1>3, <1>4, FS_Subset
  <1>6. Cardinality(w.fails) \in Nat /\ Cardinality(s.fails) \in Nat
    BY <1>2, <1>5, FS_CardinalityType
  <1> HIDE DEF w, s
  <1>7. estimate_context_bytes(w) \in Int /\ estimate_context_bytes(s) \in Int
    BY <1>6 DEF estimate_context_bytes, BaseBytes
  <1> QED  BY <1>5, <1>7 DEF Charge, w, s

\* An EXEC keeps what is said of the data in Redis.
LEMMA AppliedFacts ==
    ASSUME IInv, NEW t \in Task, pc[t] = "exec", tx[t].intact, Writes(t),
           Applied(t), clock' = clock
    PROVE  /\ ctx' \in [Context -> ContextState] /\ bytes' \in Int
           /\ failed' \in [Context -> SUBSET Stamp]
           /\ granted' \in [Context -> [lock : Nat, grace : Nat]]
           /\ \A c \in Context : c # tx[t].key => ctx'[c] = ctx[c]
           /\ \A c \in Context : IsFiniteSet(ctx'[c].fails)
           /\ AbsentIsEmpty' /\ NoFailureLost' /\ LockoutHolds' /\ GraceHolds'
           /\ \A c \in Context : granted'[c] # granted[c] => clock >= granted[c].grace
  <1> DEFINE k == tx[t].key
             w == Written(t)
             f == [by |-> t, at |-> tx[t].at]
  <1>1. /\ k \in Context /\ clock \in Nat
        /\ tx[t].op = "record" => f \in Stamp
    BY CommitFacts
  <1>2. /\ ctx \in [Context -> ContextState] /\ bytes \in Int
        /\ failed \in [Context -> SUBSET Stamp]
        /\ granted \in [Context -> [lock : Nat, grace : Nat]]
    BY DEF IInv, TypeOK
  <1>3. /\ w \in ContextState
        /\ ~w.made => w = NoContext
        /\ ~Trips(t) /\ clock < ctx[k].lock => w.lock = ctx[k].lock
        /\ ~Trips(t) /\ clock < ctx[k].grace => w.grace = ctx[k].grace
        /\ Trips(t) => clock >= ctx[k].lock /\ clock >= ctx[k].grace
        /\ \A g \in ctx[k].fails :
               g.at \in Nat /\ g.at >= clock - 3 * period(k) => g \in w.fails
        /\ tx[t].op = "record" => f \in w.fails
    BY WrittenFacts
  <1>4. IsFiniteSet(w.fails) /\ Charge(t) \in Int
    BY ChargeIsInt
  <1>5. /\ ctx' = [ctx EXCEPT ![k] = w]
        /\ bytes' = bytes + Charge(t)
        /\ failed' = IF tx[t].op = "record"
                     THEN [failed EXCEPT ![k] = @ \cup {f}] ELSE failed
        /\ granted' = IF Trips(t)
                      THEN [granted EXCEPT ![k] = [lock |-> w.lock, grace |-> w.grace]]
                      ELSE granted
    BY DEF Applied
  <1>6. w.lock \in Nat /\ w.grace \in Nat
    BY <1>3 DEF ContextState
  <1> HIDE DEF k, w, f
  <1>7. ctx' \in [Context -> ContextState] /\ bytes' \in Int
    BY <1>1, <1>2, <1>3, <1>4, <1>5
  <1>8. failed' \in [Context -> SUBSET Stamp]
    BY <1>1, <1>2, <1>5
  <1>9. granted' \in [Context -> [lock : Nat, grace : Nat]]
    BY <1>1, <1>2, <1>5, <1>6
  <1>10. ctx'[k] = w /\ \A c \in Context : c # k => ctx'[c] = ctx[c]
    BY <1>1, <1>2, <1>5
  <1>11. \A c \in Context : IsFiniteSet(ctx'[c].fails)
    BY <1>4, <1>10 DEF IInv, FiniteFails
  <1>12. AbsentIsEmpty'
    BY <1>3, <1>10 DEF IInv, AbsentIsEmpty
  <1>13. \A c \in Context : c # k => failed'[c] = failed[c] /\ granted'[c] = granted[c]
    BY <1>1, <1>2, <1>5
  <1>14. NoFailureLost'
    <2> SUFFICES ASSUME NEW c \in Context, NEW g \in failed'[c],
                        g.at >= clock - 3 * period(c)
                 PROVE  g \in ctx'[c].fails
      BY DEF NoFailureLost, period
    <2>1. CASE c # k
      BY <1>10, <1>13, <2>1 DEF IInv, NoFailureLost
    <2>2. CASE c = k
      <3>1. g \in failed[k] \/ (tx[t].op = "record" /\ g = f)
        BY <1>1, <1>2, <1>5, <2>2
      <3>2. CASE g \in failed[k]
        <4>1. g.at \in Nat
          BY <1>1, <1>2, <3>2 DEF Stamp
        <4>2. g \in ctx[k].fails
          BY <1>1, <2>2, <3>2 DEF IInv, NoFailureLost
        <4> QED  BY <1>3, <1>10, <2>2, <4>1, <4>2
      <3>3. CASE tx[t].op = "record" /\ g = f
        BY <1>3, <1>10, <2>2, <3>3
      <3> QED  BY <3>1, <3>2, <3>3
    <2> QED  BY <2>1, <2>2
  <1>15. LockoutHolds'
    <2> SUFFICES ASSUME NEW c \in Context, clock < granted'[c].lock
                 PROVE  ctx'[c].lock = granted'[c].lock
      BY DEF LockoutHolds
    <2>1. CASE c # k
      BY <1>10, <1>13, <2>1 DEF IInv, LockoutHolds
    <2>2. CASE c = k /\ Trips(t)
      BY <1>1, <1>2, <1>5, <1>10, <2>2
    <2>3. CASE c = k /\ ~Trips(t)
      BY <1>3, <1>5, <1>10, <2>3 DEF IInv, LockoutHolds
    <2> QED  BY <2>1, <2>2, <2>3
  <1>16. GraceHolds'
    <2> SUFFICES ASSUME NEW c \in Context, clock < granted'[c].grace
                 PROVE  ctx'[c].grace = granted'[c].grace
      BY DEF GraceHolds
    <2>1. CASE c # k
      BY <1>10, <1>13, <2>1 DEF IInv, GraceHolds
    <2>2. CASE c = k /\ Trips(t)
      BY <1>1, <1>2, <1>5, <1>10, <2>2
    <2>3. CASE c = k /\ ~Trips(t)
      BY <1>3, <1>5, <1>10, <2>3 DEF IInv, GraceHolds
    <2> QED  BY <2>1, <2>2, <2>3
  <1>17. ASSUME NEW c \in Context, granted'[c] # granted[c]
         PROVE  clock >= granted[c].grace
    <2>1. c = k /\ Trips(t)
      BY <1>5, <1>13, <1>17
    <2>2. clock >= ctx[c].grace
      BY <1>3, <2>1
    <2>3. clock < granted[c].grace => ctx[c].grace = granted[c].grace
      BY DEF IInv, GraceHolds
    <2>4. granted[c].grace \in Nat /\ ctx[c].grace \in Nat
      BY <1>2 DEF ContextState
    <2> QED  BY <1>1, <2>2, <2>3, <2>4
  <1> QED  BY <1>7, <1>8, <1>9, <1>10, <1>11, <1>12, <1>14, <1>15, <1>16, <1>17 DEF k

----------------------------------------------------------------------------
\* A step that leaves Redis alone, time passing or not, keeps what is said of it.
LEMMA RedisKept ==
    ASSUME IInv, UNCHANGED redisVars, clock' \in Nat, clock <= clock'
    PROVE  /\ ctx' \in [Context -> ContextState] /\ bytes' \in Int
           /\ failed' \in [Context -> SUBSET Stamp]
           /\ granted' \in [Context -> [lock : Nat, grace : Nat]]
           /\ \A c \in Context : ctx'[c] = ctx[c]
           /\ \A c \in Context : IsFiniteSet(ctx'[c].fails)
           /\ AbsentIsEmpty' /\ NoFailureLost' /\ LockoutHolds' /\ GraceHolds'
  <1>1. /\ clock \in Nat /\ failed \in [Context -> SUBSET Stamp]
        /\ granted \in [Context -> [lock : Nat, grace : Nat]]
    BY DEF IInv, TypeOK
  <1>2. ctx' = ctx /\ bytes' = bytes /\ failed' = failed /\ granted' = granted
    BY DEF redisVars
  <1>3. NoFailureLost'
    <2> SUFFICES ASSUME NEW c \in Context, NEW g \in failed[c],
                        g.at >= clock' - 3 * period(c)
                 PROVE  g \in ctx[c].fails
      BY <1>2 DEF NoFailureLost, period
    <2>1. g.at \in Nat /\ period(c) \in Nat
      BY <1>1, SettingsAssumption DEF Stamp, period
    <2>2. g.at >= clock - 3 * period(c)
      BY <1>1, <2>1
    <2> QED  BY <2>2 DEF IInv, NoFailureLost
  <1>4. LockoutHolds' /\ GraceHolds'
    <2>1. \A c \in Context : granted[c].lock \in Nat /\ granted[c].grace \in Nat
      BY <1>1
    <2> QED  BY <1>1, <1>2, <2>1 DEF IInv, LockoutHolds, GraceHolds
  <1> QED  BY <1>2, <1>3, <1>4 DEF IInv, TypeOK, AbsentIsEmpty, FiniteFails

LEMMA QueuedType ==
    ASSUME NEW op \in {"none", "eval", "record", "purge"},
           NEW c \in Context \cup {NoIp}, NEW n \in 0 .. Retries - 1
    PROVE  /\ Queued(op, c, n) \in Tx
           /\ Queued(op, c, n).op = op /\ Queued(op, c, n).key = c
           /\ Queued(op, c, n).at = 0 /\ Queued(op, c, n).old = NoContext
  BY EmptyType DEF Queued, Tx

LEMMA NoTxType ==
    NoTx \in Tx /\ NoTx.op = "none" /\ NoTx.at = 0 /\ NoTx.old = NoContext
  BY QueuedType, SettingsAssumption DEF NoTx

LEMMA NoContextFinite == IsFiniteSet(NoContext.fails)
  BY FS_EmptySet DEF NoContext

\* What is said of the tasks' own state.
TaskPart ==
    /\ pc \in [Task -> Labels] /\ tx \in [Task -> Tx]
    /\ WatchSound /\ JobsMatch
    /\ \A t \in Task : IsFiniteSet(tx[t].old.fails)

\* A task ends a transaction, or its work outside one, and waits for the next
\* step: the others keep what they read unless their watch was broken.
LEMMA AfterKeepsTasks ==
    ASSUME IInv, NEW t \in Task, NEW next \in Tx, NEW label \in Labels,
           NEW broken \in BOOLEAN,
           next.at = 0, next.old = NoContext,
           label \notin {"used", "exec"}, label = "watch" => next.key \in Context,
           After(t, next, broken), Goto(t, label),
           clock' = clock,
           \A c \in Context : c # tx[t].key \/ ~broken => ctx'[c] = ctx[c],
           \A u \in Task : u # t => peer'[u] = peer[u],
           t \in Login =>
              /\ label # "idle" => peer'[t].user \in User
              /\ next.op \in {"none", "eval", "record"}
              /\ label = "watch" => next.op # "none"
              /\ label \notin {"lock", "scan", "next", "unlock"},
           t \in Proc => next.op \in {"none", "purge"}
    PROVE  TaskPart'
  <1>1. /\ clock \in Nat /\ tx \in [Task -> Tx] /\ pc \in [Task -> Labels]
    BY DEF IInv, TypeOK
  <1>2. pc' = [pc EXCEPT ![t] = label]
    BY DEF Goto
  <1>3. pc' \in [Task -> Labels] /\ pc'[t] = label
          /\ \A u \in Task : u # t => pc'[u] = pc[u]
    BY <1>1, <1>2
  <1>4. tx'[t] = next
    BY DEF After
  <1>5. ASSUME NEW u \in Task, u # t
        PROVE  /\ tx'[u] \in Tx
               /\ tx'[u].op = tx[u].op /\ tx'[u].key = tx[u].key
               /\ tx'[u].at = tx[u].at /\ tx'[u].old = tx[u].old
               /\ tx'[u].intact => tx[u].intact /\ ~(broken /\ tx[u].key = tx[t].key)
    <2>1. tx[u] \in Tx
      BY <1>1
    <2>2. CASE broken /\ tx[u].key = tx[t].key
      <3>1. tx'[u] = [tx[u] EXCEPT !.intact = FALSE]
        BY <1>5, <2>2 DEF After
      <3> QED  BY <2>1, <3>1 DEF Tx
    <2>3. CASE ~(broken /\ tx[u].key = tx[t].key)
      <3>1. tx'[u] = tx[u]
        BY <1>5, <2>3 DEF After
      <3> QED  BY <2>1, <2>3, <3>1
    <2> QED  BY <2>2, <2>3
  <1>6. tx' \in [Task -> Tx]
    <2>1. DOMAIN tx' = Task /\ tx' = [u \in Task |-> tx'[u]]
      BY DEF After
    <2> QED  BY <1>4, <1>5, <2>1
  <1>7. WatchSound'
    <2> SUFFICES ASSUME NEW u \in Task
                 PROVE  /\ tx'[u].at <= clock
                        /\ pc'[u] \in {"watch", "used", "exec"} => tx'[u].key \in Context
                        /\ pc'[u] \in {"used", "exec"} /\ tx'[u].intact =>
                                tx'[u].old = ctx'[tx'[u].key]
      BY DEF WatchSound, Watching
    <2>1. CASE u = t
      BY <1>1, <1>3, <1>4, <2>1
    <2>2. CASE u # t
      <3>1. /\ tx[u].at <= clock
            /\ pc[u] \in {"watch", "used", "exec"} => tx[u].key \in Context
            /\ pc[u] \in {"used", "exec"} /\ tx[u].intact => tx[u].old = ctx[tx[u].key]
        BY DEF IInv, WatchSound, Watching
      <3> QED  BY <1>3, <1>5, <2>2, <3>1
    <2> QED  BY <2>1, <2>2
  <1>8. JobsMatch'
    <2>1. ASSUME NEW u \in Login
          PROVE  /\ pc'[u] # "idle" => peer'[u].user \in User
                 /\ tx'[u].op \in {"none", "eval", "record"}
                 /\ pc'[u] \in {"watch", "used", "exec"} => tx'[u].op # "none"
                 /\ pc'[u] \notin {"lock", "scan", "next", "unlock"}
      <3>1. u \in Task
        BY DEF Task
      <3>2. CASE u = t
        BY <1>3, <1>4, <2>1, <3>2
      <3>3. CASE u # t
        BY <1>3, <1>5, <2>1, <3>1, <3>3 DEF IInv, JobsMatch
      <3> QED  BY <3>2, <3>3
    <2>2. ASSUME NEW u \in Proc  PROVE tx'[u].op \in {"none", "purge"}
      <3>1. u \in Task
        BY DEF Task
      <3>2. CASE u = t
        BY <1>4, <2>2, <3>2
      <3>3. CASE u # t
        BY <1>5, <2>2, <3>1, <3>3 DEF IInv, JobsMatch
      <3> QED  BY <3>2, <3>3
    <2> QED  BY <2>1, <2>2 DEF JobsMatch
  <1>9. \A u \in Task : IsFiniteSet(tx'[u].old.fails)
    BY <1>4, <1>5, NoContextFinite DEF IInv, FiniteFails
  <1> QED  BY <1>3, <1>6, <1>7, <1>8, <1>9 DEF TaskPart

\* A task changes nothing but its place outside of transactions.
LEMMA GotoKeepsTasks ==
    ASSUME IInv, NEW t \in Task, NEW label \in Labels \ {"idle", "watch", "used", "exec"},
           t \in Login => pc[t] # "idle" /\ label \notin {"lock", "scan", "next", "unlock"},
           Goto(t, label), UNCHANGED <<clock, ctx, tx, peer>>
    PROVE  TaskPart'
  <1>1. /\ pc' \in [Task -> Labels] /\ pc'[t] = label
        /\ \A u \in Task : u # t => pc'[u] = pc[u]
    BY DEF IInv, TypeOK, Goto
  <1>2. WatchSound'
    BY <1>1 DEF IInv, WatchSound, Watching
  <1>3. JobsMatch'
    BY <1>1 DEF IInv, JobsMatch, Task
  <1> QED  BY <1>1, <1>2, <1>3 DEF IInv, TypeOK, FiniteFails, TaskPart

\* The parts put together.
LEMMA Assemble ==
    ASSUME TaskPart', clock' \in Nat, lease' \in Nat,
           ctx' \in [Context -> ContextState], bytes' \in Int,
           failed' \in [Context -> SUBSET Stamp],
           granted' \in [Context -> [lock : Nat, grace : Nat]],
           \A c \in Context : IsFiniteSet(ctx'[c].fails),
           AbsentIsEmpty', NoFailureLost', LockoutHolds', GraceHolds',
           purging' \in [Proc -> BOOLEAN],
           peer' \in [Task -> [user : User \cup {NoIp}, ip : Ip \cup {NoIp}]],
           refused' \in [Task -> BOOLEAN],
           rest' \in [Proc -> SUBSET Context]
    PROVE  IInv'
  BY DEF IInv, TypeOK, TaskPart, FiniteFails

----------------------------------------------------------------------------
\* WATCH and the reads: the state a task holds is the current one.
LEMMA WatchKeeps ==
    ASSUME IInv, NEW t \in Task, Watch(t)
    PROVE  IInv'
  <1>1. /\ clock \in Nat /\ tx \in [Task -> Tx] /\ pc \in [Task -> Labels]
        /\ ctx \in [Context -> ContextState]
    BY DEF IInv, TypeOK
  <1>2. tx[t].key \in Context /\ tx[t] \in Tx /\ pc[t] = "watch"
    BY <1>1 DEF IInv, WatchSound, Watch
  <1>3. tx' = [tx EXCEPT ![t] = [tx[t] EXCEPT !.old = ctx[tx[t].key], !.at = clock,
                                              !.intact = TRUE]]
    BY <1>1, <1>2 DEF Watch, Tx
  <1> DEFINE x == [tx[t] EXCEPT !.old = ctx[tx[t].key], !.at = clock, !.intact = TRUE]
  <1>4. /\ x \in Tx /\ x.op = tx[t].op /\ x.key = tx[t].key
        /\ x.old = ctx[tx[t].key] /\ x.at = clock
    <2>1. ctx[tx[t].key] \in ContextState
      BY <1>1, <1>2
    <2> DEFINE y == [tx[t] EXCEPT !.old = ctx[tx[t].key]]
               z == [y EXCEPT !.at = clock]
    <2>2. y \in Tx /\ y.op = tx[t].op /\ y.key = tx[t].key /\ y.old = ctx[tx[t].key]
      BY <1>2, <2>1 DEF Tx
    <2> HIDE DEF y
    <2>3. z \in Tx /\ z.op = y.op /\ z.key = y.key /\ z.old = y.old /\ z.at = clock
      BY <1>1, <2>2 DEF Tx
    <2>4. x = [z EXCEPT !.intact = TRUE]
      BY DEF x, y, z
    <2> HIDE DEF z
    <2>5. x \in Tx /\ x.op = z.op /\ x.key = z.key /\ x.old = z.old /\ x.at = z.at
      BY <2>3, <2>4 DEF Tx
    <2> QED  BY <2>2, <2>3, <2>5
  <1> HIDE DEF x
  <1>5. tx' \in [Task -> Tx] /\ tx'[t] = x /\ \A u \in Task : u # t => tx'[u] = tx[u]
    BY <1>1, <1>3, <1>4 DEF x
  <1>6. /\ pc' \in [Task -> Labels] /\ pc'[t] \in {"used", "exec"}
        /\ \A u \in Task : u # t => pc'[u] = pc[u]
    BY <1>1 DEF Watch, Goto, Labels
  <1>7. /\ UNCHANGED redisVars /\ clock' = clock /\ peer' = peer
    BY DEF Watch
  <1>8. WatchSound'
    BY <1>1, <1>2, <1>4, <1>5, <1>6, <1>7 DEF IInv, WatchSound, Watching, redisVars
  <1>9. JobsMatch'
    BY <1>2, <1>4, <1>5, <1>6, <1>7 DEF IInv, JobsMatch, Task
  <1>10. \A u \in Task : IsFiniteSet(tx'[u].old.fails)
    BY <1>2, <1>4, <1>5 DEF IInv, FiniteFails
  <1>11. TaskPart'
    BY <1>5, <1>6, <1>8, <1>9, <1>10 DEF TaskPart
  <1>12. purging' = purging /\ refused' = refused /\ rest' = rest /\ lease' = lease
    BY DEF Watch
  <1> QED  BY <1>1, <1>7, <1>11, <1>12, RedisKept, Assemble DEF IInv, TypeOK

LEMMA ReadUsedKeeps ==
    ASSUME IInv, NEW t \in Task, ReadUsed(t)
    PROVE  IInv'
  <1>1. /\ clock \in Nat /\ tx \in [Task -> Tx] /\ pc \in [Task -> Labels]
        /\ bytes \in Int
    BY DEF IInv, TypeOK
  <1>2. tx[t] \in Tx /\ pc[t] = "used"
    BY <1>1 DEF ReadUsed
  <1> DEFINE x == [tx[t] EXCEPT !.used = bytes, !.at = clock]
  <1>3. tx' = [tx EXCEPT ![t] = x]
    BY <1>1, <1>2 DEF ReadUsed, Tx
  <1>4. /\ x \in Tx /\ x.op = tx[t].op /\ x.key = tx[t].key
        /\ x.old = tx[t].old /\ x.at = clock /\ x.intact = tx[t].intact
    <2> DEFINE y == [tx[t] EXCEPT !.used = bytes]
    <2>1. /\ y \in Tx /\ y.op = tx[t].op /\ y.key = tx[t].key
          /\ y.old = tx[t].old /\ y.intact = tx[t].intact
      BY <1>1, <1>2 DEF Tx
    <2>2. x = [y EXCEPT !.at = clock]
      BY DEF x, y
    <2> HIDE DEF x, y
    <2>3. /\ x \in Tx /\ x.op = y.op /\ x.key = y.key
          /\ x.old = y.old /\ x.at = clock /\ x.intact = y.intact
      BY <1>1, <2>1, <2>2 DEF Tx
    <2> QED  BY <2>1, <2>3
  <1> HIDE DEF x
  <1>5. tx' \in [Task -> Tx] /\ tx'[t] = x /\ \A u \in Task : u # t => tx'[u] = tx[u]
    BY <1>1, <1>3, <1>4
  <1>6. /\ pc' \in [Task -> Labels] /\ pc'[t] = "exec"
        /\ \A u \in Task : u # t => pc'[u] = pc[u]
    BY <1>1 DEF ReadUsed, Goto, Labels
  <1>7. /\ UNCHANGED redisVars /\ clock' = clock /\ peer' = peer
    BY DEF ReadUsed
  <1>8. WatchSound'
    BY <1>1, <1>2, <1>4, <1>5, <1>6, <1>7 DEF IInv, WatchSound, Watching, redisVars
  <1>9. JobsMatch'
    BY <1>2, <1>4, <1>5, <1>6, <1>7 DEF IInv, JobsMatch, Task
  <1>10. \A u \in Task : IsFiniteSet(tx'[u].old.fails)
    BY <1>2, <1>4, <1>5 DEF IInv, FiniteFails
  <1>11. TaskPart'
    BY <1>5, <1>6, <1>8, <1>9, <1>10 DEF TaskPart
  <1>12. purging' = purging /\ refused' = refused /\ rest' = rest /\ lease' = lease
    BY DEF ReadUsed
  <1> QED  BY <1>1, <1>7, <1>11, <1>12, RedisKept, Assemble DEF IInv, TypeOK

\* The transaction a task turns to after this one.
LEMMA FollowingFacts ==
    ASSUME IInv, NEW t \in Task, pc[t] = "exec"
    PROVE  LET n == Following(t) IN
           /\ n.tx \in Tx /\ n.tx.at = 0 /\ n.tx.old = NoContext
           /\ n.pc \in Labels /\ n.pc \notin {"idle", "used", "exec"}
           /\ n.pc = "watch" => n.tx.key \in Context
           /\ t \in Login =>
                /\ n.tx.op \in {"none", "eval", "record"}
                /\ n.pc = "watch" => n.tx.op # "none"
                /\ n.pc \notin {"lock", "scan", "next", "unlock"}
           /\ t \in Proc => n.tx.op \in {"none", "purge"}
  <1> DEFINE more == tx[t].op \in {"eval", "record"} /\ tx[t].key \in User
                       /\ peer[t].ip # NoIp
  <1>1. peer[t].ip \in Ip \cup {NoIp} /\ tx[t] \in Tx
    BY DEF IInv, TypeOK
  <1>2. t \in Login => tx[t].op \in {"eval", "record"}
    BY DEF IInv, JobsMatch
  <1>3. t \in Proc => tx[t].op \in {"none", "purge"}
    BY DEF IInv, JobsMatch
  <1>4. CASE more
    <2> DEFINE q == Queued(tx[t].op, peer[t].ip, 0)
    <2>1. Following(t) = [tx |-> q, pc |-> "watch"]
      BY <1>4 DEF Following
    <2>2. peer[t].ip \in Context
      BY <1>1, <1>4 DEF Context
    <2>3. /\ q \in Tx /\ q.op = tx[t].op /\ q.key = peer[t].ip
          /\ q.at = 0 /\ q.old = NoContext
      BY <1>4, <2>2, QueuedType, SettingsAssumption
    <2> HIDE DEF q
    <2>4. Following(t).tx = q /\ Following(t).pc = "watch"
      BY <2>1
    <2> QED  BY <1>2, <1>3, <1>4, <2>2, <2>3, <2>4 DEF Labels
  <1>5. CASE ~more
    <2> DEFINE l == IF tx[t].op = "eval" THEN "decide"
                    ELSE IF tx[t].op = "record" THEN "bytes" ELSE "next"
    <2>1. Following(t) = [tx |-> NoTx, pc |-> l]
      BY <1>5 DEF Following
    <2>2. Following(t).tx = NoTx /\ Following(t).pc = l
      BY <2>1
    <2>3. /\ l \in Labels /\ l \notin {"idle", "used", "exec", "watch"}
          /\ t \in Login => l \notin {"lock", "scan", "next", "unlock"}
      BY <1>2 DEF Labels
    <2> HIDE DEF l
    <2> QED  BY <2>2, <2>3, NoTxType
  <1> QED  BY <1>4, <1>5

LEMMA ThrownFacts ==
    ASSUME NEW t \in Task
    PROVE  /\ Thrown(t) \in Labels /\ Thrown(t) \notin {"idle", "watch", "used", "exec"}
           /\ t \in Login => Thrown(t) \notin {"lock", "scan", "next", "unlock"}
  BY SetsAssumption DEF Thrown, Labels, Task

\* A task that runs has the user context of its login.
LEMMA RunningHasUser ==
    ASSUME IInv, NEW t \in Login, pc[t] # "idle"
    PROVE  peer[t].user \in User
  BY DEF IInv, JobsMatch

LEMMA CommitKeeps ==
    ASSUME IInv, NEW t \in Task, Commit(t)
    PROVE  IInv'
  <1> DEFINE n == Following(t)
  <1>1. pc[t] = "exec" /\ MayCommit(t)
    BY DEF Commit
  <1>2. /\ clock' = clock /\ lease' = lease /\ purging' = purging
        /\ peer' = peer /\ rest' = rest
    BY DEF Commit
  <1>3. /\ clock \in Nat /\ lease \in Nat /\ purging \in [Proc -> BOOLEAN]
        /\ peer \in [Task -> [user : User \cup {NoIp}, ip : Ip \cup {NoIp}]]
        /\ rest \in [Proc -> SUBSET Context] /\ refused \in [Task -> BOOLEAN]
    BY DEF IInv, TypeOK
  <1>4. refused' \in [Task -> BOOLEAN]
    <2> DEFINE b == refused[t] \/ /\ tx[t].op = "eval"
                                  /\ locked_out(tx[t].old, tx[t].key, tx[t].at)
    <2>1. refused' = [refused EXCEPT ![t] = b]
      BY DEF Commit
    <2>2. b \in BOOLEAN
      OBVIOUS
    <2> HIDE DEF b
    <2> QED  BY <1>3, <2>1, <2>2, Zenon
  <1>5. /\ n.tx \in Tx /\ n.tx.at = 0 /\ n.tx.old = NoContext
        /\ n.pc \in Labels /\ n.pc \notin {"idle", "used", "exec"}
        /\ n.pc = "watch" => n.tx.key \in Context
        /\ t \in Login =>
             /\ n.tx.op \in {"none", "eval", "record"}
             /\ n.pc = "watch" => n.tx.op # "none"
             /\ n.pc \notin {"lock", "scan", "next", "unlock"}
        /\ t \in Proc => n.tx.op \in {"none", "purge"}
    BY <1>1, FollowingFacts
  <1>6. After(t, n.tx, Writes(t)) /\ Goto(t, n.pc)
    BY DEF Commit
  <1>7. t \in Login => peer'[t].user \in User
    BY <1>1, <1>2, RunningHasUser
  <1>8. Writes(t) \in BOOLEAN
    <2>1. tx[t].old.made \in BOOLEAN
      BY DEF IInv, TypeOK, Tx, ContextState
    <2> QED  BY <2>1 DEF Writes
  <1>9. CASE Writes(t)
    <2>1. tx[t].intact /\ Applied(t)
      BY <1>1, <1>9 DEF MayCommit, Commit
    <2>2. /\ ctx' \in [Context -> ContextState] /\ bytes' \in Int
          /\ failed' \in [Context -> SUBSET Stamp]
          /\ granted' \in [Context -> [lock : Nat, grace : Nat]]
          /\ \A c \in Context : c # tx[t].key => ctx'[c] = ctx[c]
          /\ \A c \in Context : IsFiniteSet(ctx'[c].fails)
          /\ AbsentIsEmpty' /\ NoFailureLost' /\ LockoutHolds' /\ GraceHolds'
      BY <1>1, <1>2, <1>9, <2>1, AppliedFacts
    <2> HIDE DEF n
    <2>3. TaskPart'
      BY <1>2, <1>5, <1>6, <1>7, <1>8, <1>9, <2>2, AfterKeepsTasks
    <2> QED  BY <1>2, <1>3, <1>4, <2>2, <2>3, Assemble
  <1>10. CASE ~Writes(t)
    <2>1. UNCHANGED redisVars
      BY <1>10 DEF Commit
    <2>2. /\ ctx' \in [Context -> ContextState] /\ bytes' \in Int
          /\ failed' \in [Context -> SUBSET Stamp]
          /\ granted' \in [Context -> [lock : Nat, grace : Nat]]
          /\ \A c \in Context : ctx'[c] = ctx[c]
          /\ \A c \in Context : IsFiniteSet(ctx'[c].fails)
          /\ AbsentIsEmpty' /\ NoFailureLost' /\ LockoutHolds' /\ GraceHolds'
      BY <1>2, <1>3, <2>1, RedisKept
    <2> HIDE DEF n
    <2>3. TaskPart'
      BY <1>2, <1>5, <1>6, <1>7, <1>8, <2>2, AfterKeepsTasks
    <2> QED  BY <1>2, <1>3, <1>4, <2>2, <2>3, Assemble
  <1> QED  BY <1>9, <1>10

LEMMA CommitUnheardKeeps ==
    ASSUME IInv, NEW t \in Task, CommitUnheard(t)
    PROVE  IInv'
  <1>1. /\ pc[t] = "exec" /\ tx[t].intact /\ Writes(t) /\ Applied(t)
        /\ After(t, NoTx, TRUE) /\ Goto(t, Thrown(t))
        /\ clock' = clock /\ lease' = lease /\ purging' = purging
        /\ peer' = peer /\ rest' = rest /\ refused' = refused
    BY DEF CommitUnheard
  <1>2. /\ ctx' \in [Context -> ContextState] /\ bytes' \in Int
        /\ failed' \in [Context -> SUBSET Stamp]
        /\ granted' \in [Context -> [lock : Nat, grace : Nat]]
        /\ \A c \in Context : c # tx[t].key => ctx'[c] = ctx[c]
        /\ \A c \in Context : IsFiniteSet(ctx'[c].fails)
        /\ AbsentIsEmpty' /\ NoFailureLost' /\ LockoutHolds' /\ GraceHolds'
    BY <1>1, AppliedFacts
  <1>3. t \in Login => peer'[t].user \in User
    BY <1>1, RunningHasUser
  <1>4. TaskPart'
    BY <1>1, <1>2, <1>3, NoTxType, ThrownFacts, AfterKeepsTasks
  <1> QED  BY <1>1, <1>2, <1>4, Assemble DEF IInv, TypeOK

\* Steps that drop or requeue a transaction and leave Redis alone.
LEMMA RequeueKeeps ==
    ASSUME IInv, NEW t \in Task, NEW next \in Tx, NEW label \in Labels,
           next.at = 0, next.old = NoContext,
           label \notin {"idle", "used", "exec"}, label = "watch" => next.key \in Context,
           After(t, next, FALSE), Goto(t, label),
           t \in Login =>
              /\ peer'[t].user \in User
              /\ next.op \in {"none", "eval", "record"}
              /\ label = "watch" => next.op # "none"
              /\ label \notin {"lock", "scan", "next", "unlock"},
           t \in Proc => next.op \in {"none", "purge"},
           \A u \in Task : u # t => peer'[u] = peer[u],
           peer' \in [Task -> [user : User \cup {NoIp}, ip : Ip \cup {NoIp}]],
           rest' \in [Proc -> SUBSET Context],
           UNCHANGED <<clock, lease, redisVars, purging, refused>>
    PROVE  IInv'
  <1>1. /\ clock' = clock /\ lease' = lease /\ UNCHANGED redisVars
        /\ purging' = purging /\ refused' = refused
    OBVIOUS
  <1>2. clock \in Nat
    BY DEF IInv, TypeOK
  <1>3. /\ ctx' \in [Context -> ContextState] /\ bytes' \in Int
        /\ failed' \in [Context -> SUBSET Stamp]
        /\ granted' \in [Context -> [lock : Nat, grace : Nat]]
        /\ \A c \in Context : ctx'[c] = ctx[c]
        /\ \A c \in Context : IsFiniteSet(ctx'[c].fails)
        /\ AbsentIsEmpty' /\ NoFailureLost' /\ LockoutHolds' /\ GraceHolds'
    BY <1>1, <1>2, RedisKept
  <1>4. TaskPart'
    BY <1>1, <1>3, AfterKeepsTasks
  <1> QED  BY <1>1, <1>3, <1>4, Assemble DEF IInv, TypeOK

LEMMA ConflictKeeps ==
    ASSUME IInv, NEW t \in Task, Conflict(t)
    PROVE  IInv'
  <1>1. /\ pc[t] = "exec" /\ UNCHANGED <<clock, lease, redisVars, purging, refused>>
        /\ peer' = peer /\ rest' = rest
    BY DEF Conflict
  <1>2. /\ peer \in [Task -> [user : User \cup {NoIp}, ip : Ip \cup {NoIp}]]
        /\ rest \in [Proc -> SUBSET Context] /\ tx[t] \in Tx
    BY DEF IInv, TypeOK
  <1>3. t \in Login => peer'[t].user \in User
    BY <1>1, RunningHasUser
  <1>4. CASE tx[t].tries + 1 < Retries
    <2> DEFINE q == Queued(tx[t].op, tx[t].key, tx[t].tries + 1)
    <2>1. tx[t].key \in Context
      BY <1>1 DEF IInv, WatchSound
    <2>2. tx[t].tries + 1 \in 0 .. Retries - 1
      BY <1>2, <1>4, SettingsAssumption DEF Tx
    <2>3. tx[t].op \in {"none", "eval", "record", "purge"}
      BY <1>2 DEF Tx
    <2>4. /\ q \in Tx /\ q.op = tx[t].op /\ q.key = tx[t].key
          /\ q.at = 0 /\ q.old = NoContext
      BY <2>1, <2>2, <2>3, QueuedType
    <2>5. After(t, q, FALSE) /\ Goto(t, "watch")
      BY <1>4 DEF Conflict
    <2>6. /\ t \in Login => q.op \in {"none", "eval", "record"} /\ q.op # "none"
          /\ t \in Proc => q.op \in {"none", "purge"}
      BY <1>1, <2>4 DEF IInv, JobsMatch
    <2> HIDE DEF q
    <2>7. "watch" \in Labels
      BY DEF Labels
    <2> QED  BY <1>1, <1>2, <1>3, <2>1, <2>4, <2>5, <2>6, <2>7, RequeueKeeps
  <1>5. CASE ~(tx[t].tries + 1 < Retries)
    <2>1. After(t, NoTx, FALSE) /\ Goto(t, Thrown(t))
      BY <1>5 DEF Conflict
    <2> QED  BY <1>1, <1>2, <1>3, <2>1, NoTxType, ThrownFacts, RequeueKeeps
  <1> QED  BY <1>4, <1>5

LEMMA RedisFailsKeeps ==
    ASSUME IInv, NEW t \in Task, RedisFails(t)
    PROVE  IInv'
  <1>1. /\ pc[t] # "idle" /\ UNCHANGED <<clock, lease, redisVars, purging, refused>>
        /\ peer' = peer /\ rest' = rest
        /\ After(t, NoTx, FALSE) /\ Goto(t, Thrown(t))
    BY DEF RedisFails
  <1>2. /\ peer \in [Task -> [user : User \cup {NoIp}, ip : Ip \cup {NoIp}]]
        /\ rest \in [Proc -> SUBSET Context]
    BY DEF IInv, TypeOK
  <1>3. t \in Login => peer'[t].user \in User
    BY <1>1, RunningHasUser
  <1> QED  BY <1>1, <1>2, <1>3, NoTxType, ThrownFacts, RequeueKeeps

LEMMA ReconnectKeeps ==
    ASSUME IInv, NEW t \in Task, Reconnect(t)
    PROVE  IInv'
  <1>1. clock \in Nat /\ tx \in [Task -> Tx]
    BY DEF IInv, TypeOK
  <1>2. tx' = [tx EXCEPT ![t] = [tx[t] EXCEPT !.intact = FALSE]]
    BY DEF Reconnect
  <1> DEFINE x == [tx[t] EXCEPT !.intact = FALSE]
  <1>3. /\ x \in Tx /\ x.op = tx[t].op /\ x.key = tx[t].key
        /\ x.old = tx[t].old /\ x.at = tx[t].at /\ x.intact = FALSE
    BY <1>1 DEF Tx
  <1>4. tx' = [tx EXCEPT ![t] = x]
    BY <1>2
  <1> HIDE DEF x
  <1>5. tx' \in [Task -> Tx] /\ tx'[t] = x /\ \A u \in Task : u # t => tx'[u] = tx[u]
    BY <1>1, <1>3, <1>4
  <1>6. /\ UNCHANGED redisVars /\ clock' = clock /\ peer' = peer /\ pc' = pc
        /\ purging' = purging /\ refused' = refused /\ rest' = rest /\ lease' = lease
    BY DEF Reconnect
  <1>7. WatchSound'
    BY <1>1, <1>3, <1>5, <1>6 DEF IInv, WatchSound, Watching, redisVars
  <1>8. JobsMatch'
    BY <1>3, <1>5, <1>6 DEF IInv, JobsMatch, Task
  <1>9. \A u \in Task : IsFiniteSet(tx'[u].old.fails)
    BY <1>3, <1>5 DEF IInv, FiniteFails
  <1>10. TaskPart'
    BY <1>5, <1>6, <1>7, <1>8, <1>9 DEF IInv, TypeOK, TaskPart
  <1> QED  BY <1>1, <1>6, <1>10, RedisKept, Assemble DEF IInv, TypeOK

LEMMA EvaluateKeeps ==
    ASSUME IInv, NEW t \in Login, NEW client \in Client, Evaluate(t, client)
    PROVE  IInv'
  <1> DEFINE u == client.user
             i == client.ip
             q == Queued("eval", u, 0)
  <1>1. /\ t \in Task /\ t \notin Proc /\ u \in Context /\ "watch" \in Labels
        /\ u \in User /\ i \in Ip \cup {NoIp} /\ client = [user |-> u, ip |-> i]
    BY SetsAssumption DEF Task, Context, Labels
  <1>2. /\ UNCHANGED <<clock, lease, redisVars, purging, refused>> /\ rest' = rest
        /\ After(t, q, FALSE) /\ Goto(t, "watch")
        /\ peer' = [peer EXCEPT ![t] = [user |-> u, ip |-> i]]
    BY <1>1 DEF Evaluate, Begin
  <1>3. /\ peer \in [Task -> [user : User \cup {NoIp}, ip : Ip \cup {NoIp}]]
        /\ rest \in [Proc -> SUBSET Context]
    BY DEF IInv, TypeOK
  <1>4. q \in Tx /\ q.op = "eval" /\ q.key = u /\ q.at = 0 /\ q.old = NoContext
    BY <1>1, QueuedType, SettingsAssumption
  <1> HIDE DEF q
  <1>5. /\ peer' \in [Task -> [user : User \cup {NoIp}, ip : Ip \cup {NoIp}]]
        /\ peer'[t].user = u
        /\ \A v \in Task : v # t => peer'[v] = peer[v]
    BY <1>1, <1>2, <1>3
  <1> QED  BY <1>1, <1>2, <1>3, <1>4, <1>5, RequeueKeeps

LEMMA RecordFailureKeeps ==
    ASSUME IInv, NEW t \in Login, RecordFailure(t)
    PROVE  IInv'
  <1> DEFINE q == Queued("record", peer[t].user, 0)
  <1>1. /\ pc[t] = "decide"
        /\ UNCHANGED <<clock, lease, redisVars, purging, refused>> /\ rest' = rest
        /\ After(t, q, FALSE) /\ Goto(t, "watch") /\ peer' = peer
    BY DEF RecordFailure, Begin
  <1>2. peer[t].user \in User
    BY <1>1, RunningHasUser
  <1>3. t \in Task /\ t \notin Proc /\ peer[t].user \in Context /\ "watch" \in Labels
    BY <1>2, SetsAssumption DEF Task, Context, Labels
  <1>4. /\ peer \in [Task -> [user : User \cup {NoIp}, ip : Ip \cup {NoIp}]]
        /\ rest \in [Proc -> SUBSET Context]
    BY DEF IInv, TypeOK
  <1>5. /\ q \in Tx /\ q.op = "record" /\ q.key = peer[t].user
        /\ q.at = 0 /\ q.old = NoContext
    BY <1>3, QueuedType, SettingsAssumption
  <1> HIDE DEF q
  <1> QED  BY <1>1, <1>2, <1>3, <1>4, <1>5, RequeueKeeps

LEMMA PurgeNextKeeps ==
    ASSUME IInv, NEW p \in Proc, PurgeNext(p)
    PROVE  IInv'
  <1>1. PICK c \in rest[p] : /\ Begin(p, "purge", c)
                              /\ rest' = [rest EXCEPT ![p] = @ \ {c}]
    BY DEF PurgeNext
  <1> DEFINE q == Queued("purge", c, 0)
  <1>2. /\ UNCHANGED <<clock, lease, redisVars, purging, refused>>
        /\ After(p, q, FALSE) /\ Goto(p, "watch") /\ peer' = peer
    BY <1>1 DEF PurgeNext, Begin
  <1>3. /\ peer \in [Task -> [user : User \cup {NoIp}, ip : Ip \cup {NoIp}]]
        /\ rest \in [Proc -> SUBSET Context]
    BY DEF IInv, TypeOK
  <1>4. p \in Task /\ p \notin Login /\ c \in Context /\ "watch" \in Labels
    BY <1>3, SetsAssumption DEF Task, Labels
  <1>5. q \in Tx /\ q.op = "purge" /\ q.key = c /\ q.at = 0 /\ q.old = NoContext
    BY <1>4, QueuedType, SettingsAssumption
  <1> HIDE DEF q
  <1>6. rest' \in [Proc -> SUBSET Context]
    BY <1>1, <1>3
  <1> QED  BY <1>2, <1>3, <1>4, <1>5, <1>6, RequeueKeeps

----------------------------------------------------------------------------
\* Steps between transactions that only move a task on.
LEMMA MoveKeeps ==
    ASSUME IInv, NEW t \in Task,
           NEW label \in Labels \ {"idle", "watch", "used", "exec"},
           t \in Login => pc[t] # "idle" /\ label \notin {"lock", "scan", "next", "unlock"},
           Goto(t, label), UNCHANGED <<clock, redisVars, tx, peer, refused, purging>>,
           lease' \in Nat, rest' \in [Proc -> SUBSET Context]
    PROVE  IInv'
  <1>1. TaskPart'
    BY GotoKeepsTasks DEF redisVars
  <1>2. clock' = clock /\ clock \in Nat
    BY DEF IInv, TypeOK
  <1> QED  BY <1>1, <1>2, RedisKept, Assemble DEF IInv, TypeOK

\* A purge is over, one way or another.
LEMMA PurgeEndKeeps ==
    ASSUME IInv, NEW p \in Proc, pc[p] \in {"lock", "unlock"}, Goto(p, "idle"),
           purging' = [purging EXCEPT ![p] = FALSE],
           UNCHANGED <<clock, redisVars, tx, peer, refused>>,
           lease' \in Nat, rest' \in [Proc -> SUBSET Context]
    PROVE  IInv'
  <1>1. p \in Task /\ p \notin Login
    BY SetsAssumption DEF Task
  <1>2. /\ pc' \in [Task -> Labels] /\ pc'[p] = "idle"
        /\ \A u \in Task : u # p => pc'[u] = pc[u]
    BY <1>1 DEF IInv, TypeOK, Goto, Labels
  <1>3. WatchSound'
    BY <1>2 DEF IInv, WatchSound, Watching, redisVars
  <1>4. JobsMatch'
    BY <1>1, <1>2 DEF IInv, JobsMatch, Task
  <1>5. TaskPart'
    BY <1>2, <1>3, <1>4 DEF IInv, TypeOK, FiniteFails, TaskPart
  <1>6. purging' \in [Proc -> BOOLEAN]
    BY DEF IInv, TypeOK
  <1>7. clock' = clock /\ clock \in Nat
    BY DEF IInv, TypeOK
  <1> QED  BY <1>5, <1>6, <1>7, RedisKept, Assemble DEF IInv, TypeOK

LEMMA HostIsProc ==
    ASSUME NEW t \in Task
    PROVE  host(t) \in Proc
  BY SetsAssumption DEF host, Task

LEMMA ReadBytesKeeps ==
    ASSUME IInv, NEW t \in Login, ReadBytes(t)
    PROVE  IInv'
  <1>1. t \in Task /\ t \notin Proc /\ "done" \in Labels /\ "lock" \in Labels
    BY SetsAssumption DEF Task, Labels
  <1>2. /\ pc[t] = "bytes" /\ lease' = lease /\ rest' = rest
        /\ UNCHANGED <<clock, redisVars, tx, peer, refused>>
    BY DEF ReadBytes
  <1>3. CASE maybe_schedule_purge(host(t), bytes)
    <2> DEFINE p == host(t)
    <2>1. p \in Proc /\ p \in Task /\ p # t /\ p \notin Login
      BY <1>1, HostIsProc, SetsAssumption DEF Task
    <2>2. /\ pc' = [pc EXCEPT ![t] = "done", ![p] = "lock"]
          /\ purging' = [purging EXCEPT ![p] = TRUE]
      BY <1>3 DEF ReadBytes
    <2> HIDE DEF p
    <2>3. pc \in [Task -> Labels] /\ purging \in [Proc -> BOOLEAN]
      BY DEF IInv, TypeOK
    <2>4. /\ pc' \in [Task -> Labels] /\ pc'[t] = "done" /\ pc'[p] = "lock"
          /\ \A u \in Task : u # t /\ u # p => pc'[u] = pc[u]
      BY <1>1, <2>1, <2>2, <2>3
    <2>5. WatchSound'
      BY <1>2, <2>4 DEF IInv, WatchSound, Watching, redisVars
    <2>6. JobsMatch'
      BY <1>1, <1>2, <2>1, <2>4 DEF IInv, JobsMatch, Task
    <2>7. TaskPart'
      BY <1>2, <2>4, <2>5, <2>6 DEF IInv, TypeOK, FiniteFails, TaskPart
    <2>8. purging' \in [Proc -> BOOLEAN]
      BY <2>1, <2>2, <2>3
    <2>9. clock' = clock /\ clock \in Nat
      BY <1>2 DEF IInv, TypeOK
    <2> QED  BY <1>2, <2>7, <2>8, <2>9, RedisKept, Assemble DEF IInv, TypeOK
  <1>4. CASE ~maybe_schedule_purge(host(t), bytes)
    <2>1. Goto(t, "done") /\ purging' = purging
      BY <1>4 DEF ReadBytes
    <2> QED  BY <1>1, <1>2, <2>1, MoveKeeps DEF IInv, TypeOK
  <1> QED  BY <1>3, <1>4

LEMMA CrashKeeps ==
    ASSUME IInv, NEW p \in Proc, Crash(p)
    PROVE  IInv'
  <1>1. /\ clock' = clock /\ lease' = lease /\ UNCHANGED redisVars
        /\ peer' = peer /\ refused' = refused
        /\ purging' = [purging EXCEPT ![p] = FALSE]
        /\ rest' = [rest EXCEPT ![p] = {}]
    BY DEF Crash
  <1>2. /\ clock \in Nat /\ lease \in Nat /\ pc \in [Task -> Labels]
        /\ tx \in [Task -> Tx] /\ purging \in [Proc -> BOOLEAN]
        /\ rest \in [Proc -> SUBSET Context]
    BY DEF IInv, TypeOK
  <1>3. ASSUME NEW t \in Task
        PROVE  /\ pc'[t] \in Labels
               /\ \/ pc'[t] = pc[t] /\ tx'[t] = tx[t]
                  \/ pc'[t] = pc[t] /\ pc[t] = "idle" /\ tx'[t] = NoTx
                  \/ pc'[t] = "idle" /\ t \in Proc /\ tx'[t] = NoTx
                  \/ pc'[t] = "done" /\ t \notin Proc /\ pc[t] # "idle" /\ tx'[t] = NoTx
    BY <1>2 DEF Crash, Labels
  <1>4. pc' = [t \in Task |-> pc'[t]] /\ tx' = [t \in Task |-> tx'[t]]
    BY DEF Crash
  <1>5. pc' \in [Task -> Labels]
    BY <1>3, <1>4
  <1>6. tx' \in [Task -> Tx]
    <2>1. \A t \in Task : tx'[t] \in Tx
      BY <1>2, <1>3, NoTxType
    <2> QED  BY <1>4, <2>1
  <1>7. WatchSound'
    BY <1>1, <1>2, <1>3, NoTxType DEF IInv, WatchSound, Watching, redisVars
  <1>8. JobsMatch'
    BY <1>1, <1>3, NoTxType, SetsAssumption DEF IInv, JobsMatch, Task
  <1>9. \A t \in Task : IsFiniteSet(tx'[t].old.fails)
    BY <1>3, NoTxType, NoContextFinite DEF IInv, FiniteFails
  <1>10. TaskPart'
    BY <1>5, <1>6, <1>7, <1>8, <1>9 DEF TaskPart
  <1>11. purging' \in [Proc -> BOOLEAN] /\ rest' \in [Proc -> SUBSET Context]
    BY <1>1, <1>2
  <1> QED  BY <1>1, <1>2, <1>10, <1>11, RedisKept, Assemble DEF IInv, TypeOK

LEMMA TickKeeps ==
    ASSUME IInv, Tick
    PROVE  IInv'
  <1>1. /\ clock' = clock + 1 /\ UNCHANGED redisVars /\ UNCHANGED taskVars
        /\ lease' = lease
    BY DEF Tick
  <1>2. clock \in Nat /\ clock' \in Nat /\ clock <= clock'
    BY <1>1 DEF IInv, TypeOK
  <1>3. WatchSound'
    <2>1. \A t \in Task : tx[t].at \in Nat
      BY DEF IInv, TypeOK, Tx
    <2> QED  BY <1>1, <1>2, <2>1 DEF IInv, WatchSound, Watching, redisVars, taskVars
  <1>4. TaskPart'
    BY <1>1, <1>3 DEF IInv, TypeOK, JobsMatch, FiniteFails, TaskPart, taskVars
  <1> QED  BY <1>1, <1>2, <1>4, RedisKept, Assemble DEF IInv, TypeOK, taskVars

----------------------------------------------------------------------------
\* The image of a finite set is finite.
LEMMA PairsFinite ==
    ASSUME NEW c, NEW S, IsFiniteSet(S)
    PROVE  IsFiniteSet({<<c, x>> : x \in S})
  <1> DEFINE f == [x \in S |-> <<c, x>>]
  <1>1. f \in Surjection(S, {<<c, x>> : x \in S})
    BY DEF Surjection
  <1> QED  BY <1>1, FS_Surjection

LEMMA LoadedFacts ==
    ASSUME NEW old \in Early
    PROVE  /\ Loaded(old) \in ContextState /\ Loaded(old).made = TRUE
           /\ Loaded(old).lock = 0 /\ Loaded(old).grace = 0 /\ IsFiniteSet(Loaded(old).fails)
  <1> DEFINE S == {[by |-> e, at |-> 0] : e \in old}
             f == [e \in old |-> [by |-> e, at |-> 0]]
  <1>1. f \in Surjection(old, S)
    BY DEF Surjection
  <1>2. IsFiniteSet(S)
    BY <1>1, FS_Surjection, SetsAssumption
  <1>3. S \in SUBSET Stamp
    BY DEF Stamp
  <1> HIDE DEF S
  <1>4. Loaded(old) = [empty_context EXCEPT !.fails = S]
    BY DEF Loaded, S
  <1>5. Loaded(old) = [made |-> TRUE, lock |-> 0, grace |-> 0, fails |-> S]
    BY <1>4 DEF empty_context, NoContext
  <1> QED  BY <1>2, <1>3, <1>5 DEF ContextState

\* The sum over finitely many contexts is a number.
LEMMA SumIsInt ==
    ASSUME NEW f \in [Context -> ContextState],
           \A c \in Context : IsFiniteSet(f[c].fails)
    PROVE  SumBytes(f) \in Int
  <1> DEFINE made == {c \in Context : f[c].made}
             Row(c) == {<<c, s>> : s \in f[c].fails}
             slice == [c \in made |-> Row(c)]
             slices == {Row(c) : c \in made}
  <1>1. IsFiniteSet(made)
    BY FS_Subset, SetsAssumption
  <1>2. slice \in Surjection(made, slices)
    <2> HIDE DEF Row, made
    <2> QED  BY DEF Surjection
  <1>3. IsFiniteSet(slices)
    BY <1>1, <1>2, FS_Surjection
  <1>4. \A T \in slices : IsFiniteSet(T)
    BY PairsFinite
  <1>5. IsFiniteSet(UNION slices)
    BY <1>3, <1>4, FS_UNION
  <1>6. Cardinality(made) \in Nat /\ Cardinality(UNION slices) \in Nat
    BY <1>1, <1>5, FS_CardinalityType
  <1>7. SumBytes(f) = BaseBytes * Cardinality(made) + Cardinality(UNION slices)
    BY DEF SumBytes
  <1> HIDE DEF made, slices
  <1> QED  BY <1>6, <1>7 DEF BaseBytes

LEMMA InitHolds == Init => IInv
  <1> SUFFICES ASSUME Init PROVE IInv
    OBVIOUS
  <1>1. \A c \in Context :
           /\ ctx[c] \in ContextState /\ IsFiniteSet(ctx[c].fails)
           /\ ~ctx[c].made => ctx[c] = NoContext
    BY EmptyType, NoContextFinite, LoadedFacts DEF Init
  <1>2. ctx \in [Context -> ContextState]
    BY <1>1 DEF Init
  <1>3. bytes \in Int
    BY <1>1, <1>2, SumIsInt DEF Init
  <1>4. failed \in [Context -> SUBSET Stamp]
    BY <1>1 DEF Init, ContextState
  <1>5. granted \in [Context -> [lock : Nat, grace : Nat]]
    BY DEF Init
  <1>6. \A t \in Task : pc[t] = "idle" /\ tx[t] = NoTx
    BY DEF Init
  <1>7. TypeOK
    <2>1. pc \in [Task -> Labels]
      BY DEF Init, Labels
    <2>2. tx \in [Task -> Tx]
      BY NoTxType DEF Init
    <2>3. /\ clock \in Nat /\ lease \in Nat /\ purging \in [Proc -> BOOLEAN]
          /\ refused \in [Task -> BOOLEAN] /\ rest \in [Proc -> SUBSET Context]
      BY DEF Init
    <2>4. peer \in [Task -> [user : User \cup {NoIp}, ip : Ip \cup {NoIp}]]
      BY DEF Init
    <2> QED  BY <1>2, <1>3, <1>4, <1>5, <2>1, <2>2, <2>3, <2>4 DEF TypeOK
  <1>8. WatchSound /\ JobsMatch
    BY <1>6, NoTxType DEF WatchSound, Watching, JobsMatch, Task, Init
  <1>9. AbsentIsEmpty /\ FiniteFails
    BY <1>1, <1>6, NoTxType, NoContextFinite DEF AbsentIsEmpty, FiniteFails
  <1>10. NoFailureLost /\ LockoutHolds /\ GraceHolds
    BY DEF Init, NoFailureLost, LockoutHolds, GraceHolds
  <1> QED  BY <1>7, <1>8, <1>9, <1>10 DEF IInv

LEMMA NextKeeps == IInv /\ [Next]_vars => IInv'
  <1> SUFFICES ASSUME IInv, [Next]_vars PROVE IInv'
    OBVIOUS
  <1>1. ASSUME NEW t \in Login, NEW client \in Client, Evaluate(t, client) PROVE IInv'
    BY <1>1, EvaluateKeeps
  <1>2. ASSUME NEW t \in Task, TxStep(t) PROVE IInv'
    BY <1>2, WatchKeeps, ReadUsedKeeps, CommitKeeps, ConflictKeeps DEF TxStep
  <1>3. ASSUME NEW t \in Task, Faults(t) PROVE IInv'
    BY <1>3, CommitUnheardKeeps, RedisFailsKeeps, ReconnectKeeps DEF Faults
  <1>4. ASSUME NEW t \in Login, LoginStep(t) PROVE IInv'
    <2>1. t \in Task /\ "done" \in Labels
      BY DEF Task, Labels
    <2>2. CASE Succeed(t)
      <3>1. /\ pc[t] = "decide" /\ Goto(t, "done") /\ lease' = lease /\ rest' = rest
            /\ UNCHANGED <<clock, redisVars, tx, peer, refused, purging>>
        BY <2>2 DEF Succeed
      <3> QED  BY <2>1, <3>1, MoveKeeps DEF IInv, TypeOK
    <2> QED  BY <1>4, <2>2, RecordFailureKeeps, ReadBytesKeeps DEF LoginStep
  <1>5. ASSUME NEW p \in Proc, PurgeStep(p) PROVE IInv'
    <2>1. p \in Task /\ p \notin Login /\ {"scan", "next", "unlock"} \subseteq Labels
      BY SetsAssumption DEF Task, Labels
    <2>2. /\ clock \in Nat /\ lease \in Nat /\ rest \in [Proc -> SUBSET Context]
          /\ PurgeLease \in Nat
      BY SettingsAssumption DEF IInv, TypeOK
    <2>3. CASE PurgeLock(p)
      <3>1. /\ Goto(p, "scan") /\ lease' = clock + PurgeLease /\ rest' = rest
            /\ UNCHANGED <<clock, redisVars, tx, peer, refused, purging>>
        BY <2>3 DEF PurgeLock
      <3> QED  BY <2>1, <2>2, <3>1, MoveKeeps
    <2>4. CASE PurgeRefused(p)
      <3>1. /\ pc[p] = "lock" /\ Goto(p, "idle") /\ lease' = lease /\ rest' = rest
            /\ purging' = [purging EXCEPT ![p] = FALSE]
            /\ UNCHANGED <<clock, redisVars, tx, peer, refused>>
        BY <2>4 DEF PurgeRefused
      <3> QED  BY <2>2, <3>1, PurgeEndKeeps
    <2>5. CASE PurgeScan(p)
      <3>1. /\ Goto(p, "next") /\ lease' = lease
            /\ UNCHANGED <<clock, redisVars, tx, peer, refused, purging>>
        BY <2>5 DEF PurgeScan
      <3>2. rest' \in [Proc -> SUBSET Context]
        BY <2>2, <2>5 DEF PurgeScan
      <3> QED  BY <2>1, <2>2, <3>1, <3>2, MoveKeeps
    <2>6. CASE PurgeScanned(p)
      <3>1. /\ Goto(p, "unlock") /\ lease' = lease /\ rest' = rest
            /\ UNCHANGED <<clock, redisVars, tx, peer, refused, purging>>
        BY <2>6 DEF PurgeScanned
      <3> QED  BY <2>1, <2>2, <3>1, MoveKeeps
    <2>7. CASE PurgeUnlock(p)
      <3>1. /\ pc[p] = "unlock" /\ Goto(p, "idle") /\ lease' \in {0, lease}
            /\ rest' = [rest EXCEPT ![p] = {}]
            /\ purging' = [purging EXCEPT ![p] = FALSE]
            /\ UNCHANGED <<clock, redisVars, tx, peer, refused>>
        BY <2>7 DEF PurgeUnlock
      <3>2. rest' \in [Proc -> SUBSET Context] /\ lease' \in Nat
        BY <2>2, <3>1
      <3> QED  BY <3>1, <3>2, PurgeEndKeeps
    <2> QED  BY <1>5, <2>3, <2>4, <2>5, <2>6, <2>7, PurgeNextKeeps DEF PurgeStep
  <1>6. ASSUME NEW p \in Proc, PurgeLockFails(p) PROVE IInv'
    <2>1. /\ clock \in Nat /\ lease \in Nat /\ rest \in [Proc -> SUBSET Context]
          /\ PurgeLease \in Nat
      BY SettingsAssumption DEF IInv, TypeOK
    <2>2. /\ pc[p] = "lock" /\ Goto(p, "idle") /\ rest' = rest
          /\ lease' \in {lease, IF clock >= lease THEN clock + PurgeLease ELSE lease}
          /\ purging' = [purging EXCEPT ![p] = FALSE]
          /\ UNCHANGED <<clock, redisVars, tx, peer, refused>>
      BY <1>6 DEF PurgeLockFails
    <2>3. lease' \in Nat
      BY <2>1, <2>2
    <2> QED  BY <2>1, <2>2, <2>3, PurgeEndKeeps
  <1>7. CASE UNCHANGED vars
    <2>1. /\ clock' = clock /\ UNCHANGED redisVars /\ UNCHANGED taskVars
          /\ lease' = lease
      BY <1>7 DEF vars
    <2>2. TaskPart'
      BY <2>1 DEF IInv, TypeOK, JobsMatch, FiniteFails, TaskPart, taskVars,
                  WatchSound, Watching, redisVars
    <2>3. clock \in Nat
      BY DEF IInv, TypeOK
    <2> QED  BY <2>1, <2>2, <2>3, RedisKept, Assemble DEF IInv, TypeOK, taskVars
  <1> QED  BY <1>1, <1>2, <1>3, <1>4, <1>5, <1>6, <1>7, CrashKeeps, TickKeeps DEF Next

\* The inductive invariant holds of every behaviour of the limiter.
THEOREM LimiterInvariant == Spec => []IInv
  BY InitHolds, NextKeeps, PTL DEF Spec

\* with_watch stays within WATCH_RETRY_LIMIT, and every variable keeps its type.
THEOREM LimiterTypes == Spec => []TypeOK
  <1>1. IInv => TypeOK
    BY DEF IInv
  <1> QED  BY <1>1, LimiterInvariant, PTL

\* No recorded failure of the window is lost, whatever runs at the same time.
THEOREM FailuresAreKept == Spec => []NoFailureLost
  <1>1. IInv => NoFailureLost
    BY DEF IInv
  <1> QED  BY <1>1, LimiterInvariant, PTL

\* A lockout is kept until it ends: no writer and no purge removes it.
THEOREM LockoutsAreKept == Spec => []LockoutHolds
  <1>1. IInv => LockoutHolds
    BY DEF IInv
  <1> QED  BY <1>1, LimiterInvariant, PTL

\* evaluate_context trips a context once per burst: not again before its grace
\* is over, however many logins evaluate it at once.
THEOREM OneTripPerBurst == Spec => TripAfterGrace
  <1> DEFINE Kept == \A c \in Context : granted'[c] # granted[c] => clock >= granted[c].grace
  <1>1. IInv /\ [Next]_vars => [Kept]_vars
    <2> SUFFICES ASSUME IInv, [Next]_vars, granted' # granted PROVE Kept
      OBVIOUS
    <2>1. ASSUME NEW t \in Task, Commit(t) PROVE Kept
      <3>1. pc[t] = "exec" /\ MayCommit(t) /\ clock' = clock
        BY <2>1 DEF Commit
      <3>2. Writes(t) /\ Applied(t)
        BY <2>1 DEF Commit, redisVars
      <3>3. tx[t].intact
        BY <3>1, <3>2 DEF MayCommit
      <3> QED  BY <3>1, <3>2, <3>3, AppliedFacts
    <2>2. ASSUME NEW t \in Task, CommitUnheard(t) PROVE Kept
      BY <2>2, AppliedFacts DEF CommitUnheard
    <2> QED  BY <2>1, <2>2 DEF Next, TxStep, LoginStep, PurgeStep, Faults, Evaluate,
                Watch, ReadUsed, Conflict, RedisFails, Reconnect, Succeed,
                RecordFailure, ReadBytes, PurgeLock, PurgeRefused, PurgeScan,
                PurgeNext, PurgeScanned, PurgeUnlock, PurgeLockFails, Crash, Tick,
                vars, redisVars
  <1> QED  BY <1>1, LimiterInvariant, PTL DEF Spec, TripAfterGrace
----------------------------------------------------------------------------
\* META_BYTES: what one context holds, and what the others do

Rows(f, S) == UNION {{<<c, s>> : s \in f[c].fails} : c \in S}

MadeBut(f, k) == {c \in Context \ {k} : f[c].made}
BytesBut(f, k) ==
    BaseBytes * Cardinality(MadeBut(f, k)) + Cardinality(Rows(f, MadeBut(f, k)))

LEMMA RowSize ==
    ASSUME NEW c, NEW S, IsFiniteSet(S)
    PROVE  Cardinality({<<c, x>> : x \in S}) = Cardinality(S)
  <1> DEFINE T == {<<c, x>> : x \in S}
             f == [x \in S |-> <<c, x>>]
  <1>1. f \in Surjection(S, T)
    BY DEF Surjection
  <1>2. f \in Injection(S, T)
    <2>1. f \in [S -> T] /\ \A x \in S : f[x] = <<c, x>>
      OBVIOUS
    <2>2. \A x, y \in S : <<c, x>> = <<c, y>> => x = y
      OBVIOUS
    <2> HIDE DEF f, T
    <2> QED  BY <2>1, <2>2 DEF Injection, IsInjective
  <1> HIDE DEF f, T
  <1>3. Cardinality(T) = Cardinality(S)
    BY <1>1, <1>2, FS_Surjection
  <1> QED  BY <1>3 DEF T

LEMMA RowsFinite ==
    ASSUME NEW f, NEW S, IsFiniteSet(S), \A c \in S : IsFiniteSet(f[c].fails)
    PROVE  IsFiniteSet(Rows(f, S))
  <1> DEFINE Row(c) == {<<c, s>> : s \in f[c].fails}
             slice == [c \in S |-> Row(c)]
             slices == {Row(c) : c \in S}
  <1>1. slice \in Surjection(S, slices)
    <2> HIDE DEF Row
    <2> QED  BY DEF Surjection
  <1>2. IsFiniteSet(slices)
    BY <1>1, FS_Surjection
  <1>3. \A T \in slices : IsFiniteSet(T)
    <2>1. ASSUME NEW c \in S PROVE IsFiniteSet(Row(c))
      BY PairsFinite
    <2> HIDE DEF Row
    <2> QED  BY <2>1
  <1>4. IsFiniteSet(UNION slices)
    BY <1>2, <1>3, FS_UNION
  <1> QED  BY <1>4 DEF Rows

\* The sum is that of one context and that of all the others.
LEMMA SumSplits ==
    ASSUME NEW f \in [Context -> ContextState],
           \A c \in Context : IsFiniteSet(f[c].fails), NEW k \in Context
    PROVE  /\ BytesBut(f, k) \in Int
           /\ SumBytes(f) = BytesBut(f, k) + estimate_context_bytes(f[k])
  <1> DEFINE made == {c \in Context : f[c].made}
             off == MadeBut(f, k)
             row == {<<k, s>> : s \in f[k].fails}
  <1>1. IsFiniteSet(made) /\ IsFiniteSet(off)
    BY FS_Subset, SetsAssumption DEF MadeBut
  <1>2. IsFiniteSet(Rows(f, off))
    <2>1. \A c \in off : IsFiniteSet(f[c].fails)
      BY DEF MadeBut
    <2> HIDE DEF off
    <2> QED  BY <1>1, <2>1, RowsFinite
  <1>3. IsFiniteSet(row) /\ Cardinality(row) = Cardinality(f[k].fails)
    BY PairsFinite, RowSize
  <1>4. /\ Cardinality(off) \in Nat /\ Cardinality(Rows(f, off)) \in Nat
        /\ Cardinality(f[k].fails) \in Nat
    BY <1>1, <1>2, FS_CardinalityType
  <1>5. SumBytes(f) = BaseBytes * Cardinality(made) + Cardinality(Rows(f, made))
    BY DEF SumBytes, Rows
  <1>6. BytesBut(f, k) = BaseBytes * Cardinality(off) + Cardinality(Rows(f, off))
    BY DEF BytesBut
  <1>7. CASE f[k].made
    <2>1. made = off \cup {k} /\ k \notin off
      BY <1>7 DEF MadeBut
    <2>2. Rows(f, made) = Rows(f, off) \cup row /\ Rows(f, off) \cap row = {}
      <3>1. Rows(f, off \cup {k}) = Rows(f, off) \cup row
        <4> HIDE DEF off
        <4> QED  BY DEF Rows
      <3>2. ASSUME NEW z \in Rows(f, off), z \in row PROVE FALSE
        <4>1. PICK c \in off : z \in {<<c, s>> : s \in f[c].fails}
          BY <3>2 DEF Rows
        <4>2. c = k
          BY <3>2, <4>1
        <4> QED  BY <2>1, <4>2
      <3> QED  BY <2>1, <3>1, <3>2
    <2> HIDE DEF made, off, row
    <2>3. Cardinality(made) = Cardinality(off) + 1
      BY <1>1, <2>1, FS_AddElement
    <2>4. Cardinality(Rows(f, made)) = Cardinality(Rows(f, off)) + Cardinality(row)
      <3>1. Cardinality(Rows(f, off) \cup row) =
               Cardinality(Rows(f, off)) + Cardinality(row) - Cardinality(Rows(f, off) \cap row)
        BY <1>2, <1>3, FS_Union
      <3>2. Cardinality(Rows(f, off) \cap row) = 0
        BY <2>2, FS_EmptySet
      <3>3. Cardinality(row) \in Nat
        BY <1>3, <1>4
      <3> QED  BY <1>4, <2>2, <3>1, <3>2, <3>3
    <2>5. estimate_context_bytes(f[k]) = BaseBytes + Cardinality(f[k].fails)
      BY <1>7 DEF estimate_context_bytes
    <2> QED  BY <1>3, <1>4, <1>5, <1>6, <2>3, <2>4, <2>5 DEF BaseBytes
  <1>8. CASE ~f[k].made
    <2>1. made = off
      BY <1>8 DEF MadeBut
    <2>2. estimate_context_bytes(f[k]) = 0
      BY <1>8 DEF estimate_context_bytes
    <2> HIDE DEF made, off, row
    <2> QED  BY <1>4, <1>5, <1>6, <2>1, <2>2 DEF BaseBytes
  <1> QED  BY <1>7, <1>8

\* An EXEC charges exactly what it changes.
LEMMA AppliedIsCharged ==
    ASSUME IInv, BytesExact, NEW t \in Task, pc[t] = "exec", tx[t].intact, Writes(t),
           Applied(t), clock' = clock
    PROVE  BytesExact'
  <1> DEFINE k == tx[t].key
             w == Written(t)
  <1>1. /\ k \in Context /\ tx[t].old = ctx[k]
        /\ ctx \in [Context -> ContextState] /\ \A c \in Context : IsFiniteSet(ctx[c].fails)
    BY CommitFacts DEF IInv, TypeOK, FiniteFails
  <1>2. /\ ctx' \in [Context -> ContextState] /\ \A c \in Context : IsFiniteSet(ctx'[c].fails)
        /\ \A c \in Context : c # k => ctx'[c] = ctx[c]
    BY AppliedFacts
  <1>3. ctx'[k] = w /\ bytes' = bytes + Charge(t)
    BY <1>1 DEF Applied
  <1>4. Charge(t) = estimate_context_bytes(w) - estimate_context_bytes(ctx[k])
    BY <1>1 DEF Charge
  <1> HIDE DEF k, w
  <1>5. MadeBut(ctx', k) = MadeBut(ctx, k)
    BY <1>2 DEF MadeBut
  <1>6. Rows(ctx', MadeBut(ctx, k)) = Rows(ctx, MadeBut(ctx, k))
    BY <1>2 DEF Rows, MadeBut
  <1>7. BytesBut(ctx', k) = BytesBut(ctx, k)
    BY <1>5, <1>6 DEF BytesBut
  <1>8. /\ SumBytes(ctx) = BytesBut(ctx, k) + estimate_context_bytes(ctx[k])
        /\ BytesBut(ctx, k) \in Int
    BY <1>1, SumSplits
  <1>9. SumBytes(ctx') = BytesBut(ctx', k) + estimate_context_bytes(ctx'[k])
    BY <1>1, <1>2, SumSplits
  <1>10. estimate_context_bytes(ctx[k]) \in Int /\ estimate_context_bytes(w) \in Int
    <2>1. Cardinality(ctx[k].fails) \in Nat /\ Cardinality(w.fails) \in Nat
      BY <1>1, <1>2, <1>3, FS_CardinalityType
    <2> QED  BY <2>1 DEF estimate_context_bytes, BaseBytes
  <1>11. bytes' = SumBytes(ctx')
    BY <1>3, <1>4, <1>7, <1>8, <1>9, <1>10 DEF BytesExact
  <1> QED  BY <1>11 DEF BytesExact, SumBytes

\* Only an EXEC writes to Redis.
LEMMA Writers ==
    ASSUME IInv, [Next]_vars
    PROVE  \/ UNCHANGED redisVars
           \/ \E t \in Task : /\ Commit(t) \/ CommitUnheard(t)
                              /\ pc[t] = "exec" /\ tx[t].intact /\ Writes(t) /\ Applied(t)
                              /\ clock' = clock
  <1>1. ASSUME NEW t \in Task, Commit(t)
        PROVE  UNCHANGED redisVars
                 \/ (pc[t] = "exec" /\ tx[t].intact /\ Writes(t) /\ Applied(t) /\ clock' = clock)
    BY <1>1 DEF Commit, MayCommit
  <1>2. ASSUME NEW t \in Task, CommitUnheard(t)
        PROVE  pc[t] = "exec" /\ tx[t].intact /\ Writes(t) /\ Applied(t) /\ clock' = clock
    BY <1>2 DEF CommitUnheard
  <1>3. ASSUME \A t \in Task : ~Commit(t) /\ ~CommitUnheard(t)
        PROVE  UNCHANGED redisVars
    BY <1>3 DEF Next, TxStep, LoginStep, PurgeStep, Faults, Evaluate,
                Watch, ReadUsed, Conflict, RedisFails, Reconnect, Succeed,
                RecordFailure, ReadBytes, PurgeLock, PurgeRefused, PurgeScan,
                PurgeNext, PurgeScanned, PurgeUnlock, PurgeLockFails, Crash, Tick,
                vars
  <1> QED  BY <1>1, <1>2, <1>3

\* META_BYTES is what the contexts hold, for any number of processes at once.
THEOREM BytesAreExact == Spec => []BytesExact
  <1>1. Init => BytesExact
    BY DEF Init, BytesExact
  <1>2. IInv /\ BytesExact /\ [Next]_vars => BytesExact'
    <2> SUFFICES ASSUME IInv, BytesExact, [Next]_vars PROVE BytesExact'
      OBVIOUS
    <2>1. CASE UNCHANGED redisVars
      BY <2>1 DEF redisVars, BytesExact, SumBytes
    <2>2. ASSUME NEW t \in Task, pc[t] = "exec", tx[t].intact, Writes(t), Applied(t), clock' = clock
          PROVE  BytesExact'
      BY <2>2, AppliedIsCharged
    <2> QED  BY <2>1, <2>2, Writers
  <1> QED  BY <1>1, <1>2, LimiterInvariant, PTL DEF Spec

----------------------------------------------------------------------------
\* The budget: who may still create a context

\* One task of a process at a time is in with_watch.
Exclusive ==
    \A t, u \in Task : t # u /\ host(t) = host(u) => ~(Inside(t) /\ Inside(u))

\* The task will create a context when its EXEC goes through.
Creating(t) ==
    /\ pc[t] = "exec" /\ tx[t].op = "record" /\ tx[t].intact
    /\ ~tx[t].old.made /\ tx[t].used < Budget
Creators == {t \in Task : Creating(t)}

Made == {c \in Context : ctx[c].made}

\* The contexts there are, with those under way: inductive, as ContextsBounded is not.
Reserved ==
    BaseBytes * (Cardinality(Made) + Cardinality(Creators) - Cardinality(Proc)) < Budget

BudgetInv == IInv /\ BytesExact /\ Exclusive /\ Reserved

\* Task u neither enters with_watch nor is about to create a context where it was not.
Calm(u) == (Inside(u)' => Inside(u)) /\ (Creating(u)' => Creating(u))

LEMMA SameIsCalm ==
    ASSUME NEW u \in Task, tx[u] \in Tx, pc'[u] = pc[u],
           tx'[u] = tx[u] \/ tx'[u] = [tx[u] EXCEPT !.intact = FALSE]
    PROVE  Calm(u)
  <1>1. /\ tx'[u].op = tx[u].op /\ tx'[u].old = tx[u].old /\ tx'[u].used = tx[u].used
        /\ tx'[u].tries = tx[u].tries /\ (tx'[u].intact => tx[u].intact)
    BY DEF Tx
  <1> QED  BY <1>1 DEF Calm, Inside, Watching, Creating

\* A task leaves its transaction, or turns to its next attempt.
LEMMA AfterIsCalm ==
    ASSUME IInv, NEW t \in Task, NEW next, NEW label, NEW broken,
           After(t, next, broken), Goto(t, label), label \notin {"used", "exec"},
           next.tries = 0 \/ Watching(t)
    PROVE  (\A u \in Task : Calm(u)) /\ ~Creating(t)'
  <1>1. tx \in [Task -> Tx] /\ pc \in [Task -> Labels]
    BY DEF IInv, TypeOK
  <1>2. tx'[t] = next /\ pc'[t] = label /\ \A u \in Task : u # t => pc'[u] = pc[u]
    BY <1>1 DEF After, Goto
  <1>3. ~Creating(t)' /\ Calm(t)
    BY <1>2 DEF Creating, Calm, Inside, Watching
  <1>4. ASSUME NEW u \in Task, u # t PROVE Calm(u)
    <2>1. tx'[u] = tx[u] \/ tx'[u] = [tx[u] EXCEPT !.intact = FALSE]
      BY <1>4 DEF After
    <2> QED  BY <1>1, <1>2, <1>4, <2>1, SameIsCalm
  <1> QED  BY <1>3, <1>4

\* The transactions stay as they are.
LEMMA MoveIsCalm ==
    ASSUME IInv, tx' = tx, \A u \in Task : pc'[u] = pc[u] \/ pc'[u] \notin {"used", "exec"}
    PROVE  \A u \in Task : Calm(u)
  BY DEF Calm, Inside, Watching, Creating

LEMMA QueuedTries ==
    ASSUME NEW op, NEW c, NEW n
    PROVE  Queued(op, c, n).tries = n
  BY DEF Queued

LEMMA FollowingIsFresh ==
    ASSUME NEW t \in Task
    PROVE  Following(t).tx.tries = 0 /\ Following(t).pc \notin {"used", "exec"}
  BY QueuedTries DEF Following, NoTx

\* An EXEC ends the transaction of its task.
LEMMA CommitIsCalm ==
    ASSUME IInv, NEW t \in Task, Commit(t) \/ CommitUnheard(t)
    PROVE  (\A u \in Task : Calm(u)) /\ ~Creating(t)'
  <1>1. CASE Commit(t)
    BY <1>1, FollowingIsFresh, AfterIsCalm DEF Commit
  <1>2. CASE CommitUnheard(t)
    BY <1>2, QueuedTries, AfterIsCalm DEF CommitUnheard, NoTx, Thrown
  <1> QED  BY <1>1, <1>2

\* with_watch is entered by WATCH alone, and META_BYTES is read by its own step.
LEMMA TasksMove ==
    ASSUME IInv, [Next]_vars
    PROVE  \/ \A u \in Task : Calm(u)
           \/ \E t \in Task : Watch(t) /\ \A u \in Task : u # t => Calm(u)
           \/ \E t \in Task : ReadUsed(t) /\ \A u \in Task : u # t => Calm(u)
  <1>1. tx \in [Task -> Tx] /\ pc \in [Task -> Labels]
    BY DEF IInv, TypeOK
  <1>2. ASSUME NEW t \in Task, Watch(t) \/ ReadUsed(t)
        PROVE  \A u \in Task : u # t => Calm(u)
    <2>1. ASSUME NEW u \in Task, u # t PROVE tx'[u] = tx[u] /\ pc'[u] = pc[u]
      BY <1>1, <1>2, <2>1 DEF Watch, ReadUsed, Goto
    <2> QED  BY <1>1, <2>1, SameIsCalm
  <1>3. ASSUME NEW t \in Task, TxStep(t), ~Watch(t), ~ReadUsed(t)
        PROVE  \A u \in Task : Calm(u)
    <2>1. CASE Conflict(t)
      <3>1. Watching(t) /\ Thrown(t) \notin {"used", "exec"}
        BY <2>1 DEF Conflict, Watching, Thrown
      <3> QED  BY <2>1, <3>1, AfterIsCalm DEF Conflict
    <2> QED  BY <1>3, <2>1, CommitIsCalm DEF TxStep
  <1>4. ASSUME NEW t \in Task, Faults(t) PROVE \A u \in Task : Calm(u)
    <2>1. CASE RedisFails(t)
      BY <2>1, QueuedTries, AfterIsCalm DEF RedisFails, Thrown, NoTx
    <2>2. CASE Reconnect(t)
      <3>1. ASSUME NEW u \in Task
            PROVE  tx'[u] = tx[u] \/ tx'[u] = [tx[u] EXCEPT !.intact = FALSE]
        BY <1>1, <2>2 DEF Reconnect
      <3> QED  BY <1>1, <2>2, <3>1, SameIsCalm DEF Reconnect
    <2> QED  BY <1>4, <2>1, <2>2, CommitIsCalm DEF Faults
  <1>5. ASSUME NEW t \in Login, LoginStep(t) PROVE \A u \in Task : Calm(u)
    <2>1. t \in Task
      BY DEF Task
    <2>2. CASE RecordFailure(t)
      BY <2>1, <2>2, QueuedTries, AfterIsCalm DEF RecordFailure, Begin
    <2>3. CASE Succeed(t)
      BY <1>1, <2>1, <2>3, MoveIsCalm DEF Succeed, Goto
    <2>4. CASE ReadBytes(t)
      BY <1>1, <2>1, <2>4, MoveIsCalm DEF ReadBytes, Goto
    <2> QED  BY <1>5, <2>2, <2>3, <2>4 DEF LoginStep
  <1>6. ASSUME NEW p \in Proc, PurgeStep(p) \/ PurgeLockFails(p) PROVE \A u \in Task : Calm(u)
    <2>1. p \in Task
      BY DEF Task
    <2>2. CASE PurgeNext(p)
      BY <2>1, <2>2, QueuedTries, AfterIsCalm DEF PurgeNext, Begin
    <2>3. CASE \/ PurgeLock(p) \/ PurgeRefused(p) \/ PurgeScan(p) \/ PurgeScanned(p)
               \/ PurgeUnlock(p) \/ PurgeLockFails(p)
      <3>1. tx' = tx /\ \A u \in Task : pc'[u] = pc[u] \/ pc'[u] \notin {"used", "exec"}
        BY <1>1, <2>1, <2>3 DEF PurgeLock, PurgeRefused, PurgeScan, PurgeScanned, PurgeUnlock,
                                PurgeLockFails, Goto
      <3> QED  BY <3>1, MoveIsCalm
    <2> QED  BY <1>6, <2>2, <2>3 DEF PurgeStep
  <1>7. ASSUME NEW p \in Proc, Crash(p) PROVE \A u \in Task : Calm(u)
    <2>1. ASSUME NEW u \in Task PROVE Calm(u)
      <3>1. \/ pc'[u] = pc[u] /\ tx'[u] = tx[u]
            \/ pc'[u] \notin {"used", "exec"} /\ tx'[u] = NoTx
        BY <1>7 DEF Crash
      <3>2. NoTx.tries = 0
        BY QueuedTries DEF NoTx
      <3> QED  BY <3>1, <3>2, SettingsAssumption DEF Calm, Inside, Watching, Creating
    <2> QED  BY <2>1
  <1>8. ASSUME NEW t \in Login, NEW client \in Client, Evaluate(t, client)
        PROVE  \A u \in Task : Calm(u)
    <2>1. t \in Task
      BY DEF Task
    <2> QED  BY <1>8, <2>1, QueuedTries, AfterIsCalm DEF Evaluate, Begin
  <1>9. CASE Tick \/ UNCHANGED vars
    BY <1>9, MoveIsCalm DEF Tick, vars, taskVars
  <1> QED  BY <1>2, <1>3, <1>4, <1>5, <1>6, <1>7, <1>8, <1>9 DEF Next

LEMMA ExclusiveKept ==
    ASSUME IInv, Exclusive, [Next]_vars
    PROVE  Exclusive'
  <1>1. \A t \in Task : host(t)' = host(t)
    BY DEF host
  <1>2. CASE \A u \in Task : Inside(u)' => Inside(u)
    BY <1>1, <1>2 DEF Exclusive
  <1>3. ASSUME NEW t \in Task, Watch(t), \A u \in Task : u # t => Calm(u)
        PROVE  Exclusive'
    <2>1. \A u \in Task : u # t /\ host(u) = host(t) => ~Inside(u)
      BY <1>3 DEF Watch
    <2> QED  BY <1>1, <1>3, <2>1 DEF Exclusive, Calm
  <1>4. ASSUME NEW t \in Task, ReadUsed(t) PROVE Inside(t)
    BY <1>4 DEF ReadUsed, Inside, Watching
  <1> QED  BY <1>2, <1>3, <1>4, TasksMove DEF Calm

\* At most one creator on a process.
LEMMA FewCreators ==
    ASSUME Exclusive
    PROVE  Cardinality(Creators) <= Cardinality(Proc) /\ IsFiniteSet(Creators)
  <1> DEFINE f == [t \in Creators |-> host(t)]
  <1>1. \A t \in Creators : t \in Task /\ Inside(t) /\ host(t) \in Proc
    BY HostIsProc DEF Creators, Creating, Inside, Watching
  <1>2. f \in [Creators -> Proc]
    BY <1>1
  <1>3. \A t, u \in Creators : f[t] = f[u] => t = u
    BY <1>1 DEF Exclusive
  <1> HIDE DEF f
  <1>4. f \in Injection(Creators, Proc)
    BY <1>2, <1>3 DEF Injection, IsInjective
  <1> QED  BY <1>4, FS_Injection, SetsAssumption

\* META_BYTES is at least the base bytes of every context.
LEMMA BaseIsCounted ==
    ASSUME IInv, BytesExact
    PROVE  IsFiniteSet(Made) /\ Cardinality(Made) \in Nat /\ BaseBytes * Cardinality(Made) <= bytes
  <1>1. IsFiniteSet(Made)
    BY FS_Subset, SetsAssumption DEF Made
  <1>2. IsFiniteSet(Rows(ctx, Made))
    <2>1. \A c \in Made : IsFiniteSet(ctx[c].fails)
      BY DEF Made, IInv, FiniteFails
    <2> QED  BY <1>1, <2>1, RowsFinite
  <1>3. Cardinality(Made) \in Nat /\ Cardinality(Rows(ctx, Made)) \in Nat
    BY <1>1, <1>2, FS_CardinalityType
  <1>4. bytes = BaseBytes * Cardinality(Made) + Cardinality(Rows(ctx, Made))
    BY DEF BytesExact, SumBytes, Rows, Made
  <1> QED  BY <1>1, <1>3, <1>4 DEF BaseBytes

\* Fewer contexts and creators need no more of the budget.
LEMMA ReservedShrinks ==
    ASSUME IInv, BytesExact, Exclusive, Reserved,
           NEW M, NEW C, IsFiniteSet(M), IsFiniteSet(C),
           Cardinality(M) + Cardinality(C) <= Cardinality(Made) + Cardinality(Creators)
    PROVE  BaseBytes * (Cardinality(M) + Cardinality(C) - Cardinality(Proc)) < Budget
  <1>1. /\ Cardinality(M) \in Nat /\ Cardinality(C) \in Nat /\ Cardinality(Made) \in Nat
        /\ Cardinality(Creators) \in Nat /\ Cardinality(Proc) \in Nat /\ Budget \in Nat
    BY BaseIsCounted, FewCreators, FS_CardinalityType, SetsAssumption, SettingsAssumption
  <1> QED  BY <1>1 DEF Reserved, BaseBytes

LEMMA ReservedKept ==
    ASSUME BudgetInv, [Next]_vars, Exclusive'
    PROVE  Reserved'
  <1>1. /\ IsFiniteSet(Made) /\ Cardinality(Made) \in Nat /\ BaseBytes * Cardinality(Made) <= bytes
        /\ IsFiniteSet(Creators) /\ Cardinality(Creators) \in Nat /\ IsFiniteSet(Made')
    <2>1. IsFiniteSet(Made')
      BY FS_Subset, SetsAssumption DEF Made
    <2> QED  BY <2>1, BaseIsCounted, FewCreators, FS_CardinalityType DEF BudgetInv
  <1>2. /\ IsFiniteSet(Creators') /\ Cardinality(Creators') \in Nat /\ Cardinality(Proc) \in Nat
        /\ Cardinality(Creators') <= Cardinality(Proc)
    <2>1. Cardinality(Creators') <= Cardinality(Proc) /\ IsFiniteSet(Creators')
      <3> DEFINE f == [t \in Creators' |-> host(t)]
      <3>1. \A t \in Creators' : t \in Task /\ Inside(t)' /\ host(t) \in Proc /\ host(t)' = host(t)
        BY HostIsProc DEF Creators, Creating, Inside, Watching, host
      <3>2. f \in [Creators' -> Proc]
        BY <3>1
      <3>3. \A t, u \in Creators' : f[t] = f[u] => t = u
        BY <3>1 DEF Exclusive
      <3> HIDE DEF f
      <3>4. f \in Injection(Creators', Proc)
        BY <3>2, <3>3 DEF Injection, IsInjective
      <3> QED  BY <3>4, FS_Injection, SetsAssumption
    <2> QED  BY <2>1, FS_CardinalityType, SetsAssumption
  <1>3. ASSUME Cardinality(Made') + Cardinality(Creators') <= Cardinality(Made) + Cardinality(Creators)
        PROVE  Reserved'
    BY <1>1, <1>2, <1>3, ReservedShrinks DEF BudgetInv, Reserved
  <1>4. ASSUME \A u \in Task : Creating(u)' => Creating(u)
        PROVE  Cardinality(Creators') <= Cardinality(Creators)
    <2>1. Creators' \subseteq Creators
      BY <1>4 DEF Creators
    <2> QED  BY <1>1, <2>1, FS_Subset
  <1>5. CASE UNCHANGED redisVars
    <2>1. Made' = Made
      BY <1>5 DEF redisVars, Made
    <2>2. CASE \A u \in Task : Creating(u)' => Creating(u)
      BY <1>1, <1>2, <1>3, <1>4, <2>1, <2>2
    <2>3. ASSUME NEW t \in Task, Watch(t) PROVE ~Creating(t)'
      <3>1. tx \in [Task -> Tx] /\ pc \in [Task -> Labels] /\ tx[t] \in Tx
        BY DEF BudgetInv, IInv, TypeOK
      <3>2. pc'[t] = "exec" => tx[t].op # "record"
        BY <2>3, <3>1 DEF Watch, Goto
      <3>3. tx'[t].op = tx[t].op
        BY <2>3, <3>1 DEF Watch, Tx
      <3> QED  BY <3>2, <3>3 DEF Creating
    <2>4. ASSUME NEW t \in Task, ReadUsed(t), Creating(t)' PROVE Reserved'
      <3>1. tx'[t].used = bytes
        <4>1. tx \in [Task -> Tx] /\ tx[t] \in Tx
          BY DEF BudgetInv, IInv, TypeOK
        <4> QED  BY <2>4, <4>1 DEF ReadUsed, Tx
      <3>2. bytes < Budget /\ bytes \in Int /\ Budget \in Nat
        BY <2>4, <3>1, SettingsAssumption DEF Creating, BudgetInv, IInv, TypeOK
      <3> QED  BY <1>1, <1>2, <2>1, <3>2 DEF Reserved, BaseBytes
    <2> QED  BY <2>2, <2>3, <2>4, TasksMove DEF Calm, BudgetInv
  <1>6. ASSUME NEW t \in Task, Commit(t) \/ CommitUnheard(t), pc[t] = "exec", tx[t].intact,
               Writes(t), Applied(t), clock' = clock
        PROVE  Reserved'
    <2> DEFINE k == tx[t].key
    <2>1. (\A u \in Task : Creating(u)' => Creating(u)) /\ ~Creating(t)'
      BY <1>6, CommitIsCalm DEF BudgetInv, Calm
    <2>2. k \in Context /\ tx[t].old = ctx[k] /\ \A c \in Context : c # k => ctx'[c] = ctx[c]
      BY <1>6, CommitFacts, AppliedFacts DEF BudgetInv
    <2>3. CASE Made' \subseteq Made
      <3>1. Cardinality(Made') <= Cardinality(Made) /\ Cardinality(Made') \in Nat
        BY <1>1, <2>3, FS_Subset, FS_CardinalityType
      <3> QED  BY <1>1, <1>2, <1>3, <1>4, <2>1, <3>1
    <2>4. CASE ~(Made' \subseteq Made)
      <3>1. k \notin Made /\ ~ctx[k].made
        BY <2>2, <2>4 DEF Made
      <3>2. Creating(t)
        <4>1. tx[t].op = "record" /\ ~over_budget(t)
          BY <1>6, <2>2, <3>1 DEF Writes
        <4>2. tx[t].used \in Int /\ Budget \in Int
          BY SettingsAssumption DEF BudgetInv, IInv, TypeOK, Tx
        <4> QED  BY <1>6, <2>2, <3>1, <4>1, <4>2 DEF Creating, over_budget
      <3>3. Made' \subseteq Made \cup {k}
        BY <2>2 DEF Made
      <3>4. Cardinality(Made') <= Cardinality(Made) + 1 /\ Cardinality(Made') \in Nat
        <4>1. IsFiniteSet(Made \cup {k}) /\ Cardinality(Made \cup {k}) = Cardinality(Made) + 1
          BY <1>1, <3>1, FS_AddElement
        <4> QED  BY <1>1, <3>3, <4>1, FS_Subset, FS_CardinalityType
      <3>5. Creators' \subseteq Creators \ {t} /\ t \in Creators
        BY <2>1, <3>2 DEF Creators
      <3>6. Cardinality(Creators') <= Cardinality(Creators) - 1
        <4>1. IsFiniteSet(Creators \ {t}) /\ Cardinality(Creators \ {t}) = Cardinality(Creators) - 1
          BY <1>1, <3>5, FS_RemoveElement
        <4> QED  BY <3>5, <4>1, FS_Subset
      <3> QED  BY <1>1, <1>2, <1>3, <3>4, <3>6
    <2> QED  BY <2>3, <2>4
  <1> QED  BY <1>5, <1>6, Writers DEF BudgetInv

\* rate_limit_redis.ts reads META_BYTES outside of WATCH: still no more contexts
\* over the budget than there are processes.
THEOREM ContextsAreBounded == Spec => []ContextsBounded
  <1>1. Init => Exclusive /\ Reserved
    <2> SUFFICES ASSUME Init PROVE Exclusive /\ Reserved
      OBVIOUS
    <2>1. \A t \in Task : ~Inside(t) /\ ~Creating(t)
      <3>1. \A t \in Task : pc[t] = "idle" /\ tx[t].tries = 0
        BY QueuedTries DEF Init, NoTx
      <3> QED  BY <3>1 DEF Inside, Watching, Creating
    <2>2. Creators = {} /\ Cardinality(Creators) = 0
      BY <2>1, FS_EmptySet DEF Creators
    <2>3. IsFiniteSet(Made) /\ Cardinality(Made) \in Nat
      BY FS_Subset, FS_CardinalityType, SetsAssumption DEF Made
    <2>4. Cardinality(Proc) \in Nat /\ Cardinality(Proc) # 0 /\ Budget \in Nat
      BY FS_CardinalityType, FS_EmptySet, SetsAssumption, SettingsAssumption
    <2>5. BaseBytes * (Cardinality(Made) - 1) < Budget
      BY DEF Init, Made
    <2>6. Reserved
      BY <2>2, <2>3, <2>4, <2>5 DEF Reserved, BaseBytes
    <2> QED  BY <2>1, <2>6 DEF Exclusive
  <1>2. IInv /\ BytesExact /\ Exclusive /\ Reserved /\ [Next]_vars => Exclusive' /\ Reserved'
    BY ExclusiveKept, ReservedKept DEF BudgetInv
  <1>3. BytesExact /\ IInv /\ Exclusive /\ Reserved => ContextsBounded
    <2> SUFFICES ASSUME BytesExact, IInv, Exclusive, Reserved PROVE ContextsBounded
      OBVIOUS
    <2>1. /\ Cardinality(Made) \in Nat /\ Cardinality(Creators) \in Nat /\ Cardinality(Proc) \in Nat
          /\ Budget \in Nat
      BY BaseIsCounted, FewCreators, FS_CardinalityType, SetsAssumption, SettingsAssumption
    <2> QED  BY <2>1 DEF Reserved, ContextsBounded, BaseBytes, Made
  <1> QED  BY <1>1, <1>2, <1>3, LimiterInvariant, BytesAreExact, PTL DEF Spec
============================================================================
