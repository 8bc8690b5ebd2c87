--------------------------- MODULE LoginPipeline ---------------------------
(***************************************************************************)
(* Password checks of one account by one auth process:                     *)
(* run_login_pipeline (login_pipeline.ts) with the session row that        *)
(* handle_login adds, handle_change_password, the limiter of concurrent    *)
(* password hashes (hash_slots.ts) and the user row (users.ts).            *)
(*                                                                         *)
(* One action is what a handler does from one await to the next.  A        *)
(* password is the number of the change that installed it; 0 is no         *)
(* password of the account.  The rate limiter, whose verdict is a choice   *)
(* here, is the subject of RateLimit.  Each request is used once.          *)
(***************************************************************************)
EXTENDS Integers, FiniteSets

CONSTANTS
    Request,     \* login and change-password requests
    Limits,      \* values hash_concurrency_limit takes as settings reload
    MaxFailed,   \* login_maximum_failed_count
    ExpiryDays,  \* password_expiry_days
    GraceDays,   \* password_grace_days
    MaxTime      \* bound of the clock, in days

ASSUME LimitsAssumption == Limits \in SUBSET (Nat \ {0}) /\ Limits # {}
ASSUME PolicyAssumption ==
    /\ MaxFailed \in Nat \ {0} /\ ExpiryDays \in Nat /\ GraceDays \in Nat
    /\ MaxTime \in Nat
ASSUME RequestAssumption == IsFiniteSet(Request)

VARIABLES
    clock,
    row,        \* the "user" row
    sessions,   \* the user's user_session rows: password and login they are from
    used,       \* hash_slots: used
    limit,      \* live_hash_limit.value
    pc,         \* what each request waits for
    who,        \* does the username name the account
    guess,      \* the (current) password the request presents
    loaded,     \* the user row the request has read
    now,        \* new Date() of a change of password
    plan,       \* verdict so far
    acquired,   \* does the request hold a hash slot
    reply,
    \* history
    base,       \* failed_login_count at the start
    arrived,    \* the password in force when the login arrived
    audited,    \* requests whose event was written
    recorded,   \* requests that called record_failure
    cutoff      \* password installed by the last change that logged out all

NoRow == [count |-> 0, pw |-> 0, active |-> FALSE, expires |-> 0]

acctVars == <<row, sessions, cutoff>>
slotVars == <<used, limit>>
inVars   == <<who, guess, arrived>>
histVars == <<base, audited, recorded>>
vars == <<clock, acctVars, slotVars, pc, inVars, loaded, now, plan, acquired,
          reply, histVars>>

Labels == {"idle", "evaluate", "load", "verify", "count", "audit", "record",
           "deny", "create", "cap_audit", "cp_lock", "cp_apply", "cp_audit", "done"}

\* The labels at which a request works on a password hash.
Hashing == {"load", "verify", "count", "cp_lock", "cp_apply"}

----------------------------------------------------------------------------
classify_expiry(expires, at) ==
    IF at < expires THEN "normal_success"
    ELSE IF at <= expires + GraceDays THEN "must_change"
    ELSE "failure"

\* Mutated form: the catch of run_locked does not ROLLBACK.
LockedForGood ==
    \E r \in Request :
        \/ pc[r] = "cp_apply"
        \/ reply[r] = "internal_error" /\ plan[r] \in {"cp_all", "cp_keep"}

\* The holder of SELECT ... FOR UPDATE on the user row (run_locked).
Locked == \E r \in Request : pc[r] = "cp_apply"

try_acquire(r) ==
    /\ used < limit
    /\ used' = used + 1
    /\ acquired' = [acquired EXCEPT ![r] = TRUE]
    /\ UNCHANGED limit

\* Mutated form: the slot is given back, but the request does not remember it.
releaseForgetful(r) ==
    /\ used' = IF acquired[r] /\ used > 0 THEN used - 1 ELSE used
    /\ UNCHANGED <<limit, acquired>>

release(r) ==
    /\ used' = IF acquired[r] /\ used > 0 THEN used - 1 ELSE used
    /\ acquired' = [acquired EXCEPT ![r] = FALSE]
    /\ UNCHANGED limit

Goto(r, label) == pc' = [pc EXCEPT ![r] = label]

\* The handler returns and its locals are gone.
Reply(r, result) ==
    /\ Goto(r, "done")
    /\ reply' = [reply EXCEPT ![r] = result]
    /\ loaded' = [loaded EXCEPT ![r] = NoRow]
    /\ now' = [now EXCEPT ![r] = 0]

Init ==
    /\ clock = 0
    /\ base \in 0 .. MaxFailed
    /\ row \in [count : {base}, pw : {1}, active : BOOLEAN, expires : {ExpiryDays}]
    /\ sessions = {} /\ cutoff = 0
    /\ used = 0 /\ limit \in Limits
    /\ pc = [r \in Request |-> "idle"]
    /\ who = [r \in Request |-> "known"]
    /\ guess = [r \in Request |-> 0]
    /\ arrived = [r \in Request |-> 0]
    /\ loaded = [r \in Request |-> NoRow]
    /\ now = [r \in Request |-> 0]
    /\ plan = [r \in Request |-> "none"]
    /\ acquired = [r \in Request |-> FALSE]
    /\ reply = [r \in Request |-> "none"]
    /\ audited = {} /\ recorded = {}

Tick ==
    /\ clock < MaxTime
    /\ clock' = clock + 1
    /\ UNCHANGED <<acctVars, slotVars, pc, inVars, loaded, now, plan, acquired,
                   reply, histVars>>

\* get_settings: the limit follows the settings, whatever is in use.
SettingsLoaded ==
    /\ limit' \in Limits
    /\ UNCHANGED <<clock, acctVars, used, pc, inVars, loaded, now, plan, acquired,
                   reply, histVars>>

----------------------------------------------------------------------------
\* run_login_pipeline

LoginStart(r) ==
    /\ pc[r] = "idle"
    /\ Goto(r, "evaluate")
    /\ \E w \in {"known", "unknown"}, g \in 0 .. row.pw :
        /\ who' = [who EXCEPT ![r] = w]
        /\ guess' = [guess EXCEPT ![r] = g]
    /\ arrived' = [arrived EXCEPT ![r] = row.pw]
    /\ UNCHANGED <<clock, acctVars, slotVars, loaded, now, plan, acquired, reply,
                   histVars>>

\* After rate_limit.evaluate: an invalid name, a lockout and an unusable
\* password (first disjunct) are judged without the account; others need a
\* hash slot.
LoginEvaluated(r) ==
    /\ pc[r] = "evaluate"
    /\ \/ /\ Goto(r, "audit")
          /\ plan' = [plan EXCEPT ![r] = "refuse"]
          /\ UNCHANGED <<slotVars, acquired>>
       \/ /\ try_acquire(r)
          /\ Goto(r, "load")
          /\ UNCHANGED plan
       \/ /\ used >= limit
          /\ Goto(r, "cap_audit")
          /\ UNCHANGED <<slotVars, plan, acquired>>
    /\ UNCHANGED <<clock, acctVars, inVars, loaded, now, reply, histVars>>

\* Mutated form: the row may come from a cache filled by an earlier request.
LoginLoadCached(r) ==
    /\ pc[r] = "load"
    /\ \E v \in 1 .. row.pw : loaded' = [loaded EXCEPT ![r] =
            IF who[r] = "known" THEN [row EXCEPT !.pw = v] ELSE NoRow]
    /\ Goto(r, "verify")
    /\ UNCHANGED <<clock, acctVars, slotVars, inVars, now, plan, acquired, reply,
                   histVars>>

\* load_by_username; reads do not wait for row locks.
LoginLoad(r) ==
    /\ pc[r] = "load"
    /\ loaded' = [loaded EXCEPT ![r] = IF who[r] = "known" THEN row ELSE NoRow]
    /\ Goto(r, "verify")
    /\ UNCHANGED <<clock, acctVars, slotVars, inVars, now, plan, acquired, reply,
                   histVars>>

\* verify_password (against a dummy hash for an unknown user), then the order
\* of the tests: inactive, failed count, age of the password.
Verdict(u, g, at) ==
    IF u.pw # g \/ ~u.active \/ u.count >= MaxFailed THEN "fail"
    ELSE IF classify_expiry(u.expires, at) = "failure" THEN "fail" ELSE "pass"

LoginVerify(r) ==
    LET u == loaded[r]
    IN  /\ pc[r] = "verify"
        /\ IF u = NoRow
           THEN /\ release(r)
                /\ plan' = [plan EXCEPT ![r] = "refuse"]
                /\ Goto(r, "audit")
           ELSE /\ plan' = [plan EXCEPT ![r] = Verdict(u, guess[r], clock)]
                /\ Goto(r, "count")
                /\ UNCHANGED <<slotVars, acquired>>
        /\ UNCHANGED <<clock, acctVars, inVars, loaded, now, reply, histVars>>

\* Mutated form: a rejected attempt is counted twice.
NextCountTwice(r) == IF plan[r] = "pass" THEN 0 ELSE loaded[r].count + 2

\* The value set_failed_login_count writes: computed from the row that was
\* loaded, not from the row as it is.
NextCount(r) == IF plan[r] = "pass" THEN 0 ELSE loaded[r].count + 1

\* set_failed_login_count, then the slot is released.  The connection may be
\* lost after the UPDATE took effect.
LoginCount(r) ==
    /\ pc[r] = "count"
    /\ ~Locked
    /\ row' = [row EXCEPT !.count = NextCount(r)]
    /\ release(r)
    /\ \/ Goto(r, "audit") /\ UNCHANGED <<reply, loaded, now>>
       \/ Reply(r, "internal_error")
    /\ UNCHANGED <<clock, sessions, cutoff, inVars, plan, histVars>>

\* Mutated form: a failure of audit.emit is swallowed.
LoginAuditSwallowed(r) ==
    /\ pc[r] = "audit"
    /\ audited' \in {audited, audited \cup {r}}
    /\ Goto(r, IF plan[r] = "pass" THEN "create" ELSE "record")
    /\ UNCHANGED <<clock, acctVars, slotVars, inVars, loaded, now, plan, acquired,
                   reply, base, recorded>>

\* audit.emit, whose failure is the business of Throws.
LoginAudit(r) ==
    /\ pc[r] = "audit"
    /\ audited' = audited \cup {r}
    /\ Goto(r, IF plan[r] = "pass" THEN "create" ELSE "record")
    /\ UNCHANGED <<clock, acctVars, slotVars, inVars, loaded, now, plan, acquired,
                   reply, base, recorded>>

\* rate_limit.record_failure, which may also throw after it took effect.
LoginRecord(r) ==
    /\ pc[r] = "record"
    /\ recorded' = recorded \cup {r}
    /\ \/ Goto(r, "deny") /\ UNCHANGED <<reply, loaded, now>>
       \/ Reply(r, "internal_error")
    /\ UNCHANGED <<clock, acctVars, slotVars, inVars, plan, acquired,
                   base, audited>>

\* The padding sleep is over.
LoginDeny(r) ==
    /\ pc[r] = "deny"
    /\ Reply(r, "denied")
    /\ UNCHANGED <<clock, acctVars, slotVars, inVars, plan, acquired, histVars>>

\* sessions.create in handle_login (its foreign key shares the user row); the
\* reply is 500 when signing the access token fails, and the row stays.
LoginCreate(r) ==
    /\ pc[r] = "create"
    /\ ~Locked
    /\ sessions' = sessions \cup {[pw |-> guess[r], login |-> r]}
    /\ \E result \in {"success", "internal_error"} : Reply(r, result)
    /\ UNCHANGED <<clock, row, cutoff, slotVars, inVars, plan,
                   acquired, histVars>>

\* No slot: the capacity event and 503, for a login and for a change.
CapacityAudit(r) ==
    /\ pc[r] = "cap_audit"
    /\ audited' = audited \cup {r}
    /\ Reply(r, "capacity")
    /\ UNCHANGED <<clock, acctVars, slotVars, inVars, plan, acquired,
                   base, recorded>>

----------------------------------------------------------------------------
\* handle_change_password

\* plan remembers invalidate_user_sessions; now is taken before the lock.
ChangeStart(r) ==
    /\ pc[r] = "idle"
    /\ \E g \in 0 .. row.pw, why \in {"cp_all", "cp_keep"} :
        /\ guess' = [guess EXCEPT ![r] = g]
        /\ plan' = [plan EXCEPT ![r] = why]
    /\ now' = [now EXCEPT ![r] = clock]
    /\ \/ try_acquire(r) /\ Goto(r, "cp_lock")
       \/ /\ used >= limit
          /\ Goto(r, "cap_audit")
          /\ UNCHANGED <<slotVars, acquired>>
    /\ UNCHANGED <<clock, acctVars, who, arrived, loaded, reply, histVars>>

\* BEGIN; SELECT ... FOR UPDATE.
ChangeLock(r) ==
    /\ pc[r] = "cp_lock"
    /\ ~Locked
    /\ loaded' = [loaded EXCEPT ![r] = row]
    /\ Goto(r, "cp_apply")
    /\ UNCHANGED <<clock, acctVars, slotVars, inVars, now, plan, acquired, reply,
                   histVars>>

\* evaluate_change_password refuses: locked, wrong or inactive, or (a choice)
\* a new password that breaks the policy.  Nothing is written.
ChangeRefuse(r) ==
    /\ pc[r] = "cp_apply"
    /\ release(r)
    /\ plan' = [plan EXCEPT ![r] = "refuse"]
    /\ Goto(r, "cp_audit")
    /\ UNCHANGED <<clock, acctVars, inVars, loaded, now, reply, histVars>>

\* Mutated form: the account lock is not tested.
MayChangeLocked(r) ==
    /\ loaded[r].active /\ loaded[r].pw = guess[r]
    /\ classify_expiry(loaded[r].expires, now[r]) # "failure"

MayChange(r) == Verdict(loaded[r], guess[r], now[r]) = "pass"

\* apply_password_change, invalidate_all_sessions when asked for, COMMIT; then
\* the slot is released (finally).  A connection lost at COMMIT looks like a
\* failure.
ChangeApply(r) ==
    /\ pc[r] = "cp_apply"
    /\ MayChange(r)
    /\ row' = [row EXCEPT !.pw = @ + 1, !.count = 0,
                          !.expires = now[r] + ExpiryDays]
    /\ IF plan[r] = "cp_all"
       THEN sessions' = {} /\ cutoff' = row.pw + 1
       ELSE UNCHANGED <<sessions, cutoff>>
    /\ release(r)
    /\ \/ Goto(r, "cp_audit") /\ UNCHANGED <<reply, loaded, now>>
       \/ Reply(r, "internal_error")
    /\ UNCHANGED <<clock, inVars, plan, histVars>>

ChangeAudit(r) ==
    /\ pc[r] = "cp_audit"
    /\ audited' = audited \cup {r}
    /\ Reply(r, IF plan[r] = "refuse" THEN "refused" ELSE "changed")
    /\ UNCHANGED <<clock, acctVars, slotVars, inVars, plan, acquired,
                   base, recorded>>

----------------------------------------------------------------------------
\* Whatever a handler awaits, but the sleep, may throw: catch (or finally) gives
\* the slot back.
Throws(r) ==
    /\ pc[r] \notin {"idle", "deny", "done"}
    /\ release(r)
    /\ Reply(r, "internal_error")
    /\ UNCHANGED <<clock, acctVars, inVars, plan, histVars>>

Arrive(r) == LoginStart(r) \/ ChangeStart(r)

Step(r) ==
    \/ LoginEvaluated(r) \/ LoginLoad(r) \/ LoginVerify(r) \/ LoginCount(r)
    \/ LoginAudit(r) \/ LoginRecord(r) \/ LoginDeny(r) \/ LoginCreate(r)
    \/ CapacityAudit(r)
    \/ ChangeLock(r) \/ ChangeRefuse(r) \/ ChangeApply(r) \/ ChangeAudit(r)

Next ==
    \/ Tick
    \/ SettingsLoaded
    \/ \E r \in Request : Arrive(r) \/ Step(r) \/ Throws(r)

Spec == Init /\ [][Next]_vars

\* A handler runs on; a row lock is granted in the order it was asked for.
FairSpec == Spec /\ \A r \in Request : SF_vars(Step(r))

----------------------------------------------------------------------------
\* Properties

UserRow == [count : Nat, pw : Nat, active : BOOLEAN, expires : Nat]

\* The type invariant.
TypeOK ==
    /\ clock \in 0 .. MaxTime
    /\ row \in UserRow
    /\ sessions \in SUBSET [pw : Nat, login : Request]
    /\ used \in Nat /\ limit \in Limits
    /\ pc \in [Request -> Labels]
    /\ who \in [Request -> {"known", "unknown"}]
    /\ guess \in [Request -> Nat]
    /\ loaded \in [Request -> UserRow]
    /\ now \in [Request -> 0 .. MaxTime]
    /\ plan \in [Request -> {"none", "refuse", "fail", "pass", "cp_all", "cp_keep"}]
    /\ acquired \in [Request -> BOOLEAN]
    /\ reply \in [Request -> {"none", "denied", "success", "capacity",
                              "internal_error", "refused", "changed"}]
    /\ base \in Nat /\ cutoff \in Nat
    /\ arrived \in [Request -> Nat]
    /\ audited \in SUBSET Request /\ recorded \in SUBSET Request

\* Every slot in use belongs to a request that is at its hash, and is given
\* back exactly once on every path: verdict, exception, rollback.
SlotsAccounted ==
    /\ used = Cardinality({r \in Request : pc[r] \in Hashing})
    /\ \A r \in Request : acquired[r] <=> pc[r] \in Hashing

\* One change of password at a time holds the user row.
OneChanger ==
    \A r, q \in Request : pc[r] = "cp_apply" /\ pc[q] = "cp_apply" => r = q

\* A change of password decides on the row it is about to write: while it holds
\* the lock nobody else changed the password or the failed count.
ChangeSeesCurrent == \A r \in Request : pc[r] = "cp_apply" => loaded[r] = row

\* Requests whose verdict on this account was a failure.
Rejected == {r \in Request : plan[r] = "fail"}

\* Lost updates only lose: the failed count never shows more failures than
\* were judged, however stale the row a login loaded.
CountExplained == row.count <= base + Cardinality(Rejected)

\* A verdict reaches the client only after its event was written, and "denied"
\* only after the rate limiter was told.  The rate limiter is told of nothing but
\* logins judged to fail, after their event: not of those that ran into an error
\* or found no slot, though a login it was told of may still end in an error.
VerdictsAudited ==
    \A r \in Request :
        /\ reply[r] \in {"success", "denied", "capacity", "refused", "changed"} =>
                r \in audited
        /\ reply[r] = "denied" => r \in recorded
        /\ r \in recorded => r \in audited /\ plan[r] \in {"refuse", "fail"}

\* A session rests on a password that was in force at or after the arrival of
\* its login: a password changed before that opens nothing.
SessionsOnCurrentPassword ==
    \A s \in sessions : s.pw >= arrived[s.login]

\* The password of a locked account does not change: the failures counted while
\* a change waited for the row are seen by it (evaluate_change_password).
LockedKeepsPassword == [][row'.pw # row.pw => row.count < MaxFailed]_vars

\* Every request is answered, although a login that holds a hash slot may wait
\* for the row a change of password has locked.
EveryRequestReplies == \A r \in Request : pc[r] # "idle" ~> pc[r] = "done"

\* local-development.md: failed_login_count "is the account lock-of-record
\* until admin unlock".
LockedUntilUnlock == [][row.count >= MaxFailed => row'.count >= MaxFailed]_vars

\* local-development.md: "invalidate_user_sessions on change-password logs out
\* all of that user's sessions".
OldPasswordLoggedOut == \A s \in sessions : s.pw >= cutoff
============================================================================
