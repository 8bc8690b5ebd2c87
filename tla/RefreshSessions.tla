-------------------------- MODULE RefreshSessions --------------------------
(***************************************************************************)
(* The server-side sessions of one user and the single-use refresh tokens  *)
(* that keep them alive: auth/src/sessions.ts (create, attempt_rotate,     *)
(* invalidate), the pipelines that call it (refresh_pipeline.ts,           *)
(* logout_pipeline.ts, the session part of handle_login and                *)
(* execute_change_password) and the background session_cleanup.ts.         *)
(*                                                                         *)
(* One action is one SQL statement, because that is where PostgreSQL lets  *)
(* other transactions in.  A statement takes the row locks it needs or     *)
(* waits; a COMMIT is merged with the last statement of its transaction,   *)
(* which can no longer be blocked.  The token (an HMAC in the table) is    *)
(* the number of its place in the session's chain of tokens, 0 being NULL. *)
(* An uncommitted write is visible to its transaction only, so it is kept  *)
(* in the request (its pc, or "mine") until the statement that commits it. *)
(***************************************************************************)
EXTENDS Integers, FiniteSets

CONSTANTS
    Session,      \* ids (uuid) of user_session rows
    NoSession,    \* a request whose access token names no session
    Request,      \* concurrent HTTP requests of the auth service
    TotalTtl,     \* session_total_ttl_seconds
    RefreshTtl,   \* session_refresh_ttl_seconds
    AccessTtl,    \* session_access_ttl_seconds
    Grace,        \* session_refresh_reuse_grace_seconds
    Window,       \* session_refresh_reuse_window_seconds
    MaxTime,      \* bound of the clock
    MaxMint,      \* bound of the tokens minted for one session
    LoginUntil    \* bound: the last time at which a login arrives

ASSUME SessionAssumption == NoSession \notin Session
ASSUME TtlAssumption ==
    /\ TotalTtl \in Nat \ {0} /\ RefreshTtl \in Nat \ {0}
    /\ AccessTtl \in Nat \ {0} /\ Grace \in Nat /\ Window \in Nat
    /\ MaxTime \in Nat /\ MaxMint \in Nat \ {0}
    /\ LoginUntil \in Nat
\* The check constraint of system_config.yaml.
ASSUME WindowAssumption == Window > Grace

VARIABLES
    clock,
    status,    \* user_session: is the row absent, present or deleted
    hmac,      \* user_session.refresh_hmac
    sexp,      \* user_session.session_expires_at
    rexp,      \* user_session.refresh_expires_at
    used,      \* used_refresh_token: rows [sid, tok, at, exp]
    pc,        \* next statement of each request
    sid,       \* session id of the request's access token
    tok,       \* refresh token the request presents
    now,       \* new Date() taken by the request's handler
    tag,       \* why the request tears a session down, then its reply
    mine,      \* used_refresh_token rows the request has deleted, uncommitted
    cpc,       \* next statement of the cleanup tick; "failed" is "idle" after
               \* a tick that ended with an error
    cnow,      \* new Date() taken by the cleanup tick
    \* history
    minted,    \* tokens minted for the session so far
    redeemed,  \* how often each token was exchanged for a new one
    ended      \* sessions whose end was reported to a caller

rowVars  == <<status, hmac, sexp, rexp, minted>>
reqVars  == <<pc, sid, tok, now, tag, mine>>
tickVars == <<cpc, cnow>>
histVars == <<redeemed, ended>>
vars == <<clock, rowVars, used, reqVars, tickVars, histVars>>

----------------------------------------------------------------------------
\* Rows, locks and waiting

Minimum(a, b) == IF a < b THEN a ELSE b

Time == 0 .. (MaxTime + TotalTtl + RefreshTtl + AccessTtl + Window)
Tokens == 1 .. MaxMint
UsedRow == [sid : Session, tok : Tokens, at : 0 .. MaxTime, exp : Time]

UsedOf(s) == {u \in used : u.sid = s}

Live(s) == status[s] = "live"

\* Does SELECT ... WHERE refresh_hmac = $1 AND id = $3 find the row?
Matches(r) == Live(sid[r]) /\ hmac[sid[r]] = tok[r]

\* Mutated form: the SELECT without FOR UPDATE.
RowHoldersUnlocked(s) == {}

\* Holders of the exclusive lock on a user_session row: attempt_rotate between
\* its SELECT ... FOR UPDATE and its COMMIT.
RowHolders(s) == {r \in Request : sid[r] = s /\ pc[r] \in {"insert", "update"}}

\* The FOR UPDATE lock on the user row, held by run_locked.
UserOwners == {r \in Request : pc[r] \in {"cp_used", "cp_sessions", "cp_first"}}

\* The KEY SHARE lock on the user row, taken by the foreign key check of
\* INSERT INTO used_refresh_token.
UserSharers == {r \in Request : pc[r] = "update"}

DeletersOf(rows, r) == {q \in Request \ {r} : mine[q] \cap rows # {}}

\* Does the next statement of r have to wait for the transaction of q?
Blocks(q, r) ==
    \/ /\ pc[r] = "select" /\ Matches(r)
       /\ q \in RowHolders(sid[r])
    \/ /\ pc[r] \in {"insert", "create"}
       /\ q \in UserOwners
    \/ /\ pc[r] = "del_used"
       /\ q \in DeletersOf(UsedOf(sid[r]), r)
    \/ /\ pc[r] = "del_session"
       /\ q \in RowHolders(sid[r]) \cup DeletersOf(UsedOf(sid[r]), r)
    \/ /\ pc[r] = "cp_lock"
       /\ q \in UserOwners \cup UserSharers
    \/ /\ pc[r] = "cp_used"
       /\ q \in DeletersOf(used, r)
    \/ /\ pc[r] = "cp_sessions"
       /\ \/ \E s \in Session : q \in RowHolders(s)
          \/ q \in DeletersOf(used, r)

Unblocked(r) == \A q \in Request : ~Blocks(q, r)

----------------------------------------------------------------------------
\* A request's bookkeeping

Labels == {"idle", "done", "create", "select", "insert", "update", "lookup",
           "finish", "fail_hard", "del_used", "del_session", "cp_lock",
           "cp_used", "cp_sessions", "cp_first"}
Tags == {"none", "login", "refresh", "reuse", "unsigned", "unaudited", "logout",
         "cp_all", "cp_keep", "success", "soft", "hard", "unavailable",
         "internal_error", "logged_out", "refused", "changed"}
Replies == {"success", "soft", "hard", "unavailable", "internal_error",
            "logged_out", "refused", "changed"}

Goto(r, label) == pc' = [pc EXCEPT ![r] = label]

\* The transaction is over (its locks are dropped) and the reply is sent.
Reply(r, result) ==
    /\ pc' = [pc EXCEPT ![r] = "done"]
    /\ tag' = [tag EXCEPT ![r] = result]
    /\ sid' = [sid EXCEPT ![r] = NoSession]
    /\ tok' = [tok EXCEPT ![r] = 0]
    /\ now' = [now EXCEPT ![r] = 0]
    /\ mine' = [mine EXCEPT ![r] = {}]

Begin(r, label, s, t, why) ==
    /\ pc[r] = "idle"
    /\ pc' = [pc EXCEPT ![r] = label]
    /\ sid' = [sid EXCEPT ![r] = s]
    /\ tok' = [tok EXCEPT ![r] = t]
    /\ now' = [now EXCEPT ![r] = clock]
    /\ tag' = [tag EXCEPT ![r] = why]
    /\ UNCHANGED <<clock, rowVars, used, mine, tickVars, histVars>>

Init ==
    /\ clock = 0
    /\ status = [s \in Session |-> "none"]
    /\ hmac = [s \in Session |-> 0]
    /\ sexp = [s \in Session |-> 0]
    /\ rexp = [s \in Session |-> 0]
    /\ minted = [s \in Session |-> 0]
    /\ used = {}
    /\ pc = [r \in Request |-> "idle"]
    /\ sid = [r \in Request |-> NoSession]
    /\ tok = [r \in Request |-> 0]
    /\ now = [r \in Request |-> 0]
    /\ tag = [r \in Request |-> "none"]
    /\ mine = [r \in Request |-> {}]
    /\ cpc = "idle" /\ cnow = 0
    /\ redeemed = [s \in Session |-> [t \in Tokens |-> 0]]
    /\ ended = {}

Tick ==
    /\ clock < MaxTime
    /\ clock' = clock + 1
    /\ UNCHANGED <<rowVars, used, reqVars, tickVars, histVars>>

\* The client has its reply; the next request starts afresh.
Finish(r) ==
    /\ pc[r] = "done"
    /\ pc' = [pc EXCEPT ![r] = "idle"]
    /\ tag' = [tag EXCEPT ![r] = "none"]
    /\ UNCHANGED <<clock, rowVars, used, sid, tok, now, mine, tickVars, histVars>>

----------------------------------------------------------------------------
\* Login: handle_login after run_login_pipeline succeeded

\* A fresh uuid; tok = 1 stands for a minted refresh token, 0 for must_change.
LoginStart(r) ==
    \E s \in Session, t \in {0, 1} :
        /\ status[s] = "none"
        /\ clock <= LoginUntil  \* bound
        /\ \A q \in Request : pc[q] = "create" => sid[q] # s
        /\ Begin(r, "create", s, t, "login")

\* sessions.create with login_session_times.  The reply is 500 when signing
\* the access token fails; the row stays.
LoginCreate(r) ==
    LET s == sid[r]
        session_exp == now[r] + TotalTtl
    IN  /\ pc[r] = "create"
        /\ Unblocked(r)
        /\ status' = [status EXCEPT ![s] = "live"]
        /\ hmac' = [hmac EXCEPT ![s] = tok[r]]
        /\ minted' = [minted EXCEPT ![s] = tok[r]]
        /\ sexp' = [sexp EXCEPT ![s] = session_exp]
        /\ rexp' = [rexp EXCEPT ![s] =
                        IF tok[r] = 0
                        THEN now[r] + AccessTtl
                        ELSE Minimum(now[r] + RefreshTtl, session_exp)]
        /\ \E result \in {"success", "internal_error"} : Reply(r, result)
        /\ UNCHANGED <<clock, used, tickVars, histVars>>

----------------------------------------------------------------------------
\* Refresh: run_refresh_pipeline and attempt_rotate

\* A client may present any token it was ever given, its own newest one or an
\* old one (a second tab, a retry, a copy), or none (tok = 0: cookie missing,
\* or a must-change access token).
RefreshStart(r) ==
    \/ Begin(r, "fail_hard", NoSession, 0, "refresh")
    \/ \E s \in Session :
        /\ status[s] # "none"
        /\ \/ Begin(r, "fail_hard", s, 0, "refresh")
           \/ \E t \in 1 .. minted[s] :
                /\ t = minted[s] => minted[s] < MaxMint  \* bound
                /\ Begin(r, "select", s, t, "refresh")

\* BEGIN; SELECT ... FOR UPDATE, and the test of the two expiry times.
RotateSelect(r) ==
    /\ pc[r] = "select"
    /\ Unblocked(r)
    /\ Goto(r, IF ~Matches(r) THEN "lookup"
               ELSE IF now[r] >= sexp[sid[r]] \/ now[r] >= rexp[sid[r]]
                    THEN "fail_hard"      \* COMMIT, "expired"
                    ELSE "insert")
    /\ UNCHANGED <<clock, rowVars, used, sid, tok, now, tag, mine, tickVars,
                   histVars>>

\* INSERT INTO used_refresh_token: the foreign key check shares the user row.
RotateInsert(r) ==
    /\ pc[r] = "insert"
    /\ Unblocked(r)
    /\ Goto(r, "update")
    /\ UNCHANGED <<clock, rowVars, used, sid, tok, now, tag, mine, tickVars,
                   histVars>>

\* Mutated form: the UPDATE writes the old HMAC back.
RotateCommitOldHmac(r) ==
    LET s == sid[r]
    IN  /\ pc[r] = "update"
        /\ used' = used \cup {[sid |-> s, tok |-> tok[r], at |-> now[r],
                               exp |-> now[r] + Window]}
        /\ minted' = [minted EXCEPT ![s] = @ + 1]
        /\ rexp' = [rexp EXCEPT ![s] = Minimum(now[r] + RefreshTtl, sexp[s])]
        /\ redeemed' = [redeemed EXCEPT ![s][tok[r]] = @ + 1]
        /\ Reply(r, "success")
        /\ UNCHANGED <<clock, status, hmac, sexp, tickVars, ended>>

\* UPDATE user_session; COMMIT.  The client of a connection lost at COMMIT
\* cannot tell: attempt_rotate throws although the rotation took place.
RotateCommit(r) ==
    LET s == sid[r]
    IN  /\ pc[r] = "update"
        /\ used' = used \cup {[sid |-> s, tok |-> tok[r], at |-> now[r],
                               exp |-> now[r] + Window]}
        /\ minted' = [minted EXCEPT ![s] = @ + 1]
        /\ hmac' = [hmac EXCEPT ![s] = minted[s] + 1]
        /\ rexp' = [rexp EXCEPT ![s] = Minimum(now[r] + RefreshTtl, sexp[s])]
        /\ redeemed' = [redeemed EXCEPT ![s][tok[r]] = @ + 1]
        /\ \/ Goto(r, "finish") /\ UNCHANGED <<sid, tok, now, tag, mine>>
           \/ Reply(r, "internal_error")
        /\ UNCHANGED <<clock, status, sexp, tickVars, ended>>

\* SELECT used_at: no row is "unknown", a row within the grace a soft reuse;
\* any other replay tears the session down in the same transaction.
RotateLookup(r) ==
    LET rows == {u \in UsedOf(sid[r]) : u.tok = tok[r]}
    IN  /\ pc[r] = "lookup"
        /\ \/ /\ rows = {}
              /\ Goto(r, "fail_hard") /\ UNCHANGED <<sid, tok, now, tag, mine>>
           \/ \E u \in rows :
                /\ now[r] - u.at <= Grace
                /\ Reply(r, "soft")
           \/ \E u \in rows :
                /\ now[r] - u.at > Grace
                /\ Goto(r, "del_used")
                /\ tag' = [tag EXCEPT ![r] = "reuse"]
                /\ UNCHANGED <<sid, tok, now, mine>>
        /\ UNCHANGED <<clock, rowVars, used, tickVars, histVars>>

\* The rest of the pipeline after a rotation: signing a new access token and
\* the success event; a failure of either invalidates the session.
RefreshFinish(r) ==
    /\ pc[r] = "finish"
    /\ \/ Reply(r, "success")
       \/ \E why \in {"unsigned", "unaudited"} :
            /\ Goto(r, "del_used")
            /\ tag' = [tag EXCEPT ![r] = why]
            /\ UNCHANGED <<sid, tok, now, mine>>
    /\ UNCHANGED <<clock, rowVars, used, tickVars, histVars>>

\* fail_hard: the failure event, or, when it cannot be written and the session
\* is known, invalidate and 503.
FailHard(r) ==
    /\ pc[r] = "fail_hard"
    /\ \/ Reply(r, "hard")
       \/ sid[r] = NoSession /\ Reply(r, "unavailable")
       \/ /\ sid[r] # NoSession
          /\ Goto(r, "del_used")
          /\ tag' = [tag EXCEPT ![r] = "unaudited"]
          /\ UNCHANGED <<sid, tok, now, mine>>
    /\ UNCHANGED <<clock, rowVars, used, tickVars, histVars>>

----------------------------------------------------------------------------
\* delete_session_chain, for a replay, a logout or a failed audit write

LogoutStart(r) ==
    \E s \in Session : status[s] # "none" /\ Begin(r, "del_used", s, 0, "logout")

\* DELETE FROM used_refresh_token WHERE session_id = ...
DeleteUsed(r) ==
    /\ pc[r] = "del_used"
    /\ Unblocked(r)
    /\ mine' = [mine EXCEPT ![r] = UsedOf(sid[r])]
    /\ Goto(r, "del_session")
    /\ UNCHANGED <<clock, rowVars, used, sid, tok, now, tag, tickVars, histVars>>

\* What the caller answers once the chain is gone: the reuse and the logout
\* are still to be audited, and a connection lost at COMMIT looks like a failure.
TornDownReply(why, result) ==
    \/ why = "reuse" /\ result \in {"hard", "unavailable", "internal_error"}
    \/ why = "logout" /\ result \in {"logged_out", "internal_error"}
    \/ why = "unaudited" /\ result = "unavailable"
    \/ why = "unsigned" /\ result = "internal_error"

\* What the caller answers when the tear-down throws.
FailedReply(why) == IF why = "unaudited" THEN "unavailable" ELSE "internal_error"

\* Mutated form: the foreign key error is swallowed and the reply is as usual.
DeleteSessionSwallowed(r) ==
    LET s == sid[r]
    IN  /\ pc[r] = "del_session"
        /\ Unblocked(r)
        /\ \E result \in Replies :
            /\ TornDownReply(tag[r], result)
            /\ Reply(r, result)
            /\ ended' = IF result \in {"hard", "logged_out"}
                        THEN ended \cup {s} ELSE ended
        /\ IF UsedOf(s) \ mine[r] # {}
           THEN UNCHANGED <<status, used>>
           ELSE /\ status' = [status EXCEPT ![s] = "gone"]
                /\ used' = used \ mine[r]
        /\ UNCHANGED <<clock, hmac, sexp, rexp, minted, tickVars, redeemed>>

\* DELETE FROM user_session; COMMIT.  The foreign key of used_refresh_token
\* rejects it when a row the first statement did not see still refers to it.
DeleteSession(r) ==
    LET s == sid[r]
    IN  /\ pc[r] = "del_session"
        /\ Unblocked(r)
        /\ IF UsedOf(s) \ mine[r] # {}
           THEN /\ Reply(r, FailedReply(tag[r]))
                /\ UNCHANGED <<status, used, ended>>
           ELSE /\ status' = [status EXCEPT ![s] = "gone"]
                /\ used' = used \ mine[r]
                /\ \E result \in Replies :
                    /\ TornDownReply(tag[r], result)
                    /\ Reply(r, result)
                    /\ ended' = IF result \in {"hard", "logged_out"}
                                THEN ended \cup {s} ELSE ended
        /\ UNCHANGED <<clock, hmac, sexp, rexp, minted, tickVars,
                       redeemed>>

----------------------------------------------------------------------------
\* execute_change_password inside run_locked

ChangePasswordStart(r) ==
    \E s \in Session, why \in {"cp_all", "cp_keep"} :
        /\ status[s] # "none"
        /\ Begin(r, "cp_lock", s, 0, why)

\* BEGIN; SELECT "user" ... FOR UPDATE; evaluate_change_password.  A refused
\* change commits nothing; its failure event may fail.
ChangePasswordLock(r) ==
    /\ pc[r] = "cp_lock"
    /\ Unblocked(r)
    /\ \/ \E result \in {"refused", "internal_error"} : Reply(r, result)
       \/ /\ Goto(r, IF tag[r] = "cp_all" THEN "cp_used" ELSE "cp_first")
          /\ UNCHANGED <<sid, tok, now, tag, mine>>
    /\ UNCHANGED <<clock, rowVars, used, tickVars, histVars>>

\* invalidate_all_sessions, first statement.
ChangePasswordDeleteUsed(r) ==
    /\ pc[r] = "cp_used"
    /\ Unblocked(r)
    /\ mine' = [mine EXCEPT ![r] = used]
    /\ Goto(r, "cp_sessions")
    /\ UNCHANGED <<clock, rowVars, used, sid, tok, now, tag, tickVars, histVars>>

\* invalidate_all_sessions, second statement; COMMIT; the success event, whose
\* failure turns the reply into a 500.
ChangePasswordDeleteSessions(r) ==
    LET live == {s \in Session : Live(s)}
    IN  /\ pc[r] = "cp_sessions"
        /\ Unblocked(r)
        /\ IF used \ mine[r] # {}
           THEN /\ Reply(r, "internal_error")
                /\ UNCHANGED <<status, used, ended>>
           ELSE /\ status' = [s \in Session |->
                                IF s \in live THEN "gone" ELSE status[s]]
                /\ used' = used \ mine[r]
                /\ \E result \in {"logged_out", "internal_error"} :
                    /\ Reply(r, result)
                    /\ ended' = IF result = "logged_out"
                                THEN ended \cup live ELSE ended
        /\ UNCHANGED <<clock, hmac, sexp, rexp, minted, tickVars,
                       redeemed>>

\* Mutated form: the session need not be without a token.
ChangePasswordAnyRefresh(r) ==
    LET s == sid[r]
        issue == Live(s)
    IN  /\ pc[r] = "cp_first"
        /\ minted' = [minted EXCEPT ![s] = IF issue THEN @ + 1 ELSE @]
        /\ hmac' = [hmac EXCEPT ![s] = IF issue THEN minted[s] + 1 ELSE @]
        /\ rexp' = [rexp EXCEPT ![s] =
                        IF issue THEN Minimum(now[r] + RefreshTtl, sexp[s]) ELSE @]
        /\ Reply(r, "changed")
        /\ UNCHANGED <<clock, status, sexp, used, tickVars, histVars>>

\* get_session and issue_first_refresh (UPDATE ... WHERE refresh_hmac IS NULL);
\* COMMIT.  Signing the new access token or the success event may still fail.
ChangePasswordFirstRefresh(r) ==
    LET s == sid[r]
        issue == Live(s) /\ hmac[s] = 0
    IN  /\ pc[r] = "cp_first"
        /\ minted' = [minted EXCEPT ![s] = IF issue THEN @ + 1 ELSE @]
        /\ hmac' = [hmac EXCEPT ![s] = IF issue THEN minted[s] + 1 ELSE @]
        /\ rexp' = [rexp EXCEPT ![s] =
                        IF issue THEN Minimum(now[r] + RefreshTtl, sexp[s]) ELSE @]
        /\ \E result \in {"changed", "internal_error"} : Reply(r, result)
        /\ UNCHANGED <<clock, status, sexp, used, tickVars, histVars>>

----------------------------------------------------------------------------
\* Database failures and the deadlock detector

InTransaction(r) ==
    pc[r] \in {"create", "select", "insert", "update", "lookup", "del_used",
               "del_session", "cp_lock", "cp_used", "cp_sessions", "cp_first"}

\* Mutated form: the transaction is neither rolled back nor released.
RollbackForgotten(r) == UNCHANGED vars /\ pc[r] # "idle"

\* A statement throws: ROLLBACK, and the error reply of the pipeline.
Rollback(r) ==
    /\ Reply(r, FailedReply(tag[r]))
    /\ UNCHANGED <<clock, rowVars, used, tickVars, histVars>>

StatementFails(r) == InTransaction(r) /\ Rollback(r)

\* PostgreSQL aborts a transaction that waits in a cycle.
InWaitCycle(r) ==
    \E S \in SUBSET Request :
        /\ r \in S
        /\ \A q \in S : \E p \in S : Blocks(p, q)
        /\ \A q \in S : \E p \in S : Blocks(q, p)

DeadlockAbort(r) == InWaitCycle(r) /\ Rollback(r)

----------------------------------------------------------------------------
\* start_session_cleanup / run_session_cleanup

\* DELETE FROM used_refresh_token WHERE expires_at <= $1 (autocommit).
CleanupUsed ==
    LET stale == {u \in used : u.exp <= clock}
    IN  /\ cpc \in {"idle", "failed"}
        /\ \A r \in Request : mine[r] \cap stale = {}
        /\ used' = used \ stale
        /\ cpc' = "sessions"
        /\ cnow' = clock
        /\ UNCHANGED <<clock, rowVars, reqVars, histVars>>

StaleSessions ==
    {s \in Session : Live(s) /\ (sexp[s] <= cnow \/ rexp[s] <= cnow)}

\* Mutated form: a tick that fails does not schedule the next one.
CleanupSessionsStops ==
    LET referring == {u \in used : u.sid \in StaleSessions}
    IN  /\ cpc = "sessions"
        /\ \A s \in StaleSessions : RowHolders(s) = {}
        /\ \A r \in Request : mine[r] \cap referring = {}
        /\ cnow' = 0
        /\ cpc' = IF referring # {} THEN "stopped" ELSE "idle"
        /\ status' = [s \in Session |->
                        IF s \in StaleSessions /\ referring = {}
                        THEN "gone" ELSE status[s]]
        /\ UNCHANGED <<clock, hmac, sexp, rexp, minted, used, reqVars, histVars>>

\* DELETE FROM user_session WHERE session_expires_at <= $1 OR
\* refresh_expires_at <= $1 (autocommit): one foreign key violation undoes the
\* whole statement.  tick() logs the error and schedules the next tick.
CleanupSessions ==
    LET referring == {u \in used : u.sid \in StaleSessions}
    IN  /\ cpc = "sessions"
        /\ \A s \in StaleSessions : RowHolders(s) = {}
        /\ \A r \in Request : mine[r] \cap referring = {}
        /\ cnow' = 0
        /\ IF referring # {}
           THEN cpc' = "failed" /\ UNCHANGED status
           ELSE /\ cpc' = "idle"
                /\ status' = [s \in Session |->
                                IF s \in StaleSessions THEN "gone" ELSE status[s]]
        /\ UNCHANGED <<clock, hmac, sexp, rexp, minted, used, reqVars, histVars>>

Cleanup == CleanupUsed \/ CleanupSessions

----------------------------------------------------------------------------
Step(r) ==
    \/ LoginCreate(r)
    \/ RotateSelect(r) \/ RotateInsert(r) \/ RotateCommit(r) \/ RotateLookup(r)
    \/ RefreshFinish(r) \/ FailHard(r)
    \/ DeleteUsed(r) \/ DeleteSession(r)
    \/ ChangePasswordLock(r) \/ ChangePasswordDeleteUsed(r)
    \/ ChangePasswordDeleteSessions(r) \/ ChangePasswordFirstRefresh(r)
    \/ Finish(r)

Arrive(r) ==
    LoginStart(r) \/ RefreshStart(r) \/ LogoutStart(r) \/ ChangePasswordStart(r)

Next ==
    \/ Tick
    \/ Cleanup
    \/ \E r \in Request :
        Arrive(r) \/ Step(r) \/ StatementFails(r) \/ DeadlockAbort(r)

Spec == Init /\ [][Next]_vars

\* A handler runs on until it replies (Node's event loop), a lock queue of
\* PostgreSQL is first come first served (strong fairness of a statement that
\* waits), the deadlock detector runs, the cleanup timer is rescheduled after
\* every tick and time passes.  Nobody has to send a request.
Fairness ==
    /\ \A r \in Request : SF_vars(Step(r)) /\ WF_vars(DeadlockAbort(r))
    /\ SF_vars(Cleanup)
    /\ WF_vars(Tick)

FairSpec == Spec /\ Fairness

----------------------------------------------------------------------------
\* Properties

RequestTypeOK ==
    /\ pc \in [Request -> Labels]
    /\ sid \in [Request -> Session \cup {NoSession}]
    /\ tok \in [Request -> 0 .. MaxMint]
    /\ now \in [Request -> 0 .. MaxTime]
    /\ tag \in [Request -> Tags]
    /\ mine \in [Request -> SUBSET UsedRow]

\* The type invariant.
TypeOK ==
    /\ clock \in 0 .. MaxTime
    /\ status \in [Session -> {"none", "live", "gone"}]
    /\ hmac \in [Session -> 0 .. MaxMint]
    /\ minted \in [Session -> 0 .. MaxMint]
    /\ sexp \in [Session -> Time]
    /\ rexp \in [Session -> Time]
    /\ used \in SUBSET UsedRow
    /\ cpc \in {"idle", "sessions", "failed"}
    /\ cnow \in 0 .. MaxTime
    /\ redeemed \in [Session -> [Tokens -> Nat]]
    /\ ended \in SUBSET Session
    /\ RequestTypeOK

\* The redeemed tokens, as TokenChain knows them.
Spent == {p \in Session \X Tokens : redeemed[p[1]][p[2]] > 0}

Chain == INSTANCE TokenChain WITH state <- status, head <- minted, spent <- Spent

\* Statements, locks, lost COMMIT acknowledgements, tear-downs and cleanup
\* together behave as one chain of single-use tokens per session.
RefinesTokenChain == Chain!Spec

\* A refresh token is exchanged for a new one at most once, however many
\* requests present it at the same time (attempt_rotate).
SingleRedemption == \A s \in Session, t \in Tokens : redeemed[s][t] <= 1

\* The token in user_session is the newest one, and none of the tokens kept
\* for replay detection is redeemable: a replay can only be judged a replay.
NewestIsCurrent ==
    \A s \in Session :
        Live(s) /\ hmac[s] # 0 =>
            /\ hmac[s] = minted[s]
            /\ \A u \in UsedOf(s) : u.tok < hmac[s]

\* A session whose end was reported (signed out, replay detected, all sessions
\* invalidated) has no row left, no matter which refresh was under way.
EndedIsGone == \A s \in ended : status[s] = "gone" /\ UsedOf(s) = {}

\* No rotation and no first refresh pushes the idle expiry of a session past
\* its absolute expiry (rotate_session_times).
IdleWithinTotal == \A s \in Session : Live(s) /\ hmac[s] # 0 => rexp[s] <= sexp[s]

\* A row lock taken by a rotation protects what it has read: the row it is
\* about to update still holds the token the request presented, alive, and
\* still unexpired at the time the request was judged by.
RotationStillValid ==
    \A r \in Request :
        pc[r] \in {"insert", "update"} =>
            /\ Matches(r)
            /\ now[r] < sexp[sid[r]] /\ now[r] < rexp[sid[r]]
            /\ \A u \in UsedOf(sid[r]) : u.tok # tok[r]

\* The parts of the inductive invariant.
Rotating(r) == pc[r] \in {"insert", "update"}

OneHead ==
    /\ hmac = minted
    /\ \A s \in Session : status[s] = "none" => minted[s] = 0
    /\ \A s \in Session, t \in Tokens :
        redeemed[s][t] <= 1 /\ (t >= minted[s] => redeemed[s][t] = 0)
    /\ \A u \in used : u.tok < minted[u.sid] /\ status[u.sid] = "live"

RequestsSound ==
    \A r \in Request :
        /\ pc[r] = "create" => sid[r] \in Session /\ tok[r] \in {0, 1}
                                /\ status[sid[r]] = "none"
        /\ pc[r] = "create" => \A q \in Request :
                pc[q] = "create" /\ sid[q] = sid[r] => q = r
        /\ pc[r] = "select" => /\ tok[r] \in 1 .. minted[sid[r]]
                               /\ tok[r] = minted[sid[r]] => tok[r] < MaxMint
        /\ pc[r] \notin {"idle", "done", "create", "fail_hard"} =>
                sid[r] \in Session /\ status[sid[r]] # "none"
        /\ pc[r] \in {"del_used", "del_session"} =>
                tag[r] \in {"reuse", "unsigned", "unaudited", "logout"}
        /\ pc[r] = "fail_hard" /\ sid[r] # NoSession => status[sid[r]] # "none"

RotationsExclusive ==
    \A r \in Request :
        Rotating(r) =>
            /\ tok[r] > 0 /\ tok[r] < MaxMint
            /\ \A q \in Request : Rotating(q) /\ sid[q] = sid[r] => q = r

\* A mutual exclusion of rotations by row lock, a chain with one head, and
\* requests that hold what they read: together inductive, hence the others.
IInv ==
    /\ OneHead
    /\ RequestsSound
    /\ RotationsExclusive
    /\ RotationStillValid
    /\ IdleWithinTotal
    /\ EndedIsGone

\* What a rotation knows of the times of its session, by its own clock reading.
DatesKnown ==
    /\ \A r \in Request : now[r] <= clock
    /\ \A u \in used : u.at <= clock
    /\ \A s \in Session : Live(s) /\ hmac[s] # 0 => rexp[s] <= clock + RefreshTtl
    /\ \A r \in Request :
        pc[r] \in {"select", "insert", "update"} /\ Matches(r) =>
            /\ rexp[sid[r]] <= now[r] + RefreshTtl
            /\ \A u \in used : u.sid = sid[r] => u.at <= now[r]

\* No step takes time back from a session that stays.
TimesKept ==
    \A s \in Session :
        Live(s) /\ status'[s] = "live" =>
            /\ hmac[s] # 0 => rexp'[s] >= rexp[s]
            /\ \A u \in used, v \in used' \ used :
                   u.sid = s /\ v.sid = s => u.tok < v.tok /\ u.at <= v.at

\* A rotation dates its session by a clock reading taken before it waited for the
\* row (refresh_pipeline.ts:152), and the rotation it waited for may have read the
\* clock later.  Still the times of a session are in order: its idle expiry never
\* moves to an earlier time, and no token is recorded as used before one that was
\* used up earlier, so grace and reuse window end in the order of the chain.
TimesInOrder == [][TimesKept]_vars

\* Every request gets its reply: no transaction waits for ever, deadlocks of a
\* rotation with a change of password included.
EveryRequestReplies == \A r \in Request : pc[r] # "idle" ~> pc[r] = "idle"

\* An expired session is eventually deleted, although a foreign key may stop
\* some ticks of the cleanup.
ExpiredIsPurged ==
    \A s \in Session : (Live(s) /\ clock >= sexp[s]) ~> (status[s] = "gone")

\* used_refresh_token.yaml: "session tear-down deletes these rows before the
\* session row", so that no tick of the cleanup runs into the foreign key.
CleanupSucceeds == cpc # "failed"
============================================================================
