----------------------- MODULE RefreshSessionsProofs -----------------------
(* Proofs about RefreshSessions, for any sessions, requests and settings. *)
EXTENDS RefreshSessions, TLAPS

USE SessionAssumption, TtlAssumption

----------------------------------------------------------------------------
\* What a request's bookkeeping preserves

\* The expiry times of login_session_times and rotate_session_times.
LEMMA ExpiryTimes ==
    ASSUME NEW n \in 0 .. MaxTime, NEW b \in Time
    PROVE  /\ Minimum(n + RefreshTtl, b) \in Time
           /\ Minimum(n + RefreshTtl, b) <= b
           /\ n + TotalTtl \in Time /\ n + AccessTtl \in Time /\ n + Window \in Time
BY DEF Minimum, Time

LEMMA GotoType ==
    ASSUME RequestTypeOK, NEW r \in Request, NEW label \in Labels, Goto(r, label)
    PROVE  pc' \in [Request -> Labels]
BY DEF RequestTypeOK, Goto

LEMMA ReplyType ==
    ASSUME RequestTypeOK, NEW r \in Request, NEW result \in Replies, Reply(r, result)
    PROVE  RequestTypeOK'
<1>1. "done" \in Labels /\ result \in Tags
  BY DEF Labels, Tags, Replies
<1> QED
  BY <1>1 DEF RequestTypeOK, Reply

LEMMA BeginType ==
    ASSUME TypeOK, NEW r \in Request, NEW label \in Labels,
           NEW s \in Session \cup {NoSession}, NEW t \in 0 .. MaxMint,
           NEW why \in Tags, Begin(r, label, s, t, why)
    PROVE  TypeOK'
BY DEF TypeOK, RequestTypeOK, Begin, rowVars, tickVars, histVars

LEMMA FailedReplyType ==
    ASSUME NEW why PROVE FailedReply(why) \in Replies
BY DEF FailedReply, Replies

----------------------------------------------------------------------------
\* Type correctness

LEMMA TypeInit == Init => TypeOK
BY DEF Init, TypeOK, RequestTypeOK, Time, Tokens, UsedRow, Labels, Tags

LEMMA ArriveType ==
    ASSUME TypeOK, NEW r \in Request, Arrive(r) PROVE TypeOK'
<1> USE DEF Labels, Tags
<1>1. CASE LoginStart(r)
  BY <1>1, BeginType DEF LoginStart
<1>2. CASE RefreshStart(r)
  <2>1. \A s \in Session : \A t \in 1 .. minted[s] : t \in 0 .. MaxMint
    BY DEF TypeOK
  <2> QED BY <1>2, <2>1, BeginType DEF RefreshStart
<1>3. CASE LogoutStart(r) \/ ChangePasswordStart(r)
  BY <1>3, BeginType DEF LogoutStart, ChangePasswordStart
<1> QED BY <1>1, <1>2, <1>3 DEF Arrive

LEMMA StepType ==
    ASSUME TypeOK, IInv, NEW r \in Request, Step(r) PROVE TypeOK'
<1> USE DEF TypeOK
<1>1. CASE LoginCreate(r)
  <2>1. PICK result \in {"success", "internal_error"} : Reply(r, result)
    BY <1>1 DEF LoginCreate
  <2>2. RequestTypeOK'
    BY <2>1, ReplyType DEF Replies
  <2>3. sid[r] \in Session /\ tok[r] \in {0, 1} /\ now[r] \in 0 .. MaxTime
    BY <1>1 DEF LoginCreate, IInv, RequestsSound, RequestTypeOK
  <2>4. /\ sexp' \in [Session -> Time] /\ rexp' \in [Session -> Time]
    BY <1>1, <2>3, ExpiryTimes DEF LoginCreate
  <2>5. /\ hmac' \in [Session -> 0 .. MaxMint] /\ minted' \in [Session -> 0 .. MaxMint]
        /\ status' \in [Session -> {"none", "live", "gone"}]
    BY <1>1, <2>3 DEF LoginCreate
  <2> QED
    BY <1>1, <2>2, <2>4, <2>5 DEF LoginCreate, tickVars, histVars
<1>2. CASE RotateSelect(r) \/ RotateInsert(r)
  <2>1. PICK label \in Labels : Goto(r, label)
    BY <1>2 DEF RotateSelect, RotateInsert, Labels
  <2>2. RequestTypeOK'
    BY <1>2, <2>1, GotoType DEF RotateSelect, RotateInsert, RequestTypeOK
  <2> QED
    BY <1>2, <2>2 DEF RotateSelect, RotateInsert, rowVars, tickVars, histVars
<1>3. CASE RotateCommit(r)
  <2>1. RequestTypeOK'
    <3>1. CASE Goto(r, "finish") /\ UNCHANGED <<sid, tok, now, tag, mine>>
      BY <3>1, GotoType DEF RequestTypeOK, Labels
    <3>2. CASE Reply(r, "internal_error")
      BY <3>2, ReplyType DEF Replies
    <3> QED BY <1>3, <3>1, <3>2 DEF RotateCommit
  <2>2. /\ sid[r] \in Session /\ now[r] \in 0 .. MaxTime
        /\ tok[r] \in Tokens /\ minted[sid[r]] = tok[r] /\ tok[r] < MaxMint
    <3>1. pc[r] = "update"
      BY <1>3 DEF RotateCommit
    <3>2. sid[r] \in Session
      BY <3>1 DEF IInv, RequestsSound
    <3>3. tok[r] > 0 /\ tok[r] < MaxMint
      BY <3>1 DEF IInv, RotationsExclusive, Rotating
    <3>4. hmac[sid[r]] = tok[r] /\ hmac = minted
      BY <3>1 DEF IInv, RotationStillValid, Matches, OneHead
    <3> QED BY <3>2, <3>3, <3>4 DEF RequestTypeOK, Tokens
  <2>3. /\ minted' \in [Session -> 0 .. MaxMint]
        /\ hmac' \in [Session -> 0 .. MaxMint]
    BY <1>3, <2>2 DEF RotateCommit
  <2>4. rexp' \in [Session -> Time]
    BY <1>3, <2>2, ExpiryTimes DEF RotateCommit
  <2>5. used' \in SUBSET UsedRow
    <3>1. now[r] + Window \in Time
      BY <2>2 DEF Time
    <3>2. [sid |-> sid[r], tok |-> tok[r], at |-> now[r], exp |-> now[r] + Window]
            \in UsedRow
      BY <2>2, <3>1 DEF UsedRow
    <3> QED BY <1>3, <3>2 DEF RotateCommit
  <2>6. redeemed' \in [Session -> [Tokens -> Nat]]
    BY <1>3, <2>2 DEF RotateCommit
  <2> QED
    BY <1>3, <2>1, <2>3, <2>4, <2>5, <2>6 DEF RotateCommit, tickVars
<1>4. CASE RotateLookup(r)
  <2>1. RequestTypeOK'
    <3>1. CASE Reply(r, "soft")
      BY <3>1, ReplyType DEF Replies
    <3>2. CASE Goto(r, "fail_hard") /\ UNCHANGED <<sid, tok, now, tag, mine>>
      BY <3>2, GotoType DEF RequestTypeOK, Labels
    <3>3. CASE /\ Goto(r, "del_used") /\ tag' = [tag EXCEPT ![r] = "reuse"]
               /\ UNCHANGED <<sid, tok, now, mine>>
      BY <3>3, GotoType DEF RequestTypeOK, Labels, Tags
    <3> QED BY <1>4, <3>1, <3>2, <3>3 DEF RotateLookup
  <2> QED BY <1>4, <2>1 DEF RotateLookup, rowVars, tickVars, histVars
<1>5. CASE RefreshFinish(r) \/ FailHard(r)
  <2>1. RequestTypeOK'
    <3>1. CASE \E result \in {"success", "hard", "unavailable"} : Reply(r, result)
      BY <3>1, ReplyType DEF Replies
    <3>2. CASE \E why \in {"unsigned", "unaudited"} :
                 /\ Goto(r, "del_used") /\ tag' = [tag EXCEPT ![r] = why]
                 /\ UNCHANGED <<sid, tok, now, mine>>
      BY <3>2, GotoType DEF RequestTypeOK, Labels, Tags
    <3> QED BY <1>5, <3>1, <3>2 DEF RefreshFinish, FailHard
  <2> QED BY <1>5, <2>1 DEF RefreshFinish, FailHard, rowVars, tickVars, histVars
<1>6. CASE DeleteUsed(r) \/ ChangePasswordDeleteUsed(r)
  <2>1. pc' \in [Request -> Labels]
    BY <1>6, GotoType DEF DeleteUsed, ChangePasswordDeleteUsed, Labels
  <2>2. mine' \in [Request -> SUBSET UsedRow]
    BY <1>6 DEF DeleteUsed, ChangePasswordDeleteUsed, UsedOf, RequestTypeOK
  <2> QED
    BY <1>6, <2>1, <2>2 DEF DeleteUsed, ChangePasswordDeleteUsed, RequestTypeOK, rowVars,
       tickVars, histVars
<1>7. CASE DeleteSession(r)
  <2>1. PICK result \in Replies : Reply(r, result)
    BY <1>7, FailedReplyType DEF DeleteSession
  <2>2. RequestTypeOK'
    BY <2>1, ReplyType
  <2>3. sid[r] \in Session
    BY <1>7 DEF DeleteSession, IInv, RequestsSound
  <2> QED BY <1>7, <2>2, <2>3 DEF DeleteSession, tickVars
<1>8. CASE ChangePasswordLock(r)
  <2>1. RequestTypeOK'
    <3>1. CASE \E result \in {"refused", "internal_error"} : Reply(r, result)
      BY <3>1, ReplyType DEF Replies
    <3>2. CASE /\ \E label \in {"cp_used", "cp_first"} : Goto(r, label)
               /\ UNCHANGED <<sid, tok, now, tag, mine>>
      BY <3>2, GotoType DEF RequestTypeOK, Labels
    <3> QED BY <1>8, <3>1, <3>2 DEF ChangePasswordLock
  <2> QED BY <1>8, <2>1 DEF ChangePasswordLock, rowVars, tickVars, histVars
<1>9. CASE ChangePasswordDeleteSessions(r)
  <2>1. RequestTypeOK'
    BY <1>9, ReplyType DEF ChangePasswordDeleteSessions, Replies
  <2> QED BY <1>9, <2>1 DEF ChangePasswordDeleteSessions, tickVars
<1>10. CASE ChangePasswordFirstRefresh(r)
  <2>1. RequestTypeOK'
    BY <1>10, ReplyType DEF ChangePasswordFirstRefresh, Replies
  <2>2. /\ sid[r] \in Session /\ hmac[sid[r]] = minted[sid[r]]
        /\ now[r] \in 0 .. MaxTime
    BY <1>10 DEF ChangePasswordFirstRefresh, IInv, RequestsSound, OneHead, RequestTypeOK
  <2>3. Minimum(now[r] + RefreshTtl, sexp[sid[r]]) \in Time
    BY <2>2, ExpiryTimes
  <2>4. /\ minted' \in [Session -> 0 .. MaxMint]
        /\ hmac' \in [Session -> 0 .. MaxMint]
        /\ rexp' \in [Session -> Time]
    <3>1. CASE Live(sid[r]) /\ hmac[sid[r]] = 0
      BY <1>10, <2>2, <2>3, <3>1 DEF ChangePasswordFirstRefresh
    <3>2. CASE ~(Live(sid[r]) /\ hmac[sid[r]] = 0)
      BY <1>10, <2>2, <3>2 DEF ChangePasswordFirstRefresh
    <3> QED BY <3>1, <3>2
  <2> QED BY <1>10, <2>1, <2>4 DEF ChangePasswordFirstRefresh, tickVars, histVars
<1>11. CASE Finish(r)
  BY <1>11 DEF Finish, RequestTypeOK, Labels, Tags, rowVars, tickVars, histVars
<1> QED
  BY <1>1, <1>2, <1>3, <1>4, <1>5, <1>6, <1>7, <1>8, <1>9, <1>10, <1>11 DEF Step

LEMMA TypeNext == TypeOK /\ IInv /\ [Next]_vars => TypeOK'
<1> SUFFICES ASSUME TypeOK, IInv, [Next]_vars PROVE TypeOK'
  OBVIOUS
<1>1. CASE Tick
  BY <1>1 DEF TypeOK, RequestTypeOK, Tick, rowVars, reqVars, tickVars, histVars
<1>2. CASE CleanupUsed
  BY <1>2 DEF TypeOK, RequestTypeOK, CleanupUsed, rowVars, reqVars, histVars
<1>3. CASE CleanupSessions
  BY <1>3 DEF TypeOK, RequestTypeOK, CleanupSessions, reqVars, histVars
<1>4. ASSUME NEW r \in Request, StatementFails(r) \/ DeadlockAbort(r) PROVE TypeOK'
  <2>1. Rollback(r)
    BY <1>4 DEF StatementFails, DeadlockAbort
  <2>2. RequestTypeOK'
    BY <2>1, ReplyType, FailedReplyType DEF Rollback, TypeOK
  <2> QED BY <2>1, <2>2 DEF Rollback, TypeOK, rowVars, tickVars, histVars
<1>5. CASE UNCHANGED vars
  BY <1>5 DEF TypeOK, RequestTypeOK, vars, rowVars, reqVars, tickVars, histVars
<1> QED
  BY <1>1, <1>2, <1>3, <1>4, <1>5, ArriveType, StepType DEF Next, Cleanup

----------------------------------------------------------------------------
\* The inductive invariant, for the steps that change no row

LEMMA InvInit == Init => IInv
BY DEF Init, IInv, OneHead, RequestsSound, RotationsExclusive, Rotating,
       RotationStillValid, IdleWithinTotal, EndedIsGone, Live, UsedOf, Tokens

RequestInv == RequestsSound /\ RotationsExclusive /\ RotationStillValid

LEMMA RowsSame ==
    ASSUME IInv, UNCHANGED <<rowVars, used, histVars>>
    PROVE  OneHead' /\ IdleWithinTotal' /\ EndedIsGone'
BY DEF IInv, OneHead, IdleWithinTotal, EndedIsGone, Live, UsedOf, rowVars, histVars

LEMMA ReplyInv ==
    ASSUME TypeOK, IInv, NEW r \in Request, NEW result, Reply(r, result),
           UNCHANGED <<rowVars, used>>
    PROVE  RequestInv'
<1>1. /\ pc'[r] = "done" /\ sid'[r] = NoSession
      /\ \A q \in Request \ {r} : /\ pc'[q] = pc[q] /\ sid'[q] = sid[q]
                                  /\ tok'[q] = tok[q] /\ now'[q] = now[q]
                                  /\ tag'[q] = tag[q]
  BY DEF Reply, TypeOK, RequestTypeOK
<1>2. RequestsSound'
  BY <1>1 DEF IInv, RequestsSound, rowVars
<1>3. RotationsExclusive'
  BY <1>1 DEF IInv, RotationsExclusive, Rotating
<1>4. RotationStillValid'
  BY <1>1 DEF IInv, RotationStillValid, Matches, Live, UsedOf, rowVars
<1> QED BY <1>2, <1>3, <1>4 DEF RequestInv

LEMMA BeginInv ==
    ASSUME TypeOK, IInv, NEW r \in Request, NEW label, NEW s, NEW t, NEW why,
           Begin(r, label, s, t, why),
           label \in {"fail_hard", "select", "del_used", "cp_lock", "create"},
           s # NoSession => s \in Session,
           label # "fail_hard" => s \in Session,
           label # "create" /\ s # NoSession => status[s] # "none",
           label = "create" => /\ status[s] = "none" /\ t \in {0, 1}
                               /\ \A q \in Request : pc[q] = "create" => sid[q] # s,
           label = "select" => /\ t \in 1 .. minted[s]
                               /\ t = minted[s] => minted[s] < MaxMint,
           label = "del_used" => why = "logout"
    PROVE  IInv'
<1>1. /\ pc'[r] = label /\ sid'[r] = s /\ tok'[r] = t /\ tag'[r] = why
      /\ \A q \in Request \ {r} : /\ pc'[q] = pc[q] /\ sid'[q] = sid[q]
                                  /\ tok'[q] = tok[q] /\ now'[q] = now[q]
                                  /\ tag'[q] = tag[q]
  BY DEF Begin, TypeOK, RequestTypeOK
<1>2. UNCHANGED <<rowVars, used, histVars>>
  BY DEF Begin
<1>3. RequestsSound'
  BY <1>1, <1>2 DEF IInv, RequestsSound, rowVars
<1>4. RotationsExclusive'
  BY <1>1 DEF IInv, RotationsExclusive, Rotating
<1>5. RotationStillValid'
  BY <1>1, <1>2 DEF IInv, RotationStillValid, Matches, Live, UsedOf, rowVars
<1> QED BY <1>2, <1>3, <1>4, <1>5, RowsSame DEF IInv

LEMMA ArriveInv ==
    ASSUME TypeOK, IInv, NEW r \in Request, Arrive(r) PROVE IInv'
<1>1. CASE LoginStart(r)
  BY <1>1, BeginInv DEF LoginStart
<1>2. CASE RefreshStart(r)
  <2>1. CASE Begin(r, "fail_hard", NoSession, 0, "refresh")
    BY <2>1, BeginInv
  <2>2. ASSUME NEW s \in Session, status[s] # "none",
               Begin(r, "fail_hard", s, 0, "refresh")
        PROVE  IInv'
    BY <2>2, BeginInv
  <2>3. ASSUME NEW s \in Session, status[s] # "none", NEW t \in 1 .. minted[s],
               t = minted[s] => minted[s] < MaxMint,
               Begin(r, "select", s, t, "refresh")
        PROVE  IInv'
    BY <2>3, BeginInv
  <2> QED BY <1>2, <2>1, <2>2, <2>3 DEF RefreshStart
<1>3. CASE LogoutStart(r)
  BY <1>3, BeginInv DEF LogoutStart
<1>4. CASE ChangePasswordStart(r)
  BY <1>4, BeginInv DEF ChangePasswordStart
<1> QED BY <1>1, <1>2, <1>3, <1>4 DEF Arrive

\* A request that goes on within its transaction and writes nothing yet.
LEMMA GotoInv ==
    ASSUME TypeOK, IInv, NEW r \in Request, NEW label, Goto(r, label),
           UNCHANGED <<rowVars, used, sid, tok, now>>,
           \A q \in Request \ {r} : tag'[q] = tag[q],
           pc[r] # "create", pc[r] \notin {"idle", "done"},
           label \in {"insert", "update", "lookup", "fail_hard", "del_used",
                     "del_session", "cp_used", "cp_sessions", "cp_first"},
           sid[r] \in Session,
           label = "insert" =>
                /\ pc[r] = "select" /\ Matches(r)
                /\ now[r] < sexp[sid[r]] /\ now[r] < rexp[sid[r]]
                /\ RowHolders(sid[r]) = {},
           label = "update" => pc[r] = "insert",
           label \in {"del_used", "del_session"} =>
                tag'[r] \in {"reuse", "unsigned", "unaudited", "logout"}
    PROVE  RequestInv'
<1>1. /\ pc'[r] = label
      /\ \A q \in Request \ {r} : pc'[q] = pc[q]
  BY DEF Goto, TypeOK, RequestTypeOK
<1>2. status[sid[r]] # "none"
  BY DEF IInv, RequestsSound, TypeOK
<1>3. RequestsSound'
  BY <1>1, <1>2 DEF IInv, RequestsSound, rowVars
<1>4. label = "insert" => tok[r] > 0 /\ tok[r] < MaxMint
  BY DEF IInv, RequestsSound, OneHead, Matches, TypeOK, RequestTypeOK
<1>5. label = "insert" => \A q \in Request : Rotating(q) => sid[q] # sid[r]
  BY DEF RowHolders, Rotating
<1>6. RotationsExclusive'
  BY <1>1, <1>4, <1>5 DEF IInv, RotationsExclusive, Rotating
<1>7. label = "insert" => \A u \in UsedOf(sid[r]) : u.tok # tok[r]
  BY DEF IInv, OneHead, Matches, UsedOf, TypeOK, UsedRow, Tokens
<1>8. RotationStillValid'
  BY <1>1, <1>7 DEF IInv, RotationStillValid, Matches, Live, UsedOf, rowVars
<1> QED BY <1>3, <1>6, <1>8 DEF RequestInv

LEMMA QuietStepInv ==
    ASSUME TypeOK, IInv, NEW r \in Request,
           \/ RotateSelect(r) \/ RotateInsert(r) \/ RotateLookup(r)
           \/ RefreshFinish(r) \/ FailHard(r) \/ DeleteUsed(r)
           \/ ChangePasswordLock(r) \/ ChangePasswordDeleteUsed(r) \/ Finish(r)
    PROVE  IInv'
<1>1. UNCHANGED <<rowVars, used, histVars>>
  BY DEF RotateSelect, RotateInsert, RotateLookup, RefreshFinish, FailHard, DeleteUsed,
         ChangePasswordLock, ChangePasswordDeleteUsed, Finish
<1> SUFFICES RequestInv'
  BY <1>1, RowsSame DEF IInv, RequestInv
<1>2. pc[r] \notin {"idle", "done", "create", "fail_hard"} => sid[r] \in Session
  BY DEF IInv, RequestsSound
<1>3. CASE RotateSelect(r)
  <2>1. PICK label : /\ Goto(r, label)
                     /\ label \in {"lookup", "fail_hard", "insert"}
                     /\ label = "insert" =>
                            /\ Matches(r)
                            /\ now[r] < sexp[sid[r]] /\ now[r] < rexp[sid[r]]
    BY <1>2, <1>3 DEF RotateSelect, TypeOK, RequestTypeOK, Time
  <2>2. label = "insert" => RowHolders(sid[r]) = {}
    BY <1>3, <2>1 DEF RotateSelect, Unblocked, Blocks, RowHolders
  <2> QED BY <1>1, <1>2, <1>3, <2>1, <2>2, GotoInv DEF RotateSelect
<1>4. CASE RotateInsert(r)
  BY <1>1, <1>2, <1>4, GotoInv DEF RotateInsert
<1>5. CASE RotateLookup(r)
  <2>1. CASE Reply(r, "soft")
    BY <1>1, <2>1, ReplyInv
  <2>2. CASE Goto(r, "fail_hard") /\ UNCHANGED <<sid, tok, now, tag, mine>>
    BY <1>1, <1>2, <1>5, <2>2, GotoInv DEF RotateLookup
  <2>3. CASE /\ Goto(r, "del_used") /\ tag' = [tag EXCEPT ![r] = "reuse"]
             /\ UNCHANGED <<sid, tok, now, mine>>
    BY <1>1, <1>2, <1>5, <2>3, GotoInv DEF RotateLookup, TypeOK, RequestTypeOK
  <2> QED BY <1>5, <2>1, <2>2, <2>3 DEF RotateLookup
<1>6. CASE RefreshFinish(r) \/ FailHard(r)
  <2>1. CASE \E result : Reply(r, result)
    BY <1>1, <2>1, ReplyInv
  <2>2. ASSUME NEW why \in {"unsigned", "unaudited"},
               Goto(r, "del_used"), tag' = [tag EXCEPT ![r] = why],
               UNCHANGED <<sid, tok, now, mine>>, sid[r] \in Session
        PROVE  RequestInv'
    BY <1>1, <1>6, <2>2, GotoInv DEF RefreshFinish, FailHard, TypeOK, RequestTypeOK
  <2>3. FailHard(r) /\ sid[r] # NoSession => sid[r] \in Session
    BY DEF TypeOK, RequestTypeOK
  <2> QED BY <1>2, <1>6, <2>1, <2>2, <2>3 DEF RefreshFinish, FailHard
<1>7. CASE DeleteUsed(r)
  <2>1. tag[r] \in {"reuse", "unsigned", "unaudited", "logout"}
    BY <1>7 DEF DeleteUsed, IInv, RequestsSound
  <2> QED BY <1>1, <1>2, <1>7, <2>1, GotoInv DEF DeleteUsed
<1>8. CASE ChangePasswordLock(r)
  <2>1. CASE \E result \in {"refused", "internal_error"} : Reply(r, result)
    BY <1>1, <2>1, ReplyInv
  <2>2. CASE /\ \E label \in {"cp_used", "cp_first"} : Goto(r, label)
             /\ UNCHANGED <<sid, tok, now, tag, mine>>
    BY <1>1, <1>2, <1>8, <2>2, GotoInv DEF ChangePasswordLock
  <2> QED BY <1>8, <2>1, <2>2 DEF ChangePasswordLock
<1>9. CASE ChangePasswordDeleteUsed(r)
  BY <1>1, <1>2, <1>9, GotoInv DEF ChangePasswordDeleteUsed
<1>10. CASE Finish(r)
  <2>1. /\ pc'[r] = "idle"
        /\ \A q \in Request \ {r} : pc'[q] = pc[q] /\ tag'[q] = tag[q]
        /\ UNCHANGED <<sid, tok, now>>
    BY <1>10 DEF Finish, TypeOK, RequestTypeOK
  <2>2. RequestsSound'
    BY <1>1, <2>1 DEF IInv, RequestsSound, rowVars
  <2>3. RotationsExclusive'
    BY <2>1 DEF IInv, RotationsExclusive, Rotating
  <2>4. RotationStillValid'
    BY <1>1, <2>1 DEF IInv, RotationStillValid, Matches, Live, UsedOf, rowVars
  <2> QED BY <2>2, <2>3, <2>4 DEF RequestInv
<1> QED
  BY <1>3, <1>4, <1>5, <1>6, <1>7, <1>8, <1>9, <1>10

----------------------------------------------------------------------------
\* The inductive invariant, for the statements that write rows

LEMMA LoginCreateInv ==
    ASSUME TypeOK, IInv, NEW r \in Request, LoginCreate(r) PROVE IInv'
<1> DEFINE s == sid[r]
<1>1. s \in Session /\ status[s] = "none" /\ tok[r] \in {0, 1} /\ minted[s] = 0
  BY DEF LoginCreate, IInv, RequestsSound, OneHead
<1>2. /\ pc'[r] = "done" /\ sid'[r] = NoSession
      /\ \A q \in Request \ {r} : /\ pc'[q] = pc[q] /\ sid'[q] = sid[q]
                                  /\ tok'[q] = tok[q] /\ now'[q] = now[q]
                                  /\ tag'[q] = tag[q]
  BY DEF LoginCreate, Reply, TypeOK, RequestTypeOK
<1>3. /\ status'[s] = "live" /\ minted'[s] = tok[r] /\ hmac' = minted'
      /\ \A x \in Session \ {s} : /\ status'[x] = status[x] /\ minted'[x] = minted[x]
                                  /\ sexp'[x] = sexp[x] /\ rexp'[x] = rexp[x]
      /\ UNCHANGED <<used, redeemed, ended>>
  BY <1>1 DEF LoginCreate, histVars, TypeOK, IInv, OneHead
<1>4. \A q \in Request \ {r} :
        pc[q] \notin {"idle", "done", "fail_hard"} => sid[q] # s
  BY <1>1 DEF IInv, RequestsSound, LoginCreate
<1>5. OneHead'
  <2>1. \A x \in Session, t \in Tokens :
          redeemed'[x][t] <= 1 /\ (t >= minted'[x] => redeemed'[x][t] = 0)
    <3> TAKE x \in Session, t \in Tokens
    <3>1. redeemed[x][t] <= 1 /\ (t >= minted[x] => redeemed[x][t] = 0)
      BY DEF IInv, OneHead
    <3> QED BY <1>1, <1>3, <3>1 DEF Tokens
  <2>2. \A u \in used' : u.tok < minted'[u.sid] /\ status'[u.sid] = "live"
    <3> TAKE u \in used'
    <3>1. u \in used /\ u.sid \in Session /\ status[u.sid] = "live"
      BY <1>3 DEF IInv, OneHead, TypeOK, UsedRow
    <3> QED BY <1>1, <1>3, <3>1 DEF IInv, OneHead
  <2>3. \A x \in Session : status'[x] = "none" => minted'[x] = 0
    BY <1>1, <1>3 DEF IInv, OneHead
  <2> QED BY <1>3, <2>1, <2>2, <2>3 DEF OneHead
<1>6. RequestsSound'
  <2>1. \A q \in Request \ {r} :
          pc[q] \notin {"idle", "done", "fail_hard"} =>
            status'[sid[q]] = status[sid[q]] /\ minted'[sid[q]] = minted[sid[q]]
    BY <1>3, <1>4 DEF IInv, RequestsSound
  <2>2. \A q \in Request : sid[q] # NoSession /\ status[sid[q]] # "none" =>
                            status'[sid[q]] # "none"
    BY <1>1, <1>3 DEF TypeOK, RequestTypeOK
  <2> QED
    BY <1>1, <1>2, <2>1, <2>2 DEF IInv, RequestsSound
<1>7. RotationsExclusive'
  BY <1>2 DEF IInv, RotationsExclusive, Rotating
<1>8. RotationStillValid'
  <2> SUFFICES ASSUME NEW q \in Request, pc'[q] \in {"insert", "update"}
               PROVE  /\ Matches(q)'
                      /\ now'[q] < sexp'[sid'[q]] /\ now'[q] < rexp'[sid'[q]]
                      /\ \A u \in UsedOf(sid[q])' : u.tok # tok'[q]
    BY DEF RotationStillValid
  <2>1. q # r /\ sid[q] \in Session \ {s} /\ pc[q] \in {"insert", "update"}
    BY <1>2, <1>4 DEF IInv, RequestsSound
  <2> QED
    BY <1>2, <1>3, <2>1 DEF IInv, RotationStillValid, Matches, Live, UsedOf, OneHead
<1>9. tok[r] # 0 => rexp'[s] <= sexp'[s]
  <2>1. now[r] \in 0 .. MaxTime
    BY DEF TypeOK, RequestTypeOK
  <2> QED
    BY <1>1, <2>1, ExpiryTimes DEF LoginCreate, TypeOK
<1>10. IdleWithinTotal'
  BY <1>1, <1>3, <1>9 DEF IInv, IdleWithinTotal, Live, OneHead, TypeOK
<1>11. EndedIsGone'
  BY <1>1, <1>3 DEF IInv, EndedIsGone, UsedOf, TypeOK
<1> QED BY <1>5, <1>6, <1>7, <1>8, <1>10, <1>11 DEF IInv

LEMMA RotateCommitInv ==
    ASSUME TypeOK, IInv, NEW r \in Request, RotateCommit(r) PROVE IInv'
<1> DEFINE s == sid[r]
           row == [sid |-> s, tok |-> tok[r], at |-> now[r], exp |-> now[r] + Window]
<1>1. /\ s \in Session /\ Live(s) /\ tok[r] \in Tokens /\ tok[r] < MaxMint
      /\ minted[s] = tok[r] /\ hmac = minted /\ now[r] \in 0 .. MaxTime
      /\ Rotating(r)
  <2>1. pc[r] = "update" /\ Rotating(r)
    BY DEF RotateCommit, Rotating
  <2>2. s \in Session /\ tok[r] > 0 /\ tok[r] < MaxMint
    BY <2>1 DEF IInv, RequestsSound, RotationsExclusive
  <2>3. Live(s) /\ hmac[s] = tok[r] /\ hmac = minted
    BY <2>1 DEF IInv, RotationStillValid, Matches, OneHead
  <2> QED BY <2>1, <2>2, <2>3 DEF TypeOK, RequestTypeOK, Tokens
<1>2. /\ pc'[r] \in {"finish", "done"}
      /\ pc'[r] = "finish" => sid'[r] = s
      /\ \A q \in Request \ {r} : /\ pc'[q] = pc[q] /\ sid'[q] = sid[q]
                                  /\ tok'[q] = tok[q] /\ now'[q] = now[q]
                                  /\ tag'[q] = tag[q]
  BY DEF RotateCommit, Goto, Reply, TypeOK, RequestTypeOK
<1>3. /\ minted'[s] = minted[s] + 1 /\ hmac' = minted'
      /\ \A x \in Session \ {s} : minted'[x] = minted[x] /\ rexp'[x] = rexp[x]
      /\ UNCHANGED <<status, sexp, ended>>
      /\ used' = used \cup {row}
  BY <1>1 DEF RotateCommit, TypeOK
<1>4. /\ redeemed'[s][tok[r]] = redeemed[s][tok[r]] + 1
      /\ \A x \in Session, t \in Tokens :
            x # s \/ t # tok[r] => redeemed'[x][t] = redeemed[x][t]
  BY <1>1 DEF RotateCommit, TypeOK
<1>5. OneHead'
  <2>1. \A x \in Session, t \in Tokens :
          redeemed'[x][t] <= 1 /\ (t >= minted'[x] => redeemed'[x][t] = 0)
    <3> TAKE x \in Session, t \in Tokens
    <3>1. /\ redeemed[x][t] <= 1 /\ (t >= minted[x] => redeemed[x][t] = 0)
          /\ redeemed[x][t] \in Nat /\ minted[x] \in Nat
      BY DEF IInv, OneHead, TypeOK
    <3>2. CASE x = s /\ t = tok[r]
      BY <1>1, <1>3, <1>4, <3>1, <3>2 DEF Tokens
    <3>3. CASE x = s /\ t # tok[r]
      BY <1>1, <1>3, <1>4, <3>1, <3>3 DEF Tokens
    <3>4. CASE x # s
      BY <1>1, <1>3, <1>4, <3>1, <3>4
    <3> QED BY <3>2, <3>3, <3>4
  <2>2. \A u \in used' : u.tok < minted'[u.sid] /\ status'[u.sid] = "live"
    BY <1>1, <1>3 DEF IInv, OneHead, TypeOK, UsedRow, Live, Tokens
  <2>3. \A x \in Session : status'[x] = "none" => minted'[x] = 0
    BY <1>1, <1>3 DEF IInv, OneHead, Live
  <2> QED BY <1>3, <2>1, <2>2, <2>3 DEF OneHead
<1>6. \A q \in Request \ {r} : Rotating(q) => sid[q] # s
  BY <1>1 DEF IInv, RotationsExclusive
<1>7. RequestsSound'
  <2>1. ASSUME NEW q \in Request \ {r}, pc[q] = "select"
        PROVE  /\ tok[q] \in 1 .. minted'[sid[q]]
               /\ tok[q] = minted'[sid[q]] => tok[q] < MaxMint
    <3>1. /\ sid[q] \in Session /\ tok[q] \in 1 .. minted[sid[q]]
          /\ tok[q] = minted[sid[q]] => tok[q] < MaxMint
      BY <2>1 DEF IInv, RequestsSound
    <3>2. tok[q] \in Nat /\ minted[sid[q]] \in Nat
      BY <3>1 DEF TypeOK, RequestTypeOK
    <3> QED BY <1>1, <1>3, <3>1, <3>2
  <2>2. status[s] # "none"
    BY <1>1 DEF Live
  <2> QED
    BY <1>1, <1>2, <1>3, <2>1, <2>2 DEF IInv, RequestsSound
<1>8. RotationsExclusive'
  BY <1>2 DEF IInv, RotationsExclusive, Rotating
<1>9. RotationStillValid'
  <2> SUFFICES ASSUME NEW q \in Request, pc'[q] \in {"insert", "update"}
               PROVE  /\ Matches(q)'
                      /\ now'[q] < sexp'[sid'[q]] /\ now'[q] < rexp'[sid'[q]]
                      /\ \A u \in UsedOf(sid[q])' : u.tok # tok'[q]
    BY DEF RotationStillValid
  <2>1. /\ q # r /\ sid[q] \in Session \ {s} /\ pc[q] \in {"insert", "update"}
    BY <1>2, <1>6 DEF IInv, RequestsSound, Rotating
  <2> QED
    BY <1>2, <1>3, <2>1 DEF IInv, RotationStillValid, Matches, Live, UsedOf, OneHead
<1>10. IdleWithinTotal'
  <2>1. rexp'[s] <= sexp[s]
    BY <1>1, ExpiryTimes DEF RotateCommit, TypeOK
  <2> QED BY <1>1, <1>3, <2>1 DEF IInv, IdleWithinTotal, Live, OneHead
<1>11. EndedIsGone'
  BY <1>1, <1>3 DEF IInv, EndedIsGone, UsedOf, Live, TypeOK
<1> QED BY <1>5, <1>7, <1>8, <1>9, <1>10, <1>11 DEF IInv

\* Rows disappear only while nobody holds their lock.
LEMMA RowsDeletedInv ==
    ASSUME TypeOK, IInv,
           NEW D \in SUBSET Session,
           \A x \in D : status[x] # "none" /\ RowHolders(x) = {},
           status' = [x \in Session |-> IF x \in D THEN "gone" ELSE status[x]],
           used' \subseteq used,
           \A u \in used' : u.sid \notin D,
           ended \subseteq ended',
           \A x \in ended' : status'[x] = "gone" /\ UsedOf(x)' = {},
           UNCHANGED <<hmac, sexp, rexp, minted, redeemed>>,
           \A q \in Request : \/ pc'[q] = "done" /\ sid'[q] = NoSession
                             \/ /\ pc'[q] = pc[q] /\ sid'[q] = sid[q]
                                /\ tok'[q] = tok[q] /\ now'[q] = now[q]
                                /\ tag'[q] = tag[q]
    PROVE  IInv'
<1>1. OneHead'
  <2>1. \A u \in used' : u.tok < minted'[u.sid] /\ status'[u.sid] = "live"
    <3> TAKE u \in used'
    <3>1. u \in used /\ u.sid \in Session \ D
      BY DEF TypeOK, UsedRow
    <3> QED BY <3>1 DEF IInv, OneHead
  <2>2. \A x \in Session : status'[x] = "none" => minted'[x] = 0
    BY DEF IInv, OneHead
  <2> QED BY <2>1, <2>2 DEF IInv, OneHead
<1>2. RequestsSound'
  <2>1. \A q \in Request : sid[q] \in Session =>
          (status'[sid[q]] = "none" <=> status[sid[q]] = "none")
    OBVIOUS
  <2>2. NoSession \notin Session
    OBVIOUS
  <2> QED BY <2>1, <2>2 DEF IInv, RequestsSound, TypeOK, RequestTypeOK
<1>3. RotationsExclusive'
  BY DEF IInv, RotationsExclusive, Rotating
<1>4. RotationStillValid'
  <2> SUFFICES ASSUME NEW q \in Request, pc'[q] \in {"insert", "update"}
               PROVE  /\ Matches(q)'
                      /\ now'[q] < sexp'[sid'[q]] /\ now'[q] < rexp'[sid'[q]]
                      /\ \A u \in UsedOf(sid[q])' : u.tok # tok'[q]
    BY DEF RotationStillValid
  <2>1. /\ pc'[q] = pc[q] /\ sid'[q] = sid[q] /\ tok'[q] = tok[q] /\ now'[q] = now[q]
    OBVIOUS
  <2>2. sid[q] \in Session /\ sid[q] \notin D
    BY <2>1 DEF IInv, RequestsSound, RowHolders
  <2> QED
    BY <2>1, <2>2 DEF IInv, RotationStillValid, Matches, Live, UsedOf
<1>5. IdleWithinTotal'
  BY DEF IInv, IdleWithinTotal, Live
<1>6. EndedIsGone'
  BY DEF EndedIsGone
<1> QED BY <1>1, <1>2, <1>3, <1>4, <1>5, <1>6 DEF IInv

LEMMA ReplyFrame ==
    ASSUME TypeOK, NEW r \in Request, NEW result, Reply(r, result)
    PROVE  \A q \in Request : \/ pc'[q] = "done" /\ sid'[q] = NoSession
                             \/ /\ pc'[q] = pc[q] /\ sid'[q] = sid[q]
                                /\ tok'[q] = tok[q] /\ now'[q] = now[q]
                                /\ tag'[q] = tag[q]
BY DEF Reply, TypeOK, RequestTypeOK

LEMMA DeleteSessionInv ==
    ASSUME TypeOK, IInv, NEW r \in Request, DeleteSession(r) PROVE IInv'
<1> DEFINE s == sid[r]
<1>1. CASE UsedOf(s) \ mine[r] # {}
  <2>1. UNCHANGED <<rowVars, used, histVars>> /\ Reply(r, FailedReply(tag[r]))
    BY <1>1 DEF DeleteSession, rowVars, histVars
  <2> QED BY <2>1, RowsSame, ReplyInv DEF IInv, RequestInv
<1>2. CASE UsedOf(s) \ mine[r] = {}
  <2>1. s \in Session /\ status[s] # "none"
    BY DEF DeleteSession, IInv, RequestsSound
  <2>2. RowHolders(s) = {}
    BY DEF DeleteSession, Unblocked, Blocks, RowHolders
  <2>3. /\ status' = [x \in Session |-> IF x \in {s} THEN "gone" ELSE status[x]]
        /\ used' = used \ mine[r]
        /\ UNCHANGED <<hmac, sexp, rexp, minted, redeemed>>
        /\ ended' = ended \/ ended' = ended \cup {s}
    BY <1>2, <2>1 DEF DeleteSession, TypeOK
  <2>4. \E result : Reply(r, result)
    BY <1>2 DEF DeleteSession
  <2>5. used' \subseteq used /\ \A u \in used' : u.sid \notin {s}
    BY <1>2, <2>3 DEF UsedOf
  <2>6. \A x \in ended' : status'[x] = "gone" /\ UsedOf(x)' = {}
    BY <2>1, <2>3, <2>5 DEF IInv, EndedIsGone, UsedOf, TypeOK
  <2> HIDE DEF s
  <2> QED BY <2>1, <2>2, <2>3, <2>4, <2>5, <2>6, ReplyFrame, RowsDeletedInv
<1> QED BY <1>1, <1>2

LEMMA ChangePasswordDeleteSessionsInv ==
    ASSUME TypeOK, IInv, NEW r \in Request, ChangePasswordDeleteSessions(r)
    PROVE  IInv'
<1> DEFINE live == {x \in Session : Live(x)}
<1>1. CASE used \ mine[r] # {}
  <2>1. UNCHANGED <<rowVars, used, histVars>> /\ Reply(r, "internal_error")
    BY <1>1 DEF ChangePasswordDeleteSessions, rowVars, histVars
  <2> QED BY <2>1, RowsSame, ReplyInv DEF IInv, RequestInv
<1>2. CASE used \ mine[r] = {}
  <2>1. \A x \in live : status[x] # "none" /\ RowHolders(x) = {}
    BY DEF ChangePasswordDeleteSessions, Unblocked, Blocks, Live, RowHolders
  <2>2. /\ status' = [x \in Session |-> IF x \in live THEN "gone" ELSE status[x]]
        /\ used' = {} /\ ended' \in {ended, ended \cup live}
        /\ UNCHANGED <<hmac, sexp, rexp, minted, redeemed>>
        /\ \E result : Reply(r, result)
    BY <1>2 DEF ChangePasswordDeleteSessions
  <2>3. \A x \in ended' : status'[x] = "gone" /\ UsedOf(x)' = {}
    BY <2>2 DEF IInv, EndedIsGone, UsedOf, TypeOK
  <2>4. live \in SUBSET Session
    OBVIOUS
  <2> HIDE DEF live
  <2> QED BY <2>1, <2>2, <2>3, <2>4, ReplyFrame, RowsDeletedInv
<1> QED BY <1>1, <1>2

LEMMA CleanupInv ==
    ASSUME TypeOK, IInv, Cleanup PROVE IInv'
<1>1. CASE CleanupUsed
  <2>1. /\ status' = [x \in Session |-> IF x \in {} THEN "gone" ELSE status[x]]
        /\ used' \subseteq used /\ UNCHANGED <<hmac, sexp, rexp, minted, redeemed, ended>>
        /\ UNCHANGED <<pc, sid, tok, now, tag>>
    BY <1>1 DEF CleanupUsed, rowVars, reqVars, histVars, TypeOK
  <2>2. \A x \in ended' : status'[x] = "gone" /\ UsedOf(x)' = {}
    BY <2>1 DEF IInv, EndedIsGone, UsedOf, TypeOK
  <2> QED BY <2>1, <2>2, RowsDeletedInv
<1>2. CASE CleanupSessions
  <2> DEFINE D == IF {u \in used : u.sid \in StaleSessions} = {}
                  THEN StaleSessions ELSE {}
  <2>1. D \in SUBSET Session /\ \A x \in D : status[x] # "none" /\ RowHolders(x) = {}
    BY <1>2 DEF CleanupSessions, StaleSessions, Live
  <2>2. /\ status' = [x \in Session |-> IF x \in D THEN "gone" ELSE status[x]]
        /\ UNCHANGED <<used, hmac, sexp, rexp, minted, redeemed, ended>>
        /\ UNCHANGED <<pc, sid, tok, now, tag>>
    BY <1>2 DEF CleanupSessions, reqVars, histVars, TypeOK
  <2>3. \A u \in used' : u.sid \notin D
    BY <2>2
  <2>4. \A x \in ended' : status'[x] = "gone" /\ UsedOf(x)' = {}
    BY <2>2 DEF IInv, EndedIsGone, UsedOf, TypeOK
  <2> HIDE DEF D
  <2> QED BY <2>1, <2>2, <2>3, <2>4, RowsDeletedInv
<1> QED BY <1>1, <1>2 DEF Cleanup

LEMMA FirstRefreshInv ==
    ASSUME TypeOK, IInv, NEW r \in Request, ChangePasswordFirstRefresh(r)
    PROVE  IInv'
<1> DEFINE s == sid[r]
<1>1. /\ s \in Session /\ status[s] # "none" /\ hmac = minted
      /\ now[r] \in 0 .. MaxTime
  BY DEF ChangePasswordFirstRefresh, IInv, RequestsSound, OneHead, TypeOK, RequestTypeOK
<1>2. \E result : Reply(r, result)
  BY DEF ChangePasswordFirstRefresh
<1>3. CASE ~(Live(s) /\ hmac[s] = 0)
  <2>1. UNCHANGED <<rowVars, used, histVars>>
    BY <1>1, <1>3 DEF ChangePasswordFirstRefresh, rowVars, histVars, TypeOK
  <2> QED BY <1>2, <2>1, RowsSame, ReplyInv DEF IInv, RequestInv
<1>4. CASE Live(s) /\ hmac[s] = 0
  <2>1. /\ minted[s] = 0 /\ minted'[s] = 1 /\ hmac' = minted'
        /\ \A x \in Session \ {s} : minted'[x] = minted[x] /\ rexp'[x] = rexp[x]
        /\ rexp'[s] <= sexp[s]
        /\ UNCHANGED <<status, sexp, used, redeemed, ended>>
    <3>1. /\ minted' = [minted EXCEPT ![s] = minted[s] + 1]
          /\ hmac' = [hmac EXCEPT ![s] = minted[s] + 1]
          /\ rexp' = [rexp EXCEPT ![s] = Minimum(now[r] + RefreshTtl, sexp[s])]
          /\ UNCHANGED <<status, sexp, used, redeemed, ended>>
      BY <1>4 DEF ChangePasswordFirstRefresh, histVars
    <3>2. sexp[s] \in Time /\ minted[s] = 0
      BY <1>1, <1>4 DEF TypeOK
    <3>3. Minimum(now[r] + RefreshTtl, sexp[s]) <= sexp[s]
      BY <1>1, <3>2, ExpiryTimes
    <3> HIDE DEF s
    <3>4. minted'[s] = 1 /\ rexp'[s] <= sexp[s]
      BY <1>1, <3>1, <3>2, <3>3 DEF TypeOK
    <3>5. \A x \in Session \ {s} : minted'[x] = minted[x] /\ rexp'[x] = rexp[x]
      BY <1>1, <3>1 DEF TypeOK
    <3>6. hmac' = minted'
      BY <1>1, <3>1
    <3> QED BY <3>1, <3>2, <3>4, <3>5, <3>6
  <2>2. \A q \in Request : pc[q] \in {"select", "insert", "update"} => sid[q] # s
    <3> SUFFICES ASSUME NEW q \in Request, pc[q] \in {"select", "insert", "update"}
                 PROVE  sid[q] # s
      OBVIOUS
    <3>1. CASE pc[q] = "select"
      BY <2>1, <3>1 DEF IInv, RequestsSound
    <3>2. CASE pc[q] \in {"insert", "update"}
      BY <1>4, <3>2 DEF IInv, RotationsExclusive, Rotating, RotationStillValid, Matches
    <3> QED BY <3>1, <3>2
  <2>3. \A q \in Request : \/ pc'[q] = "done" /\ sid'[q] = NoSession
                          \/ /\ pc'[q] = pc[q] /\ sid'[q] = sid[q]
                             /\ tok'[q] = tok[q] /\ now'[q] = now[q]
                             /\ tag'[q] = tag[q]
    BY <1>2, ReplyFrame
  <2>4. OneHead'
    <3>1. \A x \in Session, t \in Tokens :
            redeemed'[x][t] <= 1 /\ (t >= minted'[x] => redeemed'[x][t] = 0)
      <4> TAKE x \in Session, t \in Tokens
      <4>1. redeemed[x][t] <= 1 /\ (t >= minted[x] => redeemed[x][t] = 0)
        BY DEF IInv, OneHead
      <4> QED BY <2>1, <4>1 DEF Tokens
    <3>2. \A u \in used' : u.tok < minted'[u.sid] /\ status'[u.sid] = "live"
      <4> TAKE u \in used'
      <4>1. /\ u \in used /\ u.sid \in Session /\ u.tok \in Tokens
            /\ u.tok < minted[u.sid] /\ status[u.sid] = "live"
        BY <2>1 DEF IInv, OneHead, TypeOK, UsedRow
      <4> QED BY <2>1, <4>1 DEF Tokens
    <3> QED BY <1>1, <2>1, <3>1, <3>2 DEF IInv, OneHead
  <2>5. RequestsSound'
    <3>1. \A q \in Request : pc[q] = "select" => minted'[sid[q]] = minted[sid[q]]
      BY <2>1, <2>2 DEF IInv, RequestsSound
    <3> QED BY <2>1, <2>3, <3>1 DEF IInv, RequestsSound
  <2>6. RotationsExclusive'
    BY <2>3 DEF IInv, RotationsExclusive, Rotating
  <2>7. RotationStillValid'
    <3> SUFFICES ASSUME NEW q \in Request, pc'[q] \in {"insert", "update"}
                 PROVE  /\ Matches(q)'
                        /\ now'[q] < sexp'[sid'[q]] /\ now'[q] < rexp'[sid'[q]]
                        /\ \A u \in UsedOf(sid[q])' : u.tok # tok'[q]
      BY DEF RotationStillValid
    <3>1. /\ sid[q] \in Session \ {s} /\ pc[q] \in {"insert", "update"}
          /\ sid'[q] = sid[q] /\ tok'[q] = tok[q] /\ now'[q] = now[q]
      BY <2>2, <2>3 DEF IInv, RequestsSound
    <3> QED
      BY <1>1, <2>1, <3>1 DEF IInv, RotationStillValid, Matches, Live, UsedOf
  <2>8. IdleWithinTotal'
    BY <1>1, <2>1 DEF IInv, IdleWithinTotal, Live
  <2>9. EndedIsGone'
    BY <2>1 DEF IInv, EndedIsGone, UsedOf
  <2> QED BY <2>4, <2>5, <2>6, <2>7, <2>8, <2>9 DEF IInv
<1> QED BY <1>3, <1>4

LEMMA InvNext == TypeOK /\ IInv /\ [Next]_vars => IInv'
<1> SUFFICES ASSUME TypeOK, IInv, [Next]_vars PROVE IInv'
  OBVIOUS
<1>1. CASE Tick \/ UNCHANGED vars
  <2>1. UNCHANGED <<rowVars, used, histVars>> /\ UNCHANGED reqVars
    BY <1>1 DEF Tick, vars
  <2>2. RequestInv'
    BY <2>1 DEF RequestInv, IInv, RequestsSound, RotationsExclusive, Rotating,
       RotationStillValid, Matches, Live, UsedOf, rowVars, reqVars
  <2> QED BY <2>1, <2>2, RowsSame DEF IInv, RequestInv
<1>2. CASE Cleanup
  BY <1>2, CleanupInv
<1>3. ASSUME NEW r \in Request, Arrive(r) PROVE IInv'
  BY <1>3, ArriveInv
<1>4. ASSUME NEW r \in Request, StatementFails(r) \/ DeadlockAbort(r) PROVE IInv'
  <2>1. UNCHANGED <<rowVars, used, histVars>> /\ Reply(r, FailedReply(tag[r]))
    BY <1>4 DEF StatementFails, DeadlockAbort, Rollback
  <2> QED BY <2>1, RowsSame, ReplyInv DEF IInv, RequestInv
<1>5. ASSUME NEW r \in Request, Step(r) PROVE IInv'
  BY <1>5, LoginCreateInv, RotateCommitInv, DeleteSessionInv, FirstRefreshInv,
     ChangePasswordDeleteSessionsInv, QuietStepInv DEF Step
<1> QED BY <1>1, <1>2, <1>3, <1>4, <1>5 DEF Next

----------------------------------------------------------------------------
\* The theorems

\* Type correctness and the inductive invariant hold in every reachable state.
THEOREM Invariance == Spec => [](TypeOK /\ IInv)
<1>1. Init => TypeOK /\ IInv
  BY TypeInit, InvInit
<1>2. TypeOK /\ IInv /\ [Next]_vars => (TypeOK /\ IInv)'
  BY TypeNext, InvNext
<1> QED BY <1>1, <1>2, PTL DEF Spec

\* The state is well typed whatever the statements, failures and ticks do.
THEOREM TypeCorrect == Spec => []TypeOK
BY Invariance, PTL

\* attempt_rotate exchanges a refresh token at most once, for any number of
\* concurrent requests.
THEOREM TokensAreSingleUse == Spec => []SingleRedemption
<1>1. IInv => SingleRedemption
  BY DEF IInv, OneHead, SingleRedemption
<1> QED BY <1>1, Invariance, PTL

\* The stored token is the newest one and no replayed token equals it.
THEOREM OnlyNewestIsCurrent == Spec => []NewestIsCurrent
<1>1. TypeOK /\ IInv => NewestIsCurrent
  BY DEF IInv, OneHead, NewestIsCurrent, UsedOf, TypeOK, UsedRow
<1> QED BY <1>1, Invariance, PTL

\* A reported logout, replay or logout of all sessions left no row behind.
THEOREM EndedSessionsAreGone == Spec => []EndedIsGone
<1>1. IInv => EndedIsGone
  BY DEF IInv
<1> QED BY <1>1, Invariance, PTL

\* A rotation that holds its row lock updates the row it judged.
THEOREM RotationsKeepTheirRow == Spec => []RotationStillValid
<1>1. IInv => RotationStillValid
  BY DEF IInv
<1> QED BY <1>1, Invariance, PTL

\* No refresh extends a session past its absolute expiry.
THEOREM IdleNeverExceedsTotal == Spec => []IdleWithinTotal
<1>1. IInv => IdleWithinTotal
  BY DEF IInv
<1> QED BY <1>1, Invariance, PTL

----------------------------------------------------------------------------
\* Refinement of TokenChain

Quiet == UNCHANGED <<status, minted, redeemed>>

LEMMA QuietSim ==
    ASSUME Quiet PROVE UNCHANGED Chain!chainVars
BY DEF Quiet, Chain!chainVars, Spent

LEMMA CloseSim ==
    ASSUME TypeOK, NEW D \in SUBSET Session, \A x \in D : status[x] = "live",
           status' = [x \in Session |-> IF x \in D THEN "gone" ELSE status[x]],
           UNCHANGED <<minted, redeemed>>
    PROVE  Chain!Next
<1>1. Spent' = Spent
  BY DEF Spent
<1> QED BY <1>1 DEF Chain!Next, Chain!Close

LEMMA LoginCreateSim ==
    ASSUME TypeOK, IInv, NEW r \in Request, LoginCreate(r) PROVE Chain!Next
<1>1. sid[r] \in Session /\ tok[r] \in {0, 1} /\ status[sid[r]] = "none"
  BY DEF LoginCreate, IInv, RequestsSound
<1>2. Spent' = Spent
  BY DEF LoginCreate, histVars, Spent
<1>3. Chain!Open(sid[r], tok[r])
  BY <1>1, <1>2 DEF LoginCreate, Chain!Open
<1> QED BY <1>1, <1>3 DEF Chain!Next

LEMMA RotateCommitSim ==
    ASSUME TypeOK, IInv, NEW r \in Request, RotateCommit(r) PROVE Chain!Next
<1> DEFINE s == sid[r]
<1>1. /\ s \in Session /\ status[s] = "live" /\ hmac[s] = tok[r] /\ hmac = minted
      /\ tok[r] > 0 /\ tok[r] < MaxMint /\ tok[r] \in 0 .. MaxMint
  <2>1. pc[r] = "update"
    BY DEF RotateCommit
  <2>2. s \in Session
    BY <2>1 DEF IInv, RequestsSound
  <2>3. status[s] = "live" /\ hmac[s] = tok[r]
    BY <2>1 DEF IInv, RotationStillValid, Matches, Live
  <2>4. tok[r] > 0 /\ tok[r] < MaxMint
    BY <2>1 DEF IInv, RotationsExclusive, Rotating
  <2>5. hmac = minted /\ tok[r] \in 0 .. MaxMint
    BY DEF IInv, OneHead, TypeOK, RequestTypeOK
  <2> QED BY <2>2, <2>3, <2>4, <2>5
<1>2. minted[s] = tok[r] /\ tok[r] \in Tokens
  BY <1>1, TtlAssumption DEF Tokens
<1>3. redeemed[s][tok[r]] = 0
  BY <1>1, <1>2 DEF IInv, OneHead, Tokens
<1>4. /\ redeemed' = [redeemed EXCEPT ![s][tok[r]] = @ + 1]
      /\ minted' = [minted EXCEPT ![s] = @ + 1] /\ status' = status
  BY DEF RotateCommit
<1> HIDE DEF s
<1>5. Spent' = Spent \cup {<<s, minted[s]>>}
  <2>1. ASSUME NEW p \in Session \X Tokens
        PROVE  p \in Spent' <=> p \in Spent \/ p = <<s, tok[r]>>
    <3>1. PICK x \in Session, t \in Tokens : p = <<x, t>>
      OBVIOUS
    <3>2. redeemed'[x][t] = IF x = s /\ t = tok[r] THEN redeemed[x][t] + 1
                            ELSE redeemed[x][t]
      BY <1>1, <1>2, <1>4 DEF TypeOK
    <3>3. redeemed[x][t] \in Nat
      BY DEF TypeOK
    <3>4. p[1] = x /\ p[2] = t
      BY <3>1
    <3>5. p \in Spent' <=> redeemed'[x][t] > 0
      BY <3>4 DEF Spent
    <3>6. p \in Spent <=> redeemed[x][t] > 0
      BY <3>4 DEF Spent
    <3>7. CASE x = s /\ t = tok[r]
      BY <1>3, <3>1, <3>2, <3>5, <3>7
    <3>8. CASE ~(x = s /\ t = tok[r])
      BY <3>1, <3>2, <3>5, <3>6, <3>8
    <3> QED BY <3>7, <3>8
  <2>2. Spent' \subseteq Session \X Tokens /\ Spent \subseteq Session \X Tokens
    BY DEF Spent
  <2>3. <<s, tok[r]>> \in Session \X Tokens
    BY <1>1, <1>2
  <2> QED BY <1>2, <2>1, <2>2, <2>3
<1>6. <<s, minted[s]>> \notin Spent
  BY <1>2, <1>3 DEF Spent
<1>7. Chain!Redeem(s)
  BY <1>1, <1>2, <1>4, <1>5, <1>6 DEF Chain!Redeem
<1> QED BY <1>1, <1>7 DEF Chain!Next

LEMMA FirstRefreshSim ==
    ASSUME TypeOK, IInv, NEW r \in Request, ChangePasswordFirstRefresh(r)
    PROVE  [Chain!Next]_(Chain!chainVars)
<1> DEFINE s == sid[r]
<1>1. s \in Session /\ hmac = minted /\ redeemed' = redeemed /\ status' = status
  BY DEF ChangePasswordFirstRefresh, IInv, RequestsSound, OneHead, histVars
<1>2. CASE Live(s) /\ hmac[s] = 0
  <2>1. minted[s] = 0 /\ minted' = [minted EXCEPT ![s] = 1]
    BY <1>1, <1>2 DEF ChangePasswordFirstRefresh
  <2>2. Spent' = Spent
    BY <1>1 DEF Spent
  <2>3. Chain!FirstToken(s)
    BY <1>1, <1>2, <2>1, <2>2 DEF Chain!FirstToken, Live
  <2> QED BY <1>1, <2>3 DEF Chain!Next
<1>3. CASE ~(Live(s) /\ hmac[s] = 0)
  <2>1. minted' = minted
    BY <1>1, <1>3 DEF ChangePasswordFirstRefresh, TypeOK
  <2> QED BY <1>1, <2>1, QuietSim DEF Quiet
<1> QED BY <1>2, <1>3

LEMMA DeleteSessionSim ==
    ASSUME TypeOK, IInv, NEW r \in Request, DeleteSession(r)
    PROVE  [Chain!Next]_(Chain!chainVars)
<1> DEFINE s == sid[r]
<1>1. s \in Session /\ status[s] \in {"live", "gone"}
  BY DEF DeleteSession, IInv, RequestsSound, TypeOK
<1>2. UNCHANGED <<minted, redeemed>>
  BY DEF DeleteSession
<1>3. CASE status' = status
  BY <1>2, <1>3, QuietSim DEF Quiet
<1>4. CASE status' # status
  <2>1. status' = [status EXCEPT ![s] = "gone"]
    BY <1>4 DEF DeleteSession
  <2>2. status[s] = "live"
    BY <1>1, <1>4, <2>1 DEF TypeOK
  <2>3. status' = [x \in Session |-> IF x \in {s} THEN "gone" ELSE status[x]]
    BY <1>1, <2>1 DEF TypeOK
  <2> QED BY <1>1, <1>2, <2>2, <2>3, CloseSim
<1> QED BY <1>3, <1>4

LEMMA MassDeleteSim ==
    ASSUME TypeOK, IInv,
           CleanupSessions \/ \E r \in Request : ChangePasswordDeleteSessions(r)
    PROVE  [Chain!Next]_(Chain!chainVars)
<1>1. UNCHANGED <<minted, redeemed>>
  BY DEF CleanupSessions, ChangePasswordDeleteSessions, histVars
<1>2. CASE status' = status
  BY <1>1, <1>2, QuietSim DEF Quiet
<1>3. CASE status' # status
  <2>1. \E D \in SUBSET Session :
            /\ \A x \in D : status[x] = "live"
            /\ status' = [x \in Session |-> IF x \in D THEN "gone" ELSE status[x]]
    <3>1. CASE CleanupSessions
      BY <1>3, <3>1 DEF CleanupSessions, StaleSessions, Live
    <3>2. CASE \E r \in Request : ChangePasswordDeleteSessions(r)
      BY <1>3, <3>2 DEF ChangePasswordDeleteSessions, Live
    <3> QED BY <3>1, <3>2
  <2> QED BY <1>1, <2>1, CloseSim
<1> QED BY <1>2, <1>3

LEMMA QuietSteps ==
    ASSUME [Next]_vars,
           ~CleanupSessions,
           \A r \in Request : ~LoginCreate(r) /\ ~RotateCommit(r) /\ ~DeleteSession(r)
               /\ ~ChangePasswordDeleteSessions(r) /\ ~ChangePasswordFirstRefresh(r)
    PROVE  Quiet
<1>1. CASE Tick \/ CleanupUsed \/ UNCHANGED vars
  BY <1>1 DEF Tick, CleanupUsed, vars, rowVars, histVars, Quiet
<1>2. ASSUME NEW r \in Request, Arrive(r) \/ StatementFails(r) \/ DeadlockAbort(r)
      PROVE  Quiet
  BY <1>2 DEF Arrive, LoginStart, RefreshStart, LogoutStart, ChangePasswordStart,
     Begin, StatementFails, DeadlockAbort, Rollback, rowVars, histVars, Quiet
<1>3. ASSUME NEW r \in Request, Step(r) PROVE Quiet
  BY <1>3 DEF Step, RotateSelect, RotateInsert, RotateLookup, RefreshFinish,
     FailHard, DeleteUsed, ChangePasswordLock, ChangePasswordDeleteUsed, Finish,
     rowVars, histVars, Quiet
<1> QED BY <1>1, <1>2, <1>3 DEF Next, Cleanup

\* The statements of all requests and of the cleanup implement the chain of
\* single-use tokens of TokenChain, step by step.
THEOREM ImplementsTokenChain == Spec => RefinesTokenChain
<1>1. Init => Chain!Init
  BY DEF Init, Chain!Init, Spent
<1>2. TypeOK /\ IInv /\ [Next]_vars => [Chain!Next]_(Chain!chainVars)
  <2> SUFFICES ASSUME TypeOK, IInv, [Next]_vars
               PROVE  [Chain!Next]_(Chain!chainVars)
    OBVIOUS
  <2>1. CASE CleanupSessions \/ \E r \in Request : ChangePasswordDeleteSessions(r)
    BY <2>1, MassDeleteSim
  <2>2. CASE \E r \in Request : LoginCreate(r) \/ RotateCommit(r)
    BY <2>2, LoginCreateSim, RotateCommitSim
  <2>3. CASE \E r \in Request : DeleteSession(r) \/ ChangePasswordFirstRefresh(r)
    BY <2>3, DeleteSessionSim, FirstRefreshSim
  <2>4. CASE Quiet
    BY <2>4, QuietSim
  <2> QED BY <2>1, <2>2, <2>3, <2>4, QuietSteps
<1> QED BY <1>1, <1>2, Invariance, PTL DEF Spec, RefinesTokenChain, Chain!Spec

----------------------------------------------------------------------------
\* The times of a session are in order

Rotates(r) == pc[r] \in {"select", "insert", "update"}

\* What a step does to a request that neither rotates nor issues a first token.
Waits(r)  == now'[r] = now[r] /\ (Rotates(r)' => Rotates(r) /\ sid'[r] = sid[r] /\ tok'[r] = tok[r])
Leaves(r) == now'[r] = 0 /\ ~Rotates(r)'
Comes(r)  == now'[r] = clock /\ (Rotates(r)' => tok'[r] # 0)

\* Steps that write no token: rows may go, requests come, wait and leave.
Timeless ==
    /\ clock' \in Nat /\ clock' >= clock
    /\ hmac' = hmac /\ rexp' = rexp /\ used' \subseteq used
    /\ \A s \in Session : status'[s] = "live" => Live(s)
    /\ \A r \in Request : Waits(r) \/ Leaves(r) \/ Comes(r)

LEMMA TimelessKeeps ==
    ASSUME TypeOK, TypeOK', IInv', DatesKnown, Timeless
    PROVE  DatesKnown' /\ TimesKept
<1>1. /\ clock \in Nat /\ now \in [Request -> Nat] /\ rexp \in [Session -> Nat]
      /\ \A u \in used : u.at \in Nat
  BY DEF TypeOK, RequestTypeOK, Time, UsedRow
<1>2. \A s \in Session : status'[s] = "live" /\ hmac'[s] # 0 =>
            rexp'[s] <= clock + RefreshTtl /\ rexp'[s] \in Nat
  BY <1>1 DEF Timeless, DatesKnown, Live
<1>3. ASSUME NEW r \in Request, Rotates(r)', Matches(r)'
      PROVE  /\ rexp'[sid'[r]] <= now'[r] + RefreshTtl
             /\ \A u \in used' : u.sid = sid'[r] => u.at <= now'[r]
  <2>1. status'[sid'[r]] = "live" /\ hmac'[sid'[r]] = tok'[r]
    BY <1>3 DEF Matches, Live
  <2>2. sid'[r] \in Session /\ sid'[r] # NoSession
    BY <1>3 DEF IInv, RequestsSound, Rotates
  <2>3. status[sid'[r]] = "live" /\ hmac[sid'[r]] = tok'[r] /\ rexp' = rexp
    BY <2>1, <2>2 DEF Timeless, Live
  <2>4. CASE Waits(r)
    <3>1. sid'[r] = sid[r] /\ tok'[r] = tok[r] /\ now'[r] = now[r] /\ Rotates(r)
      BY <1>3, <2>4 DEF Waits
    <3>2. Matches(r)
      BY <2>3, <3>1 DEF Matches, Live
    <3> QED BY <2>3, <3>1, <3>2 DEF Timeless, DatesKnown, Rotates
  <2>5. CASE Comes(r)
    <3>1. now'[r] = clock /\ tok'[r] # 0
      BY <1>3, <2>5 DEF Comes
    <3>2. rexp'[sid'[r]] <= clock + RefreshTtl
      BY <1>2, <2>1, <2>2, <3>1
    <3> QED BY <3>1, <3>2 DEF Timeless, DatesKnown
  <2> QED BY <1>3, <2>4, <2>5 DEF Timeless, Leaves
<1>4. \A r \in Request : now'[r] <= clock'
  BY <1>1 DEF Timeless, Waits, Leaves, Comes, DatesKnown
<1>5. \A u \in used' : u.at <= clock'
  BY <1>1 DEF Timeless, DatesKnown
<1>6. \A s \in Session : Live(s)' /\ hmac'[s] # 0 => rexp'[s] <= clock' + RefreshTtl
  BY <1>1, <1>2 DEF Timeless, Live
<1>7. TimesKept
  <2>1. used' \ used = {} /\ rexp' = rexp
    BY DEF Timeless
  <2> QED BY <1>1, <2>1 DEF TimesKept
<1> QED BY <1>3, <1>4, <1>5, <1>6, <1>7 DEF DatesKnown, Rotates

\* Arrivals take a clock reading and present a token that was handed out.
LEMMA BeginTimes ==
    ASSUME TypeOK, NEW r \in Request, NEW label, NEW s, NEW t, NEW why,
           Begin(r, label, s, t, why), label = "select" => t # 0,
           label \notin {"insert", "update"}
    PROVE  Timeless
<1>1. Comes(r)
  BY DEF Begin, Comes, Rotates, TypeOK, RequestTypeOK
<1>2. \A q \in Request \ {r} : Waits(q)
  BY DEF Begin, Waits, Rotates, TypeOK, RequestTypeOK
<1> QED BY <1>1, <1>2 DEF Timeless, Begin, rowVars, TypeOK, Live

\* A reply ends a request and leaves the others alone.
LEMMA ReplyTimes ==
    ASSUME TypeOK, NEW r \in Request, NEW result, Reply(r, result)
    PROVE  \A q \in Request : Waits(q) \/ Leaves(q)
<1>1. Leaves(r)
  BY DEF Reply, Leaves, Rotates, TypeOK, RequestTypeOK
<1>2. \A q \in Request \ {r} : Waits(q)
  BY DEF Reply, Waits, Rotates, TypeOK, RequestTypeOK
<1> QED BY <1>1, <1>2

\* So does a request that goes on, unless it begins to rotate.
LEMMA GotoTimes ==
    ASSUME TypeOK, NEW r \in Request, NEW label, Goto(r, label),
           UNCHANGED <<sid, tok, now>>,
           Rotates(r) \/ label \notin {"select", "insert", "update"}
    PROVE  \A q \in Request : Waits(q)
BY DEF Goto, Waits, Rotates, TypeOK, RequestTypeOK

LEMMA TimelessSteps ==
    ASSUME TypeOK, TypeOK', [Next]_vars,
           \A r \in Request :
               ~LoginCreate(r) /\ ~RotateCommit(r) /\ ~ChangePasswordFirstRefresh(r)
    PROVE  Timeless
<1>1. CASE Tick \/ Cleanup \/ UNCHANGED vars
  <2>1. UNCHANGED reqVars /\ hmac' = hmac /\ rexp' = rexp /\ used' \subseteq used
    BY <1>1 DEF Tick, Cleanup, CleanupUsed, CleanupSessions, vars, rowVars
  <2>2. clock' >= clock /\ clock' \in Nat
    BY <1>1 DEF Tick, Cleanup, CleanupUsed, CleanupSessions, vars, TypeOK
  <2>3. \A s \in Session : status'[s] = "live" => Live(s)
    BY <1>1 DEF Tick, Cleanup, CleanupUsed, CleanupSessions, vars, rowVars, Live
  <2>4. \A r \in Request : Waits(r)
    BY <2>1 DEF Waits, Rotates, reqVars
  <2> QED BY <2>1, <2>2, <2>3, <2>4 DEF Timeless
<1>2. ASSUME NEW r \in Request, Arrive(r) PROVE Timeless
  <2>1. \A s \in Session : \A t \in 1 .. minted[s] : t # 0
    BY DEF TypeOK
  <2> QED BY <1>2, <2>1, BeginTimes DEF Arrive, LoginStart, RefreshStart, LogoutStart,
        ChangePasswordStart
<1>3. ASSUME NEW r \in Request, StatementFails(r) \/ DeadlockAbort(r) PROVE Timeless
  <2>1. UNCHANGED <<clock, rowVars, used>> /\ Reply(r, FailedReply(tag[r]))
    BY <1>3 DEF StatementFails, DeadlockAbort, Rollback
  <2> QED BY <2>1, ReplyTimes DEF Timeless, rowVars, TypeOK, Live
<1>4. ASSUME NEW r \in Request, Step(r) PROVE Timeless
  <2>1. /\ clock' = clock /\ hmac' = hmac /\ rexp' = rexp /\ used' \subseteq used
    BY <1>4 DEF Step, RotateSelect, RotateInsert, RotateLookup, RefreshFinish, FailHard,
       DeleteUsed, DeleteSession, ChangePasswordLock, ChangePasswordDeleteUsed,
       ChangePasswordDeleteSessions, Finish, rowVars
  <2>2. \A s \in Session : status'[s] = "live" => Live(s)
    BY <1>4 DEF Step, RotateSelect, RotateInsert, RotateLookup, RefreshFinish, FailHard,
       DeleteUsed, DeleteSession, ChangePasswordLock, ChangePasswordDeleteUsed,
       ChangePasswordDeleteSessions, Finish, rowVars, Live, TypeOK
  <2>3. \A q \in Request : Waits(q) \/ Leaves(q)
    <3>1. CASE RotateSelect(r) \/ RotateInsert(r)
      BY <3>1, GotoTimes DEF RotateSelect, RotateInsert, Rotates
    <3>2. CASE RotateLookup(r)
      BY <3>2, GotoTimes, ReplyTimes DEF RotateLookup
    <3>3. CASE RefreshFinish(r) \/ FailHard(r)
      BY <3>3, GotoTimes, ReplyTimes DEF RefreshFinish, FailHard
    <3>4. CASE DeleteUsed(r) \/ ChangePasswordDeleteUsed(r)
      BY <3>4, GotoTimes DEF DeleteUsed, ChangePasswordDeleteUsed
    <3>5. CASE DeleteSession(r) \/ ChangePasswordDeleteSessions(r)
      BY <3>5, ReplyTimes DEF DeleteSession, ChangePasswordDeleteSessions
    <3>6. CASE ChangePasswordLock(r)
      BY <3>6, GotoTimes, ReplyTimes DEF ChangePasswordLock
    <3>7. CASE Finish(r)
      BY <3>7 DEF Finish, Waits, Rotates, TypeOK, RequestTypeOK
    <3> QED BY <1>4, <3>1, <3>2, <3>3, <3>4, <3>5, <3>6, <3>7 DEF Step
  <2> QED BY <2>1, <2>2, <2>3 DEF Timeless, TypeOK
<1> QED BY <1>1, <1>2, <1>3, <1>4 DEF Next

\* What the others find when the row of session s was written by request r: the
\* tokens they present are older than the one now stored.
LEMMA WriterKeeps ==
    ASSUME TypeOK, TypeOK', IInv, IInv', DatesKnown, clock' = clock,
           NEW s \in Session, NEW r \in Request,
           \A x \in Session \ {s} :
               status'[x] = status[x] /\ hmac'[x] = hmac[x] /\ rexp'[x] = rexp[x],
           \A q \in Request : Waits(q) \/ Leaves(q),
           \A q \in Request : Rotates(q)' /\ sid'[q] = s => tok'[q] # hmac'[s],
           \A u \in used' : u \in used \/ (u.sid = s /\ u.at = now[r]),
           status'[s] = "live" /\ hmac'[s] # 0 => rexp'[s] <= clock + RefreshTtl
    PROVE  DatesKnown'
<1>1. /\ clock \in Nat /\ now \in [Request -> Nat]
  BY DEF TypeOK, RequestTypeOK
<1>2. \A q \in Request : now'[q] <= clock'
  BY <1>1 DEF Waits, Leaves, DatesKnown
<1>3. \A u \in used' : u.at <= clock'
  BY DEF DatesKnown
<1>4. \A x \in Session : Live(x)' /\ hmac'[x] # 0 => rexp'[x] <= clock' + RefreshTtl
  BY DEF DatesKnown, Live
<1>5. ASSUME NEW q \in Request, Rotates(q)', Matches(q)'
      PROVE  /\ rexp'[sid'[q]] <= now'[q] + RefreshTtl
             /\ \A u \in used' : u.sid = sid'[q] => u.at <= now'[q]
  <2>1. /\ sid'[q] = sid[q] /\ tok'[q] = tok[q] /\ now'[q] = now[q] /\ Rotates(q)
    BY <1>5 DEF Waits, Leaves
  <2>2. status'[sid[q]] = "live" /\ hmac'[sid[q]] = tok[q]
    BY <1>5, <2>1 DEF Matches, Live
  <2>3. sid[q] \in Session \ {s}
    BY <1>5, <2>1, <2>2 DEF IInv, RequestsSound, Rotates
  <2>4. Matches(q)
    BY <2>2, <2>3 DEF Matches, Live
  <2> QED BY <2>1, <2>3, <2>4 DEF DatesKnown, Rotates
<1> QED BY <1>2, <1>3, <1>4, <1>5 DEF DatesKnown, Rotates

LEMMA LoginCreateTimes ==
    ASSUME TypeOK, TypeOK', IInv, IInv', DatesKnown, NEW r \in Request, LoginCreate(r)
    PROVE  DatesKnown' /\ TimesKept
<1> DEFINE s == sid[r]
<1>1. s \in Session /\ tok[r] \in {0, 1} /\ status[s] = "none"
  BY DEF LoginCreate, IInv, RequestsSound
<1>2. now[r] \in Nat /\ now[r] <= clock /\ clock \in Nat
  BY DEF TypeOK, RequestTypeOK, DatesKnown
<1>3. clock' = clock /\ used' = used
      /\ \A x \in Session \ {s} :
            status'[x] = status[x] /\ hmac'[x] = hmac[x] /\ rexp'[x] = rexp[x]
  BY <1>1 DEF LoginCreate, TypeOK
<1>4. /\ hmac'[s] = tok[r]
      /\ tok[r] # 0 => rexp'[s] = Minimum(now[r] + RefreshTtl, now[r] + TotalTtl)
  BY <1>1 DEF LoginCreate, TypeOK
<1>5. hmac'[s] # 0 => rexp'[s] <= clock + RefreshTtl
  BY <1>2, <1>4 DEF Minimum
<1>6. \A q \in Request : Waits(q) \/ Leaves(q)
  BY ReplyTimes DEF LoginCreate
<1>7. \A q \in Request : Rotates(q)' => sid'[q] # s
  <2> TAKE q \in Request
  <2> HAVE Rotates(q)'
  <2>1. sid'[q] = sid[q] /\ Rotates(q)
    BY <1>6 DEF Waits, Leaves
  <2>2. status[sid[q]] # "none"
    BY <2>1 DEF IInv, RequestsSound, Rotates
  <2> QED BY <1>1, <2>1, <2>2
<1>8. DatesKnown'
  <2> HIDE DEF s
  <2> QED BY <1>1, <1>3, <1>5, <1>6, <1>7, WriterKeeps
<1>9. TimesKept
  <2>1. \A x \in Session : Live(x) => rexp'[x] = rexp[x] /\ rexp[x] \in Nat
    BY <1>1, <1>3 DEF Live, TypeOK, Time
  <2> QED BY <1>3, <2>1 DEF TimesKept
<1> QED BY <1>8, <1>9

LEMMA RotateCommitTimes ==
    ASSUME TypeOK, TypeOK', IInv, IInv', DatesKnown, NEW r \in Request, RotateCommit(r)
    PROVE  DatesKnown' /\ TimesKept
<1> DEFINE s == sid[r]
           row == [sid |-> s, tok |-> tok[r], at |-> now[r], exp |-> now[r] + Window]
<1>1. /\ s \in Session /\ Live(s) /\ Matches(r) /\ Rotating(r) /\ Rotates(r)
      /\ hmac[s] = minted[s] /\ hmac[s] = tok[r] /\ tok[r] > 0
  <2>1. pc[r] = "update" /\ Rotating(r) /\ Rotates(r)
    BY DEF RotateCommit, Rotating, Rotates
  <2>2. s \in Session /\ tok[r] > 0
    BY <2>1 DEF IInv, RequestsSound, RotationsExclusive
  <2>3. Matches(r) /\ hmac = minted
    BY <2>1 DEF IInv, RotationStillValid, OneHead
  <2> QED BY <2>1, <2>2, <2>3 DEF Matches
<1>2. /\ now[r] \in Nat /\ now[r] <= clock /\ clock \in Nat
      /\ sexp[s] \in Nat /\ rexp[s] \in Nat /\ tok[r] \in Nat
  BY <1>1 DEF TypeOK, RequestTypeOK, DatesKnown, Time
<1>3. clock' = clock /\ used' = used \cup {row} /\ status' = status
      /\ \A x \in Session \ {s} :
            status'[x] = status[x] /\ hmac'[x] = hmac[x] /\ rexp'[x] = rexp[x]
  BY <1>1 DEF RotateCommit, TypeOK
<1>4. hmac'[s] = tok[r] + 1 /\ rexp'[s] = Minimum(now[r] + RefreshTtl, sexp[s])
  BY <1>1 DEF RotateCommit, TypeOK
<1>5. rexp[s] <= now[r] + RefreshTtl /\ rexp[s] <= sexp[s]
      /\ \A u \in used : u.sid = s => u.at <= now[r]
  BY <1>1 DEF DatesKnown, IInv, IdleWithinTotal, Rotates
<1>6. rexp'[s] <= clock + RefreshTtl /\ rexp'[s] >= rexp[s]
  BY <1>2, <1>4, <1>5 DEF Minimum
<1>7. \A q \in Request : Waits(q) \/ Leaves(q)
  <2>1. CASE Goto(r, "finish") /\ UNCHANGED <<sid, tok, now>>
    BY <2>1, GotoTimes
  <2>2. CASE Reply(r, "internal_error")
    BY <2>2, ReplyTimes
  <2> QED BY <2>1, <2>2 DEF RotateCommit
<1>8. \A q \in Request : Rotates(q)' /\ sid'[q] = s => tok'[q] # hmac'[s]
  <2> TAKE q \in Request
  <2> HAVE Rotates(q)' /\ sid'[q] = s
  <2>1. sid[q] = s /\ Rotates(q) /\ tok'[q] = tok[q]
    BY <1>7 DEF Waits, Leaves
  <2>2. tok[q] <= tok[r] /\ tok[q] \in Nat
    <3>1. CASE pc[q] = "select"
      <4>1. tok[q] \in 1 .. minted[sid[q]]
        BY <3>1 DEF IInv, RequestsSound
      <4>2. minted[sid[q]] = tok[r]
        BY <1>1, <2>1
      <4>3. tok[q] \in 1 .. tok[r]
        BY <4>1, <4>2
      <4> QED BY <1>2, <4>3
    <3>2. CASE Rotating(q)
      BY <1>1, <1>2, <2>1, <3>2 DEF IInv, RotationsExclusive
    <3> QED BY <2>1, <3>1, <3>2 DEF Rotates, Rotating
  <2> QED BY <1>2, <1>4, <2>1, <2>2
<1>9. DatesKnown'
  <2>1. \A u \in used' : u \in used \/ (u.sid = s /\ u.at = now[r])
    BY <1>3
  <2> HIDE DEF s, row
  <2> QED BY <1>1, <1>3, <1>6, <1>7, <1>8, <2>1, WriterKeeps
<1>10. TimesKept
  <2>1. \A u \in used : u.sid = s => u.tok < tok[r]
    BY <1>1 DEF IInv, OneHead
  <2>2. \A v \in used' \ used : v = row
    BY <1>3
  <2>3. \A x \in Session : rexp'[x] >= rexp[x]
    <3>1. \A x \in Session : rexp[x] \in Nat
      BY DEF TypeOK, Time
    <3> QED BY <1>3, <1>6, <3>1
  <2> QED BY <1>5, <2>1, <2>2, <2>3 DEF TimesKept
<1> QED BY <1>9, <1>10

LEMMA FirstRefreshTimes ==
    ASSUME TypeOK, TypeOK', IInv, IInv', DatesKnown, NEW r \in Request,
           ChangePasswordFirstRefresh(r)
    PROVE  DatesKnown' /\ TimesKept
<1> DEFINE s == sid[r]
           issue == Live(s) /\ hmac[s] = 0
<1>1. s \in Session /\ hmac[s] = minted[s]
  BY DEF ChangePasswordFirstRefresh, IInv, RequestsSound, OneHead
<1>2. \A q \in Request : Waits(q) \/ Leaves(q)
  BY ReplyTimes DEF ChangePasswordFirstRefresh
<1>3. clock' = clock /\ used' = used /\ status' = status
      /\ \A x \in Session \ {s} :
            status'[x] = status[x] /\ hmac'[x] = hmac[x] /\ rexp'[x] = rexp[x]
  BY <1>1 DEF ChangePasswordFirstRefresh, TypeOK
<1>4. CASE ~issue
  <2>1. hmac' = hmac /\ rexp' = rexp
    BY <1>1, <1>4 DEF ChangePasswordFirstRefresh, TypeOK
  <2>2. Timeless
    BY <1>2, <1>3, <2>1 DEF Timeless, TypeOK, Live
  <2> QED BY <2>2, TimelessKeeps
<1>5. CASE issue
  <2>1. hmac'[s] = 1 /\ rexp'[s] = Minimum(now[r] + RefreshTtl, sexp[s])
    BY <1>1, <1>5 DEF ChangePasswordFirstRefresh, TypeOK
  <2>2. now[r] \in Nat /\ now[r] <= clock /\ clock \in Nat /\ sexp[s] \in Nat
    BY <1>1 DEF TypeOK, RequestTypeOK, DatesKnown, Time
  <2>3. rexp'[s] <= clock + RefreshTtl
    BY <2>1, <2>2 DEF Minimum
  <2>4. \A q \in Request : Rotates(q)' => sid'[q] # s
    <3> SUFFICES ASSUME NEW q \in Request, Rotates(q)', sid'[q] = s PROVE FALSE
      OBVIOUS
    <3>1. sid[q] = s /\ Rotates(q)
      BY <1>2 DEF Waits, Leaves
    <3>2. CASE pc[q] = "select"
      <4>1. tok[q] \in 1 .. minted[sid[q]]
        BY <3>2 DEF IInv, RequestsSound
      <4>2. minted[sid[q]] = 0
        BY <1>1, <1>5, <3>1
      <4>3. tok[q] \in 1 .. 0
        BY <4>1, <4>2
      <4> QED BY <4>3
    <3>3. CASE Rotating(q)
      BY <1>5, <3>1, <3>3 DEF IInv, RotationsExclusive, RotationStillValid, Rotating, Matches
    <3> QED BY <3>1, <3>2, <3>3 DEF Rotates, Rotating
  <2>5. DatesKnown'
    <3> HIDE DEF s
    <3> QED BY <1>1, <1>2, <1>3, <2>3, <2>4, WriterKeeps
  <2>6. TimesKept
    BY <1>1, <1>3, <1>5 DEF TimesKept, TypeOK, Time
  <2> QED BY <2>5, <2>6
<1> QED BY <1>4, <1>5

\* A rotation dated by an old clock reading takes no time back from its session,
\* because the reading is younger than the rotation that stored the token it presents.
THEOREM TimesAreInOrder == Spec => TimesInOrder
<1>1. Init => DatesKnown
  BY DEF Init, DatesKnown, Live
<1>2. ASSUME TypeOK, TypeOK', IInv, IInv', DatesKnown, [Next]_vars
      PROVE  DatesKnown' /\ TimesKept
  <2>1. CASE \E r \in Request :
               LoginCreate(r) \/ RotateCommit(r) \/ ChangePasswordFirstRefresh(r)
    BY <1>2, <2>1, LoginCreateTimes, RotateCommitTimes, FirstRefreshTimes
  <2>2. CASE ~\E r \in Request :
               LoginCreate(r) \/ RotateCommit(r) \/ ChangePasswordFirstRefresh(r)
    BY <1>2, <2>2, TimelessSteps, TimelessKeeps
  <2> QED BY <2>1, <2>2
<1> QED BY <1>1, <1>2, Invariance, PTL DEF Spec, TimesInOrder

============================================================================
