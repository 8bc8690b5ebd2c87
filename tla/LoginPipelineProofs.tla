------------------------ MODULE LoginPipelineProofs ------------------------
(***************************************************************************)
(* Proofs about LoginPipeline: hash slots are accounted for, a change of   *)
(* password decides on the row it writes, the failed count is explained by *)
(* the verdicts, verdicts are audited, and sessions rest on a password in  *)
(* force since their login arrived.                                        *)
(***************************************************************************)
EXTENDS LoginPipeline, FiniteSetTheorems, TLAPS

Holders == {r \in Request : pc[r] \in Hashing}

\* What a step of r does to its place in the program and to its slot.
SlotKept(r, label) ==
    /\ pc' = [pc EXCEPT ![r] = label]
    /\ pc[r] \in Hashing <=> label \in Hashing
    /\ UNCHANGED <<used, acquired>>

SlotTaken(r, label) ==
    /\ pc' = [pc EXCEPT ![r] = label]
    /\ pc[r] \notin Hashing /\ label \in Hashing
    /\ used' = used + 1
    /\ acquired' = [acquired EXCEPT ![r] = TRUE]

SlotGiven(r, label) ==
    /\ pc' = [pc EXCEPT ![r] = label]
    /\ label \notin Hashing
    /\ release(r)

LEMMA HoldersFinite == IsFiniteSet(Holders)
<1>1. Holders \subseteq Request
  BY DEF Holders
<1> QED BY <1>1, RequestAssumption, FS_Subset

LEMMA SlotKeptOK ==
    ASSUME TypeOK, SlotsAccounted, NEW r \in Request, NEW label, SlotKept(r, label)
    PROVE  SlotsAccounted'
<1>1. \A q \in Request : pc'[q] \in Hashing <=> pc[q] \in Hashing
  BY DEF SlotKept, TypeOK
<1>2. {q \in Request : pc'[q] \in Hashing} = {q \in Request : pc[q] \in Hashing}
  BY <1>1
<1> QED BY <1>1, <1>2 DEF SlotsAccounted, SlotKept, TypeOK

LEMMA SlotTakenOK ==
    ASSUME TypeOK, SlotsAccounted, NEW r \in Request, NEW label, SlotTaken(r, label)
    PROVE  SlotsAccounted'
<1>1. /\ \A q \in Request \ {r} : pc'[q] = pc[q] /\ acquired'[q] = acquired[q]
      /\ pc'[r] \in Hashing /\ acquired'[r] /\ r \notin Holders
  BY DEF SlotTaken, TypeOK, Holders
<1>2. Holders' = Holders \cup {r}
  BY <1>1 DEF Holders
<1>3. Cardinality(Holders \cup {r}) = Cardinality(Holders) + 1
  BY <1>1, HoldersFinite, FS_AddElement
<1>4. used' = Cardinality(Holders')
  BY <1>2, <1>3 DEF SlotTaken, SlotsAccounted, Holders
<1>5. \A q \in Request : acquired'[q] <=> pc'[q] \in Hashing
  BY <1>1 DEF SlotsAccounted
<1> QED BY <1>4, <1>5 DEF SlotsAccounted, Holders

LEMMA SlotGivenOK ==
    ASSUME TypeOK, SlotsAccounted, NEW r \in Request, NEW label, SlotGiven(r, label)
    PROVE  SlotsAccounted'
<1>1. /\ \A q \in Request \ {r} : pc'[q] = pc[q] /\ acquired'[q] = acquired[q]
      /\ pc'[r] \notin Hashing /\ ~acquired'[r]
  BY DEF SlotGiven, release, TypeOK
<1>2. Holders' = Holders \ {r}
  BY <1>1 DEF Holders
<1>3. used = Cardinality(Holders) /\ (acquired[r] <=> r \in Holders)
  BY DEF SlotsAccounted, Holders
<1>4. used' = Cardinality(Holders \ {r})
  <2>1. CASE acquired[r]
    <3>1. Cardinality(Holders \ {r}) = Cardinality(Holders) - 1
      BY <1>3, <2>1, HoldersFinite, FS_RemoveElement
    <3>2. Cardinality(Holders) # 0
      BY <1>3, <2>1, HoldersFinite, FS_EmptySet
    <3>3. used > 0
      BY <1>3, <3>2 DEF TypeOK
    <3> QED BY <1>3, <2>1, <3>1, <3>3 DEF SlotGiven, release
  <2>2. CASE ~acquired[r]
    <3>1. Holders \ {r} = Holders
      BY <1>3, <2>2
    <3> QED BY <1>3, <2>2, <3>1 DEF SlotGiven, release
  <2> QED BY <2>1, <2>2 DEF TypeOK
<1>5. \A q \in Request : acquired'[q] <=> pc'[q] \in Hashing
  BY <1>1 DEF SlotsAccounted
<1> QED BY <1>2, <1>4, <1>5 DEF SlotsAccounted, Holders

LEMMA SlotsStep ==
    ASSUME TypeOK, SlotsAccounted, [Next]_vars PROVE SlotsAccounted'
<1>1. CASE Tick \/ SettingsLoaded \/ UNCHANGED vars
  BY <1>1 DEF Tick, SettingsLoaded, vars, slotVars, SlotsAccounted
<1>2. ASSUME NEW r \in Request, Arrive(r) \/ Step(r) \/ Throws(r)
      PROVE  \E label : SlotKept(r, label) \/ SlotTaken(r, label) \/ SlotGiven(r, label)
  <2>1. CASE LoginStart(r)
    <3>1. SlotKept(r, "evaluate")
      BY <2>1 DEF LoginStart, SlotKept, Goto, Hashing, slotVars
    <3> QED BY <3>1
  <2>2. CASE LoginEvaluated(r)
    <3>1. SlotKept(r, "audit") \/ SlotTaken(r, "load") \/ SlotKept(r, "cap_audit")
      BY <2>2 DEF LoginEvaluated, try_acquire, SlotKept, SlotTaken, Goto, Hashing,
         slotVars
    <3> QED BY <3>1
  <2>3. CASE LoginLoad(r)
    <3>1. SlotKept(r, "verify")
      BY <2>3 DEF LoginLoad, SlotKept, Goto, Hashing, slotVars
    <3> QED BY <3>1
  <2>4. CASE LoginVerify(r)
    <3>1. SlotGiven(r, "audit") \/ SlotKept(r, "count")
      BY <2>4 DEF LoginVerify, SlotGiven, SlotKept, Goto, Hashing, slotVars
    <3> QED BY <3>1
  <2>5. CASE LoginCount(r)
    <3>1. SlotGiven(r, "audit") \/ SlotGiven(r, "done")
      BY <2>5 DEF LoginCount, SlotGiven, Reply, Goto, Hashing
    <3> QED BY <3>1
  <2>6. CASE LoginAudit(r)
    <3>1. SlotKept(r, "create") \/ SlotKept(r, "record")
      BY <2>6 DEF LoginAudit, SlotKept, Goto, Hashing, slotVars
    <3> QED BY <3>1
  <2>7. CASE LoginRecord(r) \/ LoginDeny(r) \/ LoginCreate(r) \/ CapacityAudit(r)
             \/ ChangeAudit(r)
    <3>1. SlotKept(r, "deny") \/ SlotKept(r, "done")
      BY <2>7 DEF LoginRecord, LoginDeny, LoginCreate, CapacityAudit, ChangeAudit, SlotKept,
         Reply, Goto, Hashing, slotVars
    <3> QED BY <3>1
  <2>8. CASE ChangeStart(r)
    <3>1. SlotTaken(r, "cp_lock") \/ SlotKept(r, "cap_audit")
      BY <2>8 DEF ChangeStart, try_acquire, SlotTaken, SlotKept, Goto, Hashing, slotVars
    <3> QED BY <3>1
  <2>9. CASE ChangeLock(r)
    <3>1. SlotKept(r, "cp_apply")
      BY <2>9 DEF ChangeLock, SlotKept, Goto, Hashing, slotVars
    <3> QED BY <3>1
  <2>10. CASE ChangeRefuse(r) \/ ChangeApply(r)
    <3>1. SlotGiven(r, "cp_audit") \/ SlotGiven(r, "done")
      BY <2>10 DEF ChangeRefuse, ChangeApply, SlotGiven, Reply, Goto, Hashing
    <3> QED BY <3>1
  <2>11. CASE Throws(r)
    <3>1. SlotGiven(r, "done")
      BY <2>11 DEF Throws, SlotGiven, Reply, Goto, Hashing
    <3> QED BY <3>1
  <2> QED BY <1>2, <2>1, <2>2, <2>3, <2>4, <2>5, <2>6, <2>7, <2>8, <2>9, <2>10,
             <2>11 DEF Arrive, Step
<1>3. ASSUME NEW r \in Request, Arrive(r) \/ Step(r) \/ Throws(r)
      PROVE  SlotsAccounted'
  BY <1>2, <1>3, SlotKeptOK, SlotTakenOK, SlotGivenOK
<1> QED BY <1>1, <1>3 DEF Next

----------------------------------------------------------------------------
\* Types

LEMMA GotoType ==
    ASSUME TypeOK, NEW r \in Request, NEW label \in Labels, Goto(r, label)
    PROVE  pc' \in [Request -> Labels]
BY DEF TypeOK, Goto

LEMMA ReplyType ==
    ASSUME TypeOK, NEW r \in Request,
           NEW result \in {"denied", "success", "capacity", "internal_error",
                           "refused", "changed"},
           Reply(r, result)
    PROVE  /\ pc' \in [Request -> Labels]
           /\ reply' \in [Request -> {"none", "denied", "success", "capacity",
                                      "internal_error", "refused", "changed"}]
           /\ loaded' \in [Request -> UserRow]
           /\ now' \in [Request -> 0 .. MaxTime]
<1>1. NoRow \in UserRow /\ 0 \in 0 .. MaxTime
  BY PolicyAssumption DEF NoRow, UserRow
<1>2. pc' \in [Request -> Labels]
  BY DEF TypeOK, Reply, Goto, Labels
<1>3. reply' \in [Request -> {"none", "denied", "success", "capacity",
                             "internal_error", "refused", "changed"}]
  BY DEF TypeOK, Reply
<1>4. loaded' \in [Request -> UserRow]
  BY <1>1 DEF TypeOK, Reply
<1>5. now' \in [Request -> 0 .. MaxTime]
  BY <1>1 DEF TypeOK, Reply
<1> QED BY <1>2, <1>3, <1>4, <1>5

LEMMA SlotType ==
    ASSUME TypeOK, NEW r \in Request, try_acquire(r) \/ release(r)
    PROVE  used' \in Nat /\ limit' = limit /\ acquired' \in [Request -> BOOLEAN]
<1>1. used \in Nat /\ acquired \in [Request -> BOOLEAN]
  BY DEF TypeOK
<1>2. used' \in {used, used + 1, used - 1} /\ (used' = used - 1 => used > 0)
  BY <1>1 DEF try_acquire, release
<1>3. \E b \in BOOLEAN : acquired' = [acquired EXCEPT ![r] = b]
  BY Zenon DEF try_acquire, release
<1>4. acquired' \in [Request -> BOOLEAN]
  BY <1>1, <1>3
<1>5. used' \in Nat
  BY <1>1, <1>2
<1> QED BY <1>4, <1>5 DEF try_acquire, release

LEMMA LoginType ==
    ASSUME TypeOK, NEW r \in Request,
           LoginStart(r) \/ LoginEvaluated(r) \/ LoginLoad(r) \/ LoginVerify(r)
    PROVE  TypeOK'
<1>1. CASE LoginStart(r)
  <2>1. pc' \in [Request -> Labels]
    BY <1>1, GotoType DEF LoginStart, Labels
  <2>2. row.pw \in Nat
    BY DEF TypeOK, UserRow
  <2>3. who' \in [Request -> {"known", "unknown"}] /\ guess' \in [Request -> Nat]
    BY <1>1, <2>2 DEF LoginStart, TypeOK
  <2>4. arrived' \in [Request -> Nat]
    BY <1>1, <2>2 DEF LoginStart, TypeOK
  <2> QED BY <1>1, <2>1, <2>3, <2>4 DEF LoginStart, TypeOK, acctVars, slotVars, histVars
<1>2. CASE LoginEvaluated(r)
  <2>1. pc' \in [Request -> Labels]
    BY <1>2, GotoType DEF LoginEvaluated, Labels
  <2>2. used' \in Nat /\ limit' = limit /\ acquired' \in [Request -> BOOLEAN]
    BY <1>2, SlotType DEF LoginEvaluated, slotVars, TypeOK
  <2>3. plan' \in [Request -> {"none", "refuse", "fail", "pass", "cp_all", "cp_keep"}]
    BY <1>2 DEF LoginEvaluated, TypeOK
  <2> QED BY <1>2, <2>1, <2>2, <2>3 DEF LoginEvaluated, TypeOK, acctVars, inVars, histVars
<1>3. CASE LoginLoad(r)
  <2>1. pc' \in [Request -> Labels]
    BY <1>3, GotoType DEF LoginLoad, Labels
  <2>2. NoRow \in UserRow /\ row \in UserRow
    BY DEF NoRow, UserRow, TypeOK
  <2>3. loaded' \in [Request -> UserRow]
    BY <1>3, <2>2 DEF LoginLoad, TypeOK
  <2> QED
    BY <1>3, <2>1, <2>3 DEF LoginLoad, TypeOK, acctVars, slotVars, inVars, histVars
<1>4. CASE LoginVerify(r)
  <2>1. pc' \in [Request -> Labels]
    BY <1>4, GotoType DEF LoginVerify, Labels
  <2>2. used' \in Nat /\ limit' = limit /\ acquired' \in [Request -> BOOLEAN]
    BY <1>4, SlotType DEF LoginVerify, slotVars, TypeOK
  <2>3. plan' \in [Request -> {"none", "refuse", "fail", "pass", "cp_all", "cp_keep"}]
    BY <1>4 DEF LoginVerify, Verdict, TypeOK
  <2> QED BY <1>4, <2>1, <2>2, <2>3 DEF LoginVerify, TypeOK, acctVars, inVars, histVars
<1> QED BY <1>1, <1>2, <1>3, <1>4

LEMMA LoginEndType ==
    ASSUME TypeOK, NEW r \in Request,
           LoginCount(r) \/ LoginAudit(r) \/ LoginRecord(r) \/ LoginDeny(r)
           \/ LoginCreate(r) \/ CapacityAudit(r)
    PROVE  TypeOK'
<1>1. CASE LoginCount(r)
  <2>1. pc' \in [Request -> Labels]
    BY <1>1, GotoType, ReplyType DEF LoginCount, Labels
  <2>2. /\ reply' \in [Request -> {"none", "denied", "success", "capacity",
                                   "internal_error", "refused", "changed"}]
        /\ loaded' \in [Request -> UserRow] /\ now' \in [Request -> 0 .. MaxTime]
    <3>1. CASE UNCHANGED <<reply, loaded, now>>
      BY <3>1 DEF TypeOK
    <3>2. CASE Reply(r, "internal_error")
      BY <3>2, ReplyType
    <3> QED BY <1>1, <3>1, <3>2 DEF LoginCount
  <2>3. used' \in Nat /\ limit' = limit /\ acquired' \in [Request -> BOOLEAN]
    BY <1>1, SlotType DEF LoginCount
  <2>4. row' \in UserRow
    <3>1. loaded[r].count \in Nat /\ NextCount(r) \in Nat
      BY DEF TypeOK, UserRow, NextCount
    <3> QED BY <1>1, <3>1 DEF LoginCount, TypeOK, UserRow
  <2> QED BY <1>1, <2>1, <2>2, <2>3, <2>4 DEF LoginCount, TypeOK, inVars, histVars
<1>2. CASE LoginAudit(r)
  <2>1. pc' \in [Request -> Labels]
    BY <1>2, GotoType DEF LoginAudit, Labels
  <2> QED BY <1>2, <2>1 DEF LoginAudit, TypeOK, acctVars, slotVars, inVars
<1>3. CASE LoginRecord(r)
  <2>1. /\ pc' \in [Request -> Labels]
        /\ reply' \in [Request -> {"none", "denied", "success", "capacity",
                                   "internal_error", "refused", "changed"}]
        /\ loaded' \in [Request -> UserRow] /\ now' \in [Request -> 0 .. MaxTime]
    <3>1. CASE Goto(r, "deny") /\ UNCHANGED <<reply, loaded, now>>
      BY <3>1, GotoType DEF TypeOK, Labels
    <3>2. CASE Reply(r, "internal_error")
      BY <3>2, ReplyType
    <3> QED BY <1>3, <3>1, <3>2 DEF LoginRecord
  <2> QED BY <1>3, <2>1 DEF LoginRecord, LoginDeny, TypeOK, acctVars, slotVars, inVars
<1>6. CASE LoginDeny(r)
  BY <1>6, ReplyType DEF LoginDeny, TypeOK, acctVars, slotVars, inVars, histVars
<1>4. CASE LoginCreate(r)
  <2>1. sessions' \in SUBSET [pw : Nat, login : Request]
    BY <1>4 DEF LoginCreate, TypeOK
  <2> QED BY <1>4, <2>1, ReplyType DEF LoginCreate, TypeOK, slotVars, inVars, histVars
<1>5. CASE CapacityAudit(r)
  BY <1>5, ReplyType DEF CapacityAudit, TypeOK, acctVars, slotVars, inVars
<1> QED BY <1>1, <1>2, <1>3, <1>4, <1>5, <1>6

LEMMA ChangeType ==
    ASSUME TypeOK, NEW r \in Request,
           ChangeStart(r) \/ ChangeLock(r) \/ ChangeRefuse(r) \/ ChangeApply(r)
           \/ ChangeAudit(r)
    PROVE  TypeOK'
<1>1. CASE ChangeStart(r)
  <2>1. pc' \in [Request -> Labels]
    BY <1>1, GotoType DEF ChangeStart, Labels
  <2>2. used' \in Nat /\ limit' = limit /\ acquired' \in [Request -> BOOLEAN]
    BY <1>1, SlotType DEF ChangeStart, slotVars, TypeOK
  <2>3. row.pw \in Nat
    BY DEF TypeOK, UserRow
  <2>4. /\ guess' \in [Request -> Nat] /\ now' \in [Request -> 0 .. MaxTime]
        /\ plan' \in [Request -> {"none", "refuse", "fail", "pass", "cp_all", "cp_keep"}]
    BY <1>1, <2>3 DEF ChangeStart, TypeOK
  <2> QED BY <1>1, <2>1, <2>2, <2>4 DEF ChangeStart, TypeOK, acctVars, histVars
<1>2. CASE ChangeLock(r)
  <2>1. pc' \in [Request -> Labels]
    BY <1>2, GotoType DEF ChangeLock, Labels
  <2> QED BY <1>2, <2>1 DEF ChangeLock, TypeOK, acctVars, slotVars, inVars, histVars
<1>3. CASE ChangeRefuse(r)
  <2>1. pc' \in [Request -> Labels]
    BY <1>3, GotoType DEF ChangeRefuse, Labels
  <2>2. used' \in Nat /\ limit' = limit /\ acquired' \in [Request -> BOOLEAN]
    BY <1>3, SlotType DEF ChangeRefuse
  <2> QED BY <1>3, <2>1, <2>2 DEF ChangeRefuse, TypeOK, acctVars, inVars, histVars
<1>4. CASE ChangeApply(r)
  <2>1. pc' \in [Request -> Labels]
    BY <1>4, GotoType, ReplyType DEF ChangeApply, Labels
  <2>2. /\ reply' \in [Request -> {"none", "denied", "success", "capacity",
                                   "internal_error", "refused", "changed"}]
        /\ loaded' \in [Request -> UserRow] /\ now' \in [Request -> 0 .. MaxTime]
    <3>1. CASE UNCHANGED <<reply, loaded, now>>
      BY <3>1 DEF TypeOK
    <3>2. CASE Reply(r, "internal_error")
      BY <3>2, ReplyType
    <3> QED BY <1>4, <3>1, <3>2 DEF ChangeApply
  <2>3. used' \in Nat /\ limit' = limit /\ acquired' \in [Request -> BOOLEAN]
    BY <1>4, SlotType DEF ChangeApply
  <2>4. row' \in UserRow
    <3>1. now[r] + ExpiryDays \in Nat /\ row.pw + 1 \in Nat
      BY PolicyAssumption DEF TypeOK, UserRow
    <3> QED BY <1>4, <3>1 DEF ChangeApply, TypeOK, UserRow
  <2>5. cutoff' \in Nat /\ sessions' \in SUBSET [pw : Nat, login : Request]
    BY <1>4 DEF ChangeApply, TypeOK, UserRow
  <2> QED BY <1>4, <2>1, <2>2, <2>3, <2>4, <2>5 DEF ChangeApply, TypeOK, inVars, histVars
<1>5. CASE ChangeAudit(r)
  BY <1>5, ReplyType DEF ChangeAudit, TypeOK, acctVars, slotVars, inVars
<1> QED BY <1>1, <1>2, <1>3, <1>4, <1>5

LEMMA TypeStep == ASSUME TypeOK, [Next]_vars PROVE TypeOK'
<1>1. CASE Tick
  BY <1>1, PolicyAssumption DEF Tick, TypeOK, acctVars, slotVars, inVars, histVars
<1>2. CASE SettingsLoaded
  BY <1>2 DEF SettingsLoaded, TypeOK, acctVars, inVars, histVars
<1>3. CASE UNCHANGED vars
  BY <1>3 DEF vars, TypeOK, acctVars, slotVars, inVars, histVars
<1>4. ASSUME NEW r \in Request, Arrive(r) \/ Step(r) PROVE TypeOK'
  BY <1>4, LoginType, LoginEndType, ChangeType DEF Arrive, Step
<1>5. ASSUME NEW r \in Request, Throws(r) PROVE TypeOK'
  BY <1>5, ReplyType, SlotType DEF Throws, TypeOK, acctVars, inVars, histVars
<1> QED BY <1>1, <1>2, <1>3, <1>4, <1>5 DEF Next

----------------------------------------------------------------------------
\* A change of password and its row lock

RowInv == OneChanger /\ ChangeSeesCurrent

\* A step that neither takes the lock nor writes the row under it.
LEMMA RowKept ==
    ASSUME TypeOK, RowInv, NEW r \in Request, NEW label \in Labels \ {"cp_apply"},
           pc' = [pc EXCEPT ![r] = label],
           \A q \in Request \ {r} : loaded'[q] = loaded[q],
           row' = row \/ \A q \in Request \ {r} : pc[q] # "cp_apply"
    PROVE  RowInv'
<1>1. \A q \in Request : pc'[q] = "cp_apply" => q # r /\ pc[q] = "cp_apply"
  BY DEF TypeOK
<1> QED BY <1>1 DEF RowInv, OneChanger, ChangeSeesCurrent

LEMMA ReplyRow ==
    ASSUME TypeOK, RowInv, NEW r \in Request, NEW result, Reply(r, result),
           row' = row \/ \A q \in Request \ {r} : pc[q] # "cp_apply"
    PROVE  RowInv'
<1>1. \A q \in Request \ {r} : loaded'[q] = loaded[q]
  BY DEF Reply, TypeOK
<1>2. pc' = [pc EXCEPT ![r] = "done"] /\ "done" \in Labels \ {"cp_apply"}
  BY DEF Reply, Goto, Labels
<1> QED BY <1>1, <1>2, RowKept

LEMMA RowStep ==
    ASSUME TypeOK, RowInv, [Next]_vars PROVE RowInv'
<1>1. CASE Tick \/ SettingsLoaded \/ UNCHANGED vars
  BY <1>1 DEF Tick, SettingsLoaded, vars, acctVars, RowInv, OneChanger,
     ChangeSeesCurrent
<1>2. ASSUME NEW r \in Request,
             LoginStart(r) \/ ChangeStart(r) \/ LoginEvaluated(r) \/ LoginVerify(r)
             \/ LoginAudit(r) \/ ChangeRefuse(r)
      PROVE  RowInv'
  <2>1. row' = row /\ loaded' = loaded
    BY <1>2 DEF LoginStart, ChangeStart, LoginEvaluated, LoginVerify, LoginAudit,
       ChangeRefuse, acctVars
  <2>2. \E label \in Labels \ {"cp_apply"} : pc' = [pc EXCEPT ![r] = label]
    BY <1>2 DEF LoginStart, ChangeStart, LoginEvaluated, LoginVerify, LoginAudit,
       ChangeRefuse, Goto, Labels
  <2> QED BY <2>1, <2>2, RowKept
<1>3. ASSUME NEW r \in Request, LoginLoad(r) PROVE RowInv'
  <2>1. \A q \in Request \ {r} : loaded'[q] = loaded[q]
    BY <1>3 DEF LoginLoad, TypeOK
  <2>2. row' = row /\ pc' = [pc EXCEPT ![r] = "verify"]
    BY <1>3 DEF LoginLoad, Goto, acctVars
  <2>3. "verify" \in Labels \ {"cp_apply"}
    BY DEF Labels
  <2> QED BY <2>1, <2>2, <2>3, RowKept
<1>4. ASSUME NEW r \in Request, LoginCount(r) \/ ChangeApply(r) PROVE RowInv'
  <2>1. \A q \in Request \ {r} : pc[q] # "cp_apply"
    BY <1>4 DEF LoginCount, ChangeApply, Locked, RowInv, OneChanger
  <2>2. CASE Reply(r, "internal_error")
    BY <2>1, <2>2, ReplyRow
  <2>3. CASE /\ \E label \in {"audit", "cp_audit"} : Goto(r, label)
             /\ UNCHANGED <<reply, loaded, now>>
    BY <2>1, <2>3, RowKept DEF Goto, Labels
  <2> QED BY <1>4, <2>2, <2>3 DEF LoginCount, ChangeApply
<1>5. ASSUME NEW r \in Request,
             LoginRecord(r) \/ LoginDeny(r) \/ LoginCreate(r) \/ CapacityAudit(r)
             \/ ChangeAudit(r) \/ Throws(r)
      PROVE  RowInv'
  <2>1. CASE row' = row /\ \E result : Reply(r, result)
    BY <2>1, ReplyRow
  <2>2. CASE row' = row /\ loaded' = loaded /\ Goto(r, "deny")
    <3>1. "deny" \in Labels \ {"cp_apply"}
      BY DEF Labels
    <3> QED BY <2>2, <3>1, RowKept DEF Goto
  <2> QED BY <1>5, <2>1, <2>2 DEF LoginRecord, LoginDeny, LoginCreate, CapacityAudit,
     ChangeAudit, Throws, acctVars
<1>6. ASSUME NEW r \in Request, ChangeLock(r) PROVE RowInv'
  <2>1. \A q \in Request : pc[q] # "cp_apply"
    BY <1>6 DEF ChangeLock, Locked
  <2>2. /\ \A q \in Request : pc'[q] = "cp_apply" => q = r
        /\ loaded'[r] = row /\ row' = row
    BY <1>6, <2>1 DEF ChangeLock, Goto, TypeOK, acctVars
  <2> QED BY <2>2 DEF RowInv, OneChanger, ChangeSeesCurrent
<1> QED BY <1>1, <1>2, <1>3, <1>4, <1>5, <1>6 DEF Next, Arrive, Step

----------------------------------------------------------------------------
\* What a request has been judged to be, at each of its labels

PlanInv ==
    \A r \in Request :
        /\ pc[r] \in {"idle", "evaluate", "load", "verify"} => plan[r] = "none"
        /\ pc[r] = "count" => plan[r] \in {"fail", "pass"}
        /\ pc[r] = "audit" => plan[r] \in {"refuse", "fail", "pass"}
        /\ pc[r] \in {"record", "deny"} => plan[r] \in {"refuse", "fail"}
        /\ pc[r] = "create" => plan[r] = "pass"
        /\ pc[r] \in {"cp_lock", "cp_apply"} => plan[r] \in {"cp_all", "cp_keep"}

LEMMA PlanStep ==
    ASSUME TypeOK, PlanInv, [Next]_vars PROVE PlanInv'
<1>1. CASE Tick \/ SettingsLoaded \/ UNCHANGED vars
  BY <1>1 DEF Tick, SettingsLoaded, vars, PlanInv
<1>2. ASSUME NEW r \in Request, LoginStart(r) \/ LoginEvaluated(r) \/ LoginLoad(r)
      PROVE  PlanInv'
  BY <1>2 DEF LoginStart, LoginEvaluated, LoginLoad, Goto, TypeOK, PlanInv
<1>3. ASSUME NEW r \in Request, LoginVerify(r) PROVE PlanInv'
  BY <1>3 DEF LoginVerify, Verdict, Goto, TypeOK, PlanInv
<1>4. ASSUME NEW r \in Request, LoginCount(r) \/ LoginAudit(r) PROVE PlanInv'
  BY <1>4 DEF LoginCount, LoginAudit, Goto, Reply, TypeOK, PlanInv
<1>5. ASSUME NEW r \in Request,
             LoginRecord(r) \/ LoginDeny(r) \/ LoginCreate(r) \/ CapacityAudit(r)
             \/ ChangeAudit(r) \/ Throws(r)
      PROVE  PlanInv'
  BY <1>5 DEF LoginRecord, LoginDeny, LoginCreate, CapacityAudit, ChangeAudit, Throws, Goto,
     Reply, TypeOK, PlanInv
<1>6. ASSUME NEW r \in Request, ChangeStart(r) \/ ChangeLock(r) PROVE PlanInv'
  BY <1>6 DEF ChangeStart, ChangeLock, Goto, TypeOK, PlanInv
<1>7. ASSUME NEW r \in Request, ChangeRefuse(r) \/ ChangeApply(r) PROVE PlanInv'
  BY <1>7 DEF ChangeRefuse, ChangeApply, Goto, Reply, TypeOK, PlanInv
<1> QED BY <1>1, <1>2, <1>3, <1>4, <1>5, <1>6, <1>7 DEF Next, Arrive, Step

\* A step of one request leaves the locals of every other alone.
LEMMA OthersKept ==
    ASSUME TypeOK, NEW r \in Request, Arrive(r) \/ Step(r) \/ Throws(r),
           NEW q \in Request, q # r
    PROVE  /\ pc'[q] = pc[q] /\ plan'[q] = plan[q] /\ loaded'[q] = loaded[q]
           /\ guess'[q] = guess[q] /\ arrived'[q] = arrived[q] /\ reply'[q] = reply[q]
           /\ (q \in audited' <=> q \in audited) /\ (q \in recorded' <=> q \in recorded)
<1>1. CASE Arrive(r)
  BY <1>1 DEF Arrive, LoginStart, ChangeStart, Goto, TypeOK, histVars
<1>2. CASE LoginEvaluated(r) \/ LoginLoad(r) \/ LoginVerify(r) \/ LoginCount(r)
  BY <1>2 DEF LoginEvaluated, LoginLoad, LoginVerify, LoginCount, Goto, Reply, TypeOK,
     inVars, histVars
<1>3. CASE LoginAudit(r) \/ LoginRecord(r) \/ LoginDeny(r) \/ LoginCreate(r)
           \/ CapacityAudit(r)
  BY <1>3 DEF LoginAudit, LoginRecord, LoginDeny, LoginCreate, CapacityAudit, Goto, Reply, TypeOK,
     inVars, histVars
<1>4. CASE ChangeLock(r) \/ ChangeRefuse(r) \/ ChangeApply(r) \/ ChangeAudit(r)
  BY <1>4 DEF ChangeLock, ChangeRefuse, ChangeApply, ChangeAudit, Goto, Reply, TypeOK,
     inVars, histVars
<1>5. CASE Throws(r)
  BY <1>5 DEF Throws, Goto, Reply, TypeOK, inVars, histVars
<1> QED BY <1>1, <1>2, <1>3, <1>4, <1>5 DEF Step

----------------------------------------------------------------------------
\* The failed count

\* Requests judged to have failed stay so: the bound of the count only grows.
LEMMA RejectedGrows ==
    ASSUME TypeOK, PlanInv, [Next]_vars
    PROVE  /\ base' = base /\ Rejected \subseteq Rejected'
           /\ IsFiniteSet(Rejected) /\ IsFiniteSet(Rejected')
           /\ Cardinality(Rejected) \in Nat /\ Cardinality(Rejected') \in Nat
           /\ Cardinality(Rejected) <= Cardinality(Rejected')
<1>1. base' = base
  BY DEF Next, Tick, SettingsLoaded, Arrive, Step, Throws, LoginStart, ChangeStart,
     LoginEvaluated, LoginLoad, LoginVerify, LoginCount, LoginAudit, LoginRecord, LoginDeny,
     LoginCreate, CapacityAudit, ChangeLock, ChangeRefuse, ChangeApply, ChangeAudit,
     histVars, vars
<1>2. Rejected \subseteq Rejected'
  <2> SUFFICES ASSUME NEW q \in Request, plan[q] = "fail" PROVE plan'[q] = "fail"
    BY DEF Rejected
  <2>1. CASE plan' = plan
    BY <2>1
  <2>2. ASSUME NEW r \in Request, NEW p, plan' = [plan EXCEPT ![r] = p], plan[r] # "fail"
        PROVE  plan'[q] = "fail"
    BY <2>2 DEF TypeOK
  <2>3. ASSUME NEW r \in Request, LoginEvaluated(r) PROVE plan'[q] = "fail"
    BY <2>1, <2>2, <2>3 DEF LoginEvaluated, PlanInv
  <2>4. ASSUME NEW r \in Request, LoginVerify(r) PROVE plan'[q] = "fail"
    BY <2>1, <2>2, <2>4 DEF LoginVerify, PlanInv
  <2>5. ASSUME NEW r \in Request, ChangeStart(r) \/ ChangeRefuse(r) PROVE plan'[q] = "fail"
    BY <2>1, <2>2, <2>5 DEF ChangeStart, ChangeRefuse, PlanInv
  <2>6. CASE UNCHANGED vars
    BY <2>1, <2>6 DEF vars
  <2> QED BY <2>1, <2>3, <2>4, <2>5, <2>6 DEF Next, Tick, SettingsLoaded, Arrive, Step,
     Throws, LoginStart, LoginLoad, LoginCount, LoginAudit, LoginRecord, LoginDeny, LoginCreate,
     CapacityAudit, ChangeLock, ChangeApply, ChangeAudit
<1>3. IsFiniteSet(Rejected) /\ IsFiniteSet(Rejected')
  <2>1. Rejected \subseteq Request /\ Rejected' \subseteq Request
    BY DEF Rejected
  <2> QED BY <2>1, RequestAssumption, FS_Subset
<1> QED BY <1>1, <1>2, <1>3, FS_Subset, FS_CardinalityType

\* A login that has read the row, or is about to write what it made of it.
CountInv ==
    /\ CountExplained
    /\ \A r \in Request :
        /\ pc[r] = "verify" => loaded[r].count <= base + Cardinality(Rejected)
        /\ pc[r] = "count" /\ plan[r] = "fail" =>
                loaded[r].count < base + Cardinality(Rejected)

LEMMA CountStep ==
    ASSUME TypeOK, PlanInv, CountInv, [Next]_vars PROVE CountInv'
<1> DEFINE B == base + Cardinality(Rejected)
           Good(q) == /\ pc[q] = "verify" => loaded[q].count <= B
                      /\ pc[q] = "count" /\ plan[q] = "fail" => loaded[q].count < B
<1>0. B \in Nat /\ B' \in Nat /\ B <= B'
  BY RejectedGrows DEF TypeOK
<1>1. /\ row.count \in Nat /\ row.count <= B
      /\ \A q \in Request : loaded[q].count \in Nat /\ Good(q)
  BY DEF CountInv, CountExplained, TypeOK, UserRow
<1>2. row'.count \in Nat /\ \A q \in Request : loaded'[q].count \in Nat
  BY TypeStep DEF TypeOK, UserRow
<1>3. SUFFICES row'.count <= B' /\ \A q \in Request : Good(q)'
  BY DEF CountInv, CountExplained
<1>4. ASSUME NEW r \in Request, LoginVerify(r), plan'[r] = "fail", loaded[r] # NoRow
      PROVE  B < B'
  <2>1. r \notin Rejected /\ r \in Rejected'
    BY <1>4 DEF LoginVerify, Rejected, PlanInv, TypeOK
  <2>2. Cardinality(Rejected \cup {r}) = Cardinality(Rejected) + 1
    BY <2>1, RejectedGrows, FS_AddElement
  <2>3. Rejected \cup {r} \subseteq Rejected'
    BY <2>1, RejectedGrows
  <2>4. Cardinality(Rejected \cup {r}) <= Cardinality(Rejected')
    BY <2>3, RejectedGrows, FS_Subset
  <2> QED BY <2>2, <2>4, RejectedGrows DEF TypeOK
<1> HIDE DEF B
<1>5. CASE Tick \/ SettingsLoaded \/ UNCHANGED vars
  BY <1>0, <1>1, <1>2, <1>5 DEF Tick, SettingsLoaded, vars, acctVars
<1>6. ASSUME NEW r \in Request, Arrive(r) \/ Step(r) \/ Throws(r)
      PROVE  row'.count <= B' /\ \A q \in Request : Good(q)'
  <2>1. \A q \in Request \ {r} : Good(q)'
    BY <1>0, <1>1, <1>2, <1>6, OthersKept
  <2>2. row'.count <= B'
    <3>1. CASE LoginCount(r)
      <4>1. row'.count = NextCount(r) /\ plan[r] \in {"fail", "pass"}
        BY <3>1 DEF LoginCount, PlanInv, TypeOK, UserRow
      <4>2. NextCount(r) <= B
        BY <1>0, <1>1, <3>1, <4>1 DEF LoginCount, NextCount
      <4> QED BY <1>0, <1>2, <4>1, <4>2
    <3>2. CASE ChangeApply(r)
      BY <1>0, <3>2 DEF ChangeApply, TypeOK, UserRow
    <3>3. CASE row' = row
      BY <1>0, <1>1, <3>3
    <3> QED BY <1>6, <3>1, <3>2, <3>3 DEF Arrive, Step, Throws, LoginStart, ChangeStart,
       LoginEvaluated, LoginLoad, LoginVerify, LoginAudit, LoginRecord, LoginDeny, LoginCreate,
       CapacityAudit, ChangeLock, ChangeRefuse, ChangeAudit, acctVars
  <2>3. Good(r)'
    <3>1. CASE LoginLoad(r)
      BY <1>0, <1>1, <3>1 DEF LoginLoad, Goto, TypeOK, NoRow
    <3>2. CASE LoginVerify(r)
      <4>1. loaded'[r] = loaded[r] /\ loaded[r].count <= B /\ pc'[r] # "verify"
        BY <1>1, <3>2 DEF LoginVerify, Goto, TypeOK
      <4>2. pc'[r] = "count" => loaded[r] # NoRow
        BY <3>2 DEF LoginVerify, Goto, TypeOK
      <4> QED BY <1>0, <1>1, <1>4, <3>2, <4>1, <4>2
    <3>3. CASE pc'[r] \notin {"verify", "count"}
      BY <3>3
    <3> QED BY <1>6, <3>1, <3>2, <3>3 DEF Arrive, Step, Throws, LoginStart, ChangeStart,
       LoginEvaluated, LoginCount, LoginAudit, LoginRecord, LoginDeny, LoginCreate, CapacityAudit,
       ChangeLock, ChangeRefuse, ChangeApply, ChangeAudit, Goto, Reply, TypeOK
  <2> QED BY <2>1, <2>2, <2>3
<1> QED BY <1>5, <1>6 DEF Next

----------------------------------------------------------------------------
\* Verdicts, their events and the rate limiter

AuditInv ==
    /\ VerdictsAudited
    /\ \A r \in Request :
        /\ pc[r] # "done" => reply[r] = "none"
        /\ pc[r] \in {"record", "create"} => r \in audited
        /\ pc[r] = "deny" => r \in recorded
        /\ r \in recorded => pc[r] \in {"deny", "done"}

LEMMA AuditStep ==
    ASSUME TypeOK, PlanInv, AuditInv, [Next]_vars PROVE AuditInv'
<1> DEFINE Good(q) ==
        /\ reply[q] \in {"success", "denied", "capacity", "refused", "changed"} =>
                q \in audited
        /\ reply[q] = "denied" => q \in recorded
        /\ q \in recorded => q \in audited /\ plan[q] \in {"refuse", "fail"}
        /\ pc[q] # "done" => reply[q] = "none"
        /\ pc[q] \in {"record", "create"} => q \in audited
        /\ pc[q] = "deny" => q \in recorded
        /\ q \in recorded => pc[q] \in {"deny", "done"}
<1>1. \A q \in Request : Good(q)
  BY DEF AuditInv, VerdictsAudited
<1>2. SUFFICES \A q \in Request : Good(q)'
  BY DEF AuditInv, VerdictsAudited
<1>3. CASE Tick \/ SettingsLoaded \/ UNCHANGED vars
  BY <1>1, <1>3 DEF Tick, SettingsLoaded, vars, histVars
<1>4. ASSUME NEW r \in Request, Arrive(r) \/ Step(r) \/ Throws(r) PROVE Good(r)'
  <2>1. CASE Arrive(r)
    BY <1>1, <2>1 DEF Arrive, LoginStart, ChangeStart, Goto, TypeOK, histVars
  <2>2. CASE LoginEvaluated(r) \/ LoginLoad(r) \/ LoginVerify(r) \/ LoginCount(r)
    BY <1>1, <2>2 DEF LoginEvaluated, LoginLoad, LoginVerify, LoginCount, Goto, Reply,
       TypeOK, histVars
  <2>3. CASE LoginAudit(r)
    BY <1>1, <2>3 DEF LoginAudit, Goto, TypeOK
  <2>4. CASE LoginRecord(r) \/ LoginDeny(r)
    BY <1>1, <2>4 DEF LoginRecord, LoginDeny, PlanInv, Goto, Reply, TypeOK, histVars
  <2>7. CASE LoginCreate(r) \/ CapacityAudit(r)
    BY <1>1, <2>7 DEF LoginCreate, CapacityAudit, Goto, Reply, TypeOK, histVars
  <2>5. CASE ChangeLock(r) \/ ChangeRefuse(r) \/ ChangeApply(r)
    BY <1>1, <2>5 DEF ChangeLock, ChangeRefuse, ChangeApply, Goto, Reply, TypeOK, histVars
  <2>6. CASE ChangeAudit(r) \/ Throws(r)
    BY <1>1, <2>6 DEF ChangeAudit, Throws, Goto, Reply, TypeOK, histVars
  <2> QED BY <1>4, <2>1, <2>2, <2>3, <2>4, <2>5, <2>6, <2>7 DEF Step
<1>5. ASSUME NEW r \in Request, Arrive(r) \/ Step(r) \/ Throws(r),
             NEW q \in Request, q # r
      PROVE  Good(q)'
  BY <1>1, <1>5, OthersKept
<1> QED BY <1>3, <1>4, <1>5 DEF Next

----------------------------------------------------------------------------
\* Sessions and the password they rest on

\* Passwords are numbered as they are installed, so a password that was in
\* force when a login arrived is never above the one in force now.
SessionInv ==
    /\ SessionsOnCurrentPassword
    /\ \A s \in sessions : pc[s.login] = "done"
    /\ \A r \in Request :
        /\ arrived[r] <= row.pw
        /\ pc[r] = "verify" /\ loaded[r] # NoRow => arrived[r] <= loaded[r].pw
        /\ pc[r] \in {"count", "audit", "create"} /\ plan[r] = "pass" =>
                arrived[r] <= guess[r]

LEMMA SessionStep ==
    ASSUME TypeOK, PlanInv, SessionInv, [Next]_vars PROVE SessionInv'
<1> DEFINE Good(q) ==
        /\ arrived[q] <= row.pw
        /\ pc[q] = "verify" /\ loaded[q] # NoRow => arrived[q] <= loaded[q].pw
        /\ pc[q] \in {"count", "audit", "create"} /\ plan[q] = "pass" =>
                arrived[q] <= guess[q]
<1>1. /\ \A q \in Request : Good(q)
      /\ \A s \in sessions : s.pw >= arrived[s.login] /\ pc[s.login] = "done"
      /\ \A s \in sessions : s.login \in Request
  BY DEF SessionInv, SessionsOnCurrentPassword, TypeOK
<1>2. SUFFICES /\ \A q \in Request : Good(q)'
               /\ \A s \in sessions' : s.pw >= arrived'[s.login] /\ pc'[s.login] = "done"
  BY DEF SessionInv, SessionsOnCurrentPassword
<1>3. row.pw \in Nat /\ row'.pw \in Nat /\ \A q \in Request : arrived'[q] \in Nat
  BY TypeStep DEF TypeOK, UserRow
<1>4. CASE Tick \/ SettingsLoaded \/ UNCHANGED vars
  BY <1>1, <1>4 DEF Tick, SettingsLoaded, vars, acctVars, inVars
<1>5. ASSUME NEW r \in Request, Arrive(r) \/ Step(r) \/ Throws(r)
      PROVE  /\ \A q \in Request : Good(q)'
             /\ \A s \in sessions' : s.pw >= arrived'[s.login] /\ pc'[s.login] = "done"
  <2>1. row.pw <= row'.pw
    <3>1. CASE LoginCount(r)
      BY <1>3, <3>1 DEF LoginCount, TypeOK, UserRow
    <3>2. CASE ChangeApply(r)
      BY <1>3, <3>2 DEF ChangeApply, TypeOK, UserRow
    <3>3. CASE row' = row
      BY <1>3, <3>3
    <3> QED BY <1>5, <3>1, <3>2, <3>3 DEF Arrive, Step, Throws, LoginStart, ChangeStart,
       LoginEvaluated, LoginLoad, LoginVerify, LoginAudit, LoginRecord, LoginDeny, LoginCreate,
       CapacityAudit, ChangeLock, ChangeRefuse, ChangeAudit, acctVars
  <2>2. \A q \in Request \ {r} : Good(q)'
    <3> SUFFICES ASSUME NEW q \in Request \ {r} PROVE Good(q)'
      OBVIOUS
    <3>1. arrived'[q] <= row'.pw
      BY <1>1, <1>3, <1>5, <2>1, OthersKept
    <3> QED BY <1>1, <1>5, <3>1, OthersKept
  <2>3. Good(r)'
    <3>1. arrived'[r] <= row'.pw
      <4>1. CASE LoginStart(r)
        BY <1>3, <4>1 DEF LoginStart, acctVars, TypeOK
      <4>2. CASE arrived' = arrived
        BY <1>1, <1>3, <2>1, <4>2
      <4> QED BY <1>5, <4>1, <4>2 DEF Arrive, Step, Throws, ChangeStart, LoginEvaluated,
         LoginLoad, LoginVerify, LoginCount, LoginAudit, LoginRecord, LoginDeny, LoginCreate,
         CapacityAudit, ChangeLock, ChangeRefuse, ChangeApply, ChangeAudit, inVars
    <3>2. CASE LoginLoad(r)
      BY <1>1, <3>1, <3>2 DEF LoginLoad, Goto, TypeOK, inVars, acctVars
    <3>3. CASE LoginVerify(r)
      BY <1>1, <3>1, <3>3 DEF LoginVerify, Verdict, Goto, TypeOK, inVars, UserRow
    <3>4. CASE LoginCount(r) \/ LoginAudit(r)
      BY <1>1, <3>1, <3>4 DEF LoginCount, LoginAudit, Goto, Reply, TypeOK, inVars
    <3>5. CASE LoginEvaluated(r)
      BY <1>1, <3>1, <3>5 DEF LoginEvaluated, Goto, PlanInv, TypeOK, inVars
    <3>6. CASE pc'[r] \notin {"verify", "count", "audit", "create"}
      BY <3>1, <3>6
    <3> QED BY <1>5, <3>2, <3>3, <3>4, <3>5, <3>6 DEF Arrive, Step, Throws, LoginStart,
       ChangeStart, LoginRecord, LoginDeny, LoginCreate, CapacityAudit, ChangeLock, ChangeRefuse,
       ChangeApply, ChangeAudit, Goto, Reply, TypeOK
  <2>4. ASSUME NEW s \in sessions', s.login # r, s \in sessions
        PROVE  s.pw >= arrived'[s.login] /\ pc'[s.login] = "done"
    BY <1>1, <1>5, <2>4, OthersKept
  <2>5. ASSUME NEW s \in sessions, s.login = r PROVE FALSE
    BY <1>1, <1>5, <2>5 DEF Arrive, Step, Throws, LoginStart, ChangeStart, LoginEvaluated,
       LoginLoad, LoginVerify, LoginCount, LoginAudit, LoginRecord, LoginDeny, LoginCreate,
       CapacityAudit, ChangeLock, ChangeRefuse, ChangeApply, ChangeAudit
  <2>6. CASE LoginCreate(r)
    <3>1. /\ sessions' = sessions \cup {[pw |-> guess[r], login |-> r]}
          /\ pc'[r] = "done" /\ arrived' = arrived /\ arrived[r] <= guess[r]
      BY <1>1, <2>6 DEF LoginCreate, Goto, Reply, PlanInv, TypeOK, inVars
    <3>2. guess[r] \in Nat /\ arrived[r] \in Nat
      BY DEF TypeOK
    <3> QED BY <2>2, <2>3, <2>4, <2>5, <3>1, <3>2
  <2>7. CASE sessions' \subseteq sessions
    BY <2>2, <2>3, <2>4, <2>5, <2>7
  <2> QED BY <1>5, <2>6, <2>7 DEF Arrive, Step, Throws, LoginStart, ChangeStart,
     LoginEvaluated, LoginLoad, LoginVerify, LoginCount, LoginAudit, LoginRecord, LoginDeny,
     CapacityAudit, ChangeLock, ChangeRefuse, ChangeApply, ChangeAudit, acctVars
<1> QED BY <1>4, <1>5 DEF Next

----------------------------------------------------------------------------
\* The theorems

Inv ==
    /\ TypeOK /\ SlotsAccounted /\ RowInv
    /\ PlanInv /\ CountInv /\ AuditInv /\ SessionInv

LEMMA InvInit == Init => Inv
<1> SUFFICES ASSUME Init PROVE Inv
  OBVIOUS
<1>1. TypeOK
  <2>1. base \in Nat /\ row \in UserRow
    BY PolicyAssumption DEF Init, UserRow
  <2>2. NoRow \in UserRow /\ 0 \in 0 .. MaxTime
    BY PolicyAssumption DEF NoRow, UserRow
  <2> QED BY <2>1, <2>2, LimitsAssumption DEF Init, TypeOK, Labels
<1>2. SlotsAccounted
  <2>1. {r \in Request : pc[r] \in Hashing} = {}
    BY DEF Init, Hashing
  <2> QED BY <2>1, FS_EmptySet DEF Init, SlotsAccounted, Hashing
<1>3. RowInv /\ PlanInv
  BY DEF Init, RowInv, OneChanger, ChangeSeesCurrent, PlanInv
<1>4. CountInv
  <2>1. Rejected = {}
    BY DEF Init, Rejected
  <2>2. row.count = base /\ base \in Nat
    BY PolicyAssumption DEF Init
  <2> QED BY <2>1, <2>2, FS_EmptySet DEF Init, CountInv, CountExplained
<1>5. AuditInv
  BY DEF Init, AuditInv, VerdictsAudited
<1>6. SessionInv
  <2>1. row.pw = 1
    BY DEF Init
  <2> QED BY <2>1 DEF Init, SessionInv, SessionsOnCurrentPassword
<1> QED BY <1>1, <1>2, <1>3, <1>4, <1>5, <1>6 DEF Inv

\* Types, slot accounting and the row lock, for any number of requests.
THEOREM PipelineInvariant == Spec => []Inv
<1>1. Inv /\ [Next]_vars => Inv'
  BY TypeStep, SlotsStep, RowStep, PlanStep, CountStep, AuditStep, SessionStep DEF Inv
<1> QED BY InvInit, <1>1, PTL DEF Spec

\* hash_slots.used counts the requests at a password hash, on every path out.
THEOREM SlotsAreAccounted == Spec => []SlotsAccounted
<1>1. Inv => SlotsAccounted
  BY DEF Inv
<1> QED BY <1>1, PipelineInvariant, PTL

\* A change of password sees the row it writes.
THEOREM ChangesSeeCurrent == Spec => []ChangeSeesCurrent
<1>1. Inv => ChangeSeesCurrent
  BY DEF Inv, RowInv
<1> QED BY <1>1, PipelineInvariant, PTL

\* The failed count never shows more failures than were judged, although every
\* login writes what it computed from the row it had read.
THEOREM CountIsExplained == Spec => []CountExplained
<1>1. Inv => CountExplained
  BY DEF Inv, CountInv
<1> QED BY <1>1, PipelineInvariant, PTL

\* No verdict leaves before its event is written, and "denied" not before the rate
\* limiter was told, which is told of no other logins than those judged to fail.
THEOREM VerdictsAreAudited == Spec => []VerdictsAudited
<1>1. Inv => VerdictsAudited
  BY DEF Inv, AuditInv
<1> QED BY <1>1, PipelineInvariant, PTL

\* Changes of password while a login is under way notwithstanding, its session
\* rests on no password older than the one in force when it arrived.
THEOREM SessionsRestOnCurrentPassword == Spec => []SessionsOnCurrentPassword
<1>1. Inv => SessionsOnCurrentPassword
  BY DEF Inv, SessionInv
<1> QED BY <1>1, PipelineInvariant, PTL

\* No step changes the password of an account that is locked at that moment.
THEOREM LockedAccountsKeepPassword == Spec => LockedKeepsPassword
<1>1. Inv /\ [Next]_vars => [row'.pw # row.pw => row.count < MaxFailed]_vars
  <2> SUFFICES ASSUME Inv, Next, row'.pw # row.pw PROVE row.count < MaxFailed
    OBVIOUS
  <2>1. row \in UserRow
    BY DEF Inv, TypeOK
  <2>2. row' # row
    OBVIOUS
  <2>3. ASSUME NEW r \in Request, LoginCount(r) PROVE FALSE
    BY <2>1, <2>3 DEF LoginCount, UserRow
  <2>4. ASSUME NEW r \in Request, ChangeApply(r) PROVE row.count < MaxFailed
    <3>1. loaded[r] = row /\ loaded[r].count < MaxFailed
      BY <2>1, <2>4, PolicyAssumption
         DEF ChangeApply, MayChange, Verdict, Inv, RowInv, ChangeSeesCurrent, UserRow
    <3> QED BY <3>1
  <2>5. \E r \in Request : LoginCount(r) \/ ChangeApply(r)
    BY <2>2 DEF Next, Tick, SettingsLoaded, Arrive, Step, Throws, LoginStart,
       ChangeStart, LoginEvaluated, LoginLoad, LoginVerify, LoginAudit, LoginRecord, LoginDeny,
       LoginCreate, CapacityAudit, ChangeLock, ChangeRefuse, ChangeAudit, acctVars
  <2> QED BY <2>3, <2>4, <2>5
<1> QED BY <1>1, PipelineInvariant, PTL DEF Spec, LockedKeepsPassword
============================================================================
