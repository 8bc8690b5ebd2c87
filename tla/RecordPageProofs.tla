------------------------- MODULE RecordPageProofs -------------------------
(***************************************************************************)
(* Proofs about RecordPage and the routes under it, for any rows, fields,  *)
(* values and bounds.                                                      *)
(*                                                                         *)
(* The invariant of the routes is one of each request by itself (OwnInv):  *)
(* at each place of its handler, what it has read, merged and logged.      *)
(* A step of another handler only adds to the log and touches no row but   *)
(* its own, where its writes count as overlapping (Overlapped).  So each   *)
(* handler step has a lemma about its own request, and HandlerKeeps shows  *)
(* the others from it.  The page adds that its undo stack leads back from  *)
(* the draft to what was loaded, entry by entry.                           *)
(***************************************************************************)
EXTENDS RecordPage, WellFoundedInduction, SequenceTheorems, TLAPS

----------------------------------------------------------------------------
\* Types

Cell     == [val : Value, by : 0 .. MaxRequests]
Rec      == [Field -> Cell]
MaybeRec == Rec \cup {<< >>}

Op  == {"create", "fetch", "update", "delete"}
Pc  == {"insert", "locate", "read", "write", "audit", "drop", "undo",
        "remove", "reread", "rewrite", "note", "reply", "end"}
Ans == {"none", "ok", "missing", "failed", "lost"}

Request ==
    [op : Op, row : Row \cup {NoRow}, body : Body, pc : Pc, ans : Ans,
     rec : MaybeRec, before : MaybeRec, merged : MaybeRec,
     known : SUBSET Nat, fresh : SUBSET Nat]

RoutesType ==
    /\ ids \subseteq Row /\ DOMAIN rows \subseteq ids
    /\ rows \in [DOMAIN rows -> Rec]
    /\ trail \subseteq {"create", "update", "delete", "compensate"} \X Row
    /\ req \in Seq(Request) /\ Len(req) <= MaxRequests

\* Request q becomes y, and the others stay.
Moved(q, y) ==
    /\ y \in Request /\ req' \in Seq(Request) /\ Len(req') = Len(req)
    /\ DOMAIN req' = DOMAIN req /\ req'[q] = y
    /\ \A p \in DOMAIN req : p # q => req'[p] = req[p]

LEMMA OneMoves ==
    ASSUME req \in Seq(Request), NEW q \in DOMAIN req, NEW y \in Request,
           req' = [req EXCEPT ![q] = y]
    PROVE  Moved(q, y)
<1>1. /\ req' \in Seq(Request) /\ Len(req') = Len(req)
      /\ \A i \in 1 .. Len(req) : req'[i] = IF i = q THEN y ELSE req[i]
  BY ExceptSeq
<1>2. DOMAIN req = 1 .. Len(req) /\ DOMAIN req' = 1 .. Len(req')
  BY <1>1, LenProperties
<1> HIDE DEF Request
<1> QED BY <1>1, <1>2 DEF Moved

LEMMA GoMoves ==
    ASSUME req \in Seq(Request), NEW q \in DOMAIN req, NEW pc \in Pc, Go(q, pc)
    PROVE  Moved(q, [req[q] EXCEPT !.pc = pc])
<1>1. req[q] \in Request
  BY ElementOfSeq, LenProperties
<1>2. [req[q] EXCEPT !.pc = pc] \in Request
  BY <1>1 DEF Request
<1>3. req' = [req EXCEPT ![q] = [req[q] EXCEPT !.pc = pc]]
  BY DEF Go
<1> QED BY <1>2, <1>3, OneMoves

LEMMA AnswerMoves ==
    ASSUME req \in Seq(Request), NEW q \in DOMAIN req, NEW ans \in Ans, Answer(q, ans)
    PROVE  Moved(q, [req[q] EXCEPT !.pc = "end", !.ans = ans])
<1>1. req[q] \in Request
  BY ElementOfSeq, LenProperties
<1>2. [req[q] EXCEPT !.pc = "end", !.ans = ans] \in Request
  BY <1>1 DEF Request, Pc
<1>3. req' = [req EXCEPT ![q] = [req[q] EXCEPT !.pc = "end", !.ans = ans]]
  BY <1>1 DEF Answer, Request
<1> QED BY <1>2, <1>3, OneMoves

LEMMA AnswerRowMoves ==
    ASSUME req \in Seq(Request), NEW q \in DOMAIN req, NEW rec \in Rec, AnswerRow(q, rec)
    PROVE  Moved(q, [req[q] EXCEPT !.pc = "end", !.ans = "ok", !.rec = rec])
<1>1. req[q] \in Request /\ rec \in MaybeRec
  BY ElementOfSeq, LenProperties DEF MaybeRec
<1>2. [req[q] EXCEPT !.pc = "end", !.ans = "ok", !.rec = rec] \in Request
  BY <1>1 DEF Request, Pc, Ans
<1>3. req' = [req EXCEPT ![q] = [req[q] EXCEPT !.pc = "end", !.ans = "ok", !.rec = rec]]
  BY <1>1 DEF AnswerRow, Request
<1> QED BY <1>2, <1>3, OneMoves

----------------------------------------------------------------------------
\* The inductive invariant of the routes

\* Which requests are where, and what they have read by then.
Stage(x) ==
    /\ x.op = "create" => DOMAIN x.body = Field
    /\ x.pc \in {"insert", "drop", "undo"} => x.op = "create"
    /\ x.pc = "remove" => x.op = "delete"
    /\ x.pc \in {"read", "write", "reread", "rewrite", "note"} => x.op = "update"
    /\ x.pc = "reply" => x.op \in {"create", "update"}
    /\ x.pc \notin {"insert", "locate", "end"} => x.row \in ids
    /\ x.pc # "end" => x.ans = "none"
    /\ x.op = "update" /\ x.pc \notin {"locate", "end"} => x.before \in Rec
    /\ x.pc \in {"write", "rewrite"} => x.merged \in Rec
    /\ x.ans = "ok" => x.row \in ids /\ (x.op # "delete" => x.rec \in Rec)
    /\ x.known \subseteq Ended /\ x.fresh \subseteq Ended

\* The events that must have been written by then.
Trailed(x) ==
    /\ x.pc \in {"remove", "undo"} => <<"delete", x.row>> \in trail
    /\ x.pc = "reply" => <<x.op, x.row>> \in trail
    /\ x.ans = "ok" /\ x.op # "fetch" => <<x.op, x.row>> \in trail

GoneLogged == \A r \in ids \ DOMAIN rows : <<"delete", r>> \in trail

\* From its write on, the values of an update are in the row, unless
\* another update overlaps it.
PatchThere(q, x) ==
    x.op = "update" =>
        /\ x.pc = "write" => \A f \in DOMAIN x.body : x.merged[f].by = q
        /\ (x.pc \in {"audit", "reply"} /\ x.row \in DOMAIN rows) =>
              \/ \A f \in DOMAIN x.body : rows[x.row][f].by = q
              \/ Overlapped(q, x.known)
        /\ x.ans = "ok" => \/ \A f \in DOMAIN x.body : x.rec[f].by = q
                           \/ Overlapped(q, x.known)

\* What an update is about to write over the row is what it read there,
\* unless another update overlaps it.
MergeFresh(q, x) ==
    /\ (x.pc \in {"write", "rewrite"} /\ x.row \in DOMAIN rows) =>
          \A f \in Field \ DOMAIN x.body :
              x.merged[f] = rows[x.row][f] \/ Overlapped(q, x.fresh)
    /\ x.pc = "rewrite" => \A f \in DOMAIN x.body : x.merged[f] = x.before[f]
    /\ (/\ x.op = "update" /\ x.pc \in {"read", "write", "audit", "reread", "rewrite"}
        /\ x.row \in DOMAIN rows) =>
          \A f \in DOMAIN x.body :
              \/ rows[x.row][f] = x.before[f] \/ rows[x.row][f].by = q
              \/ Overlapped(q, x.known)

OwnInv(q) ==
    /\ Stage(req[q]) /\ Trailed(req[q]) /\ PatchThere(q, req[q]) /\ MergeFresh(q, req[q])

RoutesInv == RoutesType /\ GoneLogged /\ \A q \in DOMAIN req : OwnInv(q)

----------------------------------------------------------------------------
\* What a step of the handler of q does to everything else

\* It keeps what its request is, and touches no row but its own.
SameRequest(q) ==
    /\ req'[q].op = req[q].op /\ req'[q].body = req[q].body
    /\ req[q].op = "update" => req'[q].row = req[q].row
    /\ req[q].ans # "ok" /\ req[q].pc # "end"
    /\ Moved(q, req'[q])

TouchesOwn(q) ==
    \A r \in ids \cap DOMAIN rows' :
        /\ r \in DOMAIN rows
        /\ rows'[r] = rows[r] \/ (req[q].op = "update" /\ req[q].row = r)

TablesGrow ==
    /\ ids \subseteq ids' /\ ids' \subseteq Row /\ DOMAIN rows' \subseteq ids'
    /\ rows' \in [DOMAIN rows' -> Rec]
    /\ trail \subseteq trail'
    /\ trail' \subseteq {"create", "update", "delete", "compensate"} \X Row

HStep(q) ==
    SameRequest(q) /\ TouchesOwn(q) /\ TablesGrow /\ GoneLogged' /\ OwnInv(q)'

LEMMA OverlapKept ==
    ASSUME NEW q \in DOMAIN req, SameRequest(q),
           NEW p \in DOMAIN req, req[p].op = "update", NEW A, Overlapped(p, A)
    PROVE  Overlapped(p, A)'
BY DEF Overlapped, SameRequest, Moved

LEMMA EndedKept ==
    ASSUME NEW q \in DOMAIN req, SameRequest(q)
    PROVE  Ended \subseteq Ended'
BY DEF Ended, SameRequest, Moved

LEMMA OthersKept ==
    ASSUME RoutesInv, NEW q \in DOMAIN req, HStep(q), NEW p \in DOMAIN req, p # q
    PROVE  OwnInv(p)'
<1>1. req'[p] = req[p] /\ OwnInv(p) /\ OwnInv(q)
  BY DEF HStep, SameRequest, Moved, RoutesInv
<1>2. Ended \subseteq Ended'
  BY EndedKept DEF HStep
<1>3. Stage(req[p])'
  BY <1>1, <1>2 DEF Stage, OwnInv, HStep, TablesGrow
<1>4. Trailed(req[p])'
  BY <1>1 DEF Trailed, OwnInv, HStep, TablesGrow
<1>5. ASSUME req[p].op = "update", NEW A, Overlapped(p, A) PROVE Overlapped(p, A)'
  BY <1>5, OverlapKept DEF HStep
<1>6. ASSUME req[p].op = "update", req[p].row \in ids \cap DOMAIN rows',
             rows'[req[p].row] # rows[req[p].row],
             NEW A, A \subseteq Ended
      PROVE  Overlapped(p, A)'
  <2>1. req[q].op = "update" /\ req[q].row = req[p].row
    BY <1>6 DEF HStep, TouchesOwn
  <2>2. q \notin A
    BY <1>6 DEF HStep, SameRequest, Ended
  <2>3. Overlapped(p, A)
    BY <2>1, <2>2, <1>6 DEF Overlapped
  <2> QED BY <1>5, <1>6, <2>3
<1>7. req[p].row \in ids /\ req[p].row \in DOMAIN rows' => req[p].row \in DOMAIN rows
  BY DEF HStep, TouchesOwn
<1>8. req[p].known \subseteq Ended /\ req[p].fresh \subseteq Ended
      /\ (req[p].pc \notin {"insert", "locate", "end"} => req[p].row \in ids)
      /\ (req[p].pc \in {"read", "write", "reread", "rewrite", "note"} => req[p].op = "update")
  BY <1>1 DEF OwnInv, Stage
<1>9. PatchThere(p, req[p])'
  BY <1>1, <1>5, <1>6, <1>7, <1>8 DEF PatchThere, OwnInv
<1>10. MergeFresh(p, req[p])'
  BY <1>1, <1>5, <1>6, <1>7, <1>8 DEF MergeFresh, OwnInv
<1> QED BY <1>3, <1>4, <1>9, <1>10 DEF OwnInv

LEMMA HandlerKeeps ==
    ASSUME RoutesInv, NEW q \in DOMAIN req, HStep(q)
    PROVE  RoutesInv'
<1>1. ASSUME NEW p \in DOMAIN req PROVE OwnInv(p)'
  BY OthersKept DEF HStep
<1>2. RoutesType'
  BY DEF RoutesInv, RoutesType, HStep, TablesGrow, SameRequest, Moved
<1> QED BY <1>1, <1>2 DEF RoutesInv, HStep, SameRequest, Moved

----------------------------------------------------------------------------
\* The steps of a handler

LEMMA RequestTyped ==
    ASSUME RoutesInv, NEW q \in DOMAIN req
    PROVE  /\ req \in Seq(Request) /\ req[q] \in Request /\ q \in 1 .. MaxRequests
           /\ OwnInv(q)
BY RoutesAssumption, ElementOfSeq, LenProperties DEF RoutesInv, RoutesType

\* A step that writes at most events.
LEMMA QuietStep ==
    ASSUME RoutesInv, NEW q \in DOMAIN req, NEW y, Moved(q, y),
           y.op = req[q].op, y.body = req[q].body, y.row = req[q].row,
           req[q].pc # "end", UNCHANGED <<rows, ids>>,
           trail \subseteq trail',
           trail' \subseteq {"create", "update", "delete", "compensate"} \X Row
    PROVE  SameRequest(q) /\ TouchesOwn(q) /\ TablesGrow /\ GoneLogged'
<1>1. req[q].ans # "ok"
  BY RequestTyped DEF OwnInv, Stage
<1>2. SameRequest(q)
  BY <1>1 DEF SameRequest, Moved
<1>3. TouchesOwn(q) /\ TablesGrow /\ GoneLogged'
  BY DEF TouchesOwn, TablesGrow, RoutesInv, RoutesType, GoneLogged
<1> QED BY <1>2, <1>3

LEMMA AnswerBad ==
    ASSUME RoutesInv, NEW q \in DOMAIN req, NEW ans \in Ans, ans # "ok",
           req[q].pc # "end", Answer(q, ans), UNCHANGED <<rows, ids>>,
           trail \subseteq trail',
           trail' \subseteq {"create", "update", "delete", "compensate"} \X Row
    PROVE  HStep(q)
<1> DEFINE y == [req[q] EXCEPT !.pc = "end", !.ans = ans]
<1>0. req \in Seq(Request) /\ req[q] \in Request /\ OwnInv(q)
  BY RequestTyped
<1>1. Moved(q, y)
  BY <1>0, AnswerMoves
<1>2. /\ y.op = req[q].op /\ y.body = req[q].body /\ y.row = req[q].row
      /\ y.pc = "end" /\ y.ans = ans /\ y.known = req[q].known /\ y.fresh = req[q].fresh
  BY <1>0 DEF Request
<1> HIDE DEF y
<1>3. SameRequest(q) /\ TouchesOwn(q) /\ TablesGrow /\ GoneLogged'
  BY <1>1, <1>2, QuietStep
<1>4. req'[q] = y
  BY <1>1 DEF Moved
<1>5. Ended \subseteq Ended'
  BY <1>3, EndedKept
<1>6. Stage(req[q])'
  BY <1>0, <1>2, <1>4, <1>5 DEF Stage, OwnInv
<1>7. (Trailed(req[q]) /\ PatchThere(q, req[q]) /\ MergeFresh(q, req[q]))'
  BY <1>0, <1>2, <1>4 DEF Trailed, PatchThere, MergeFresh
<1> QED BY <1>3, <1>6, <1>7 DEF HStep, OwnInv

LEMMA AnswerGood ==
    ASSUME RoutesInv, NEW q \in DOMAIN req, req[q].pc \in {"locate", "reply"},
           req[q].pc = "locate" => req[q].op = "fetch",
           req[q].row \in DOMAIN rows, AnswerRow(q, rows[req[q].row]),
           UNCHANGED <<rows, ids, trail>>
    PROVE  HStep(q)
<1> DEFINE y == [req[q] EXCEPT !.pc = "end", !.ans = "ok", !.rec = rows[req[q].row]]
<1>0. req \in Seq(Request) /\ req[q] \in Request /\ OwnInv(q)
  BY RequestTyped
<1>1. rows[req[q].row] \in Rec /\ req[q].row \in ids
  BY DEF RoutesInv, RoutesType
<1>2. Moved(q, y)
  BY <1>0, <1>1, AnswerRowMoves
<1>3. /\ y.op = req[q].op /\ y.body = req[q].body /\ y.row = req[q].row
      /\ y.pc = "end" /\ y.ans = "ok" /\ y.known = req[q].known /\ y.fresh = req[q].fresh
      /\ y.rec = rows[req[q].row]
  BY <1>0 DEF Request
<1> HIDE DEF y
<1>4. SameRequest(q) /\ TouchesOwn(q) /\ TablesGrow /\ GoneLogged'
  BY <1>2, <1>3, QuietStep DEF RoutesInv, RoutesType
<1>5. req'[q] = y
  BY <1>2 DEF Moved
<1>6. Ended \subseteq Ended'
  BY <1>4, EndedKept
<1>7. Stage(req[q])'
  BY <1>0, <1>1, <1>3, <1>5, <1>6 DEF Stage, OwnInv
<1>8. Trailed(req[q])'
  BY <1>0, <1>3, <1>5 DEF Trailed, OwnInv
<1>9. ASSUME req[q].op = "update", NEW A, Overlapped(q, A) PROVE Overlapped(q, A)'
  BY <1>4, <1>9, OverlapKept
<1>10. PatchThere(q, req[q])'
  BY <1>0, <1>3, <1>5, <1>9 DEF PatchThere, OwnInv
<1>11. MergeFresh(q, req[q])'
  BY <1>3, <1>5 DEF MergeFresh
<1> QED BY <1>4, <1>7, <1>8, <1>10, <1>11 DEF HStep, OwnInv

\* A handler goes on without touching a row: what its next place demands.
LEMMA GoOn ==
    ASSUME RoutesInv, NEW q \in DOMAIN req, NEW pc \in Pc, pc # "end",
           req[q].pc \notin {"end", "locate", "insert", "write", "rewrite"}, Go(q, pc),
           pc \in {"drop", "undo"} => req[q].op = "create",
           pc = "remove" => req[q].op = "delete",
           pc = "reply" => req[q].op \in {"create", "update"},
           pc = "reread" => req[q].op = "update",
           pc \notin {"insert", "locate", "read", "write", "rewrite", "note", "audit"},
           (pc = "reply" \/ pc = "reread") => req[q].pc = "audit",
           pc \in {"remove", "undo"} => <<"delete", req[q].row>> \in trail',
           pc = "reply" => <<req[q].op, req[q].row>> \in trail',
           UNCHANGED <<rows, ids>>, trail \subseteq trail',
           trail' \subseteq {"create", "update", "delete", "compensate"} \X Row
    PROVE  HStep(q)
<1> DEFINE y == [req[q] EXCEPT !.pc = pc]
<1>0. req \in Seq(Request) /\ req[q] \in Request /\ OwnInv(q)
  BY RequestTyped
<1>1. Moved(q, y)
  BY <1>0, GoMoves
<1>2. /\ y.op = req[q].op /\ y.body = req[q].body /\ y.row = req[q].row
      /\ y.pc = pc /\ y.ans = req[q].ans /\ y.known = req[q].known /\ y.fresh = req[q].fresh
      /\ y.before = req[q].before /\ y.merged = req[q].merged
  BY <1>0 DEF Request
<1> HIDE DEF y
<1>3. SameRequest(q) /\ TouchesOwn(q) /\ TablesGrow /\ GoneLogged'
  BY <1>1, <1>2, QuietStep
<1>4. req'[q] = y
  BY <1>1 DEF Moved
<1>5. Ended \subseteq Ended'
  BY <1>3, EndedKept
<1>6. Stage(req[q])'
  BY <1>0, <1>2, <1>4, <1>5 DEF Stage, OwnInv
<1>7. Trailed(req[q])'
  BY <1>0, <1>2, <1>4 DEF Trailed, OwnInv, Stage
<1>8. ASSUME req[q].op = "update", NEW A, Overlapped(q, A) PROVE Overlapped(q, A)'
  BY <1>3, <1>8, OverlapKept
<1>9. PatchThere(q, req[q])'
  BY <1>0, <1>2, <1>4, <1>8 DEF PatchThere, OwnInv, Stage
<1>10. MergeFresh(q, req[q])'
  BY <1>0, <1>2, <1>4, <1>8 DEF MergeFresh, OwnInv, Stage
<1> QED BY <1>3, <1>6, <1>7, <1>9, <1>10 DEF HStep, OwnInv

LEMMA FetchStep ==
    ASSUME RoutesInv, NEW q \in DOMAIN req, fetch_record(q)
    PROVE  HStep(q)
<1>1. CASE req[q].row \in DOMAIN rows
  BY <1>1, AnswerGood DEF fetch_record, fetch_by_locator
<1>2. CASE req[q].row \notin DOMAIN rows
  BY <1>2, AnswerBad DEF fetch_record, fetch_by_locator, RoutesInv, RoutesType, Ans
<1> QED BY <1>1, <1>2

LEMMA DeleteStarts ==
    ASSUME RoutesInv, NEW q \in DOMAIN req, delete_record(q)
    PROVE  HStep(q)
<1>1. CASE req[q].row \notin DOMAIN rows
  BY <1>1, AnswerBad DEF delete_record, fetch_by_locator, RoutesInv, RoutesType, Ans
<1>2. CASE req[q].row \in DOMAIN rows
  <2> DEFINE y == [req[q] EXCEPT !.pc = "audit"]
  <2>0. req \in Seq(Request) /\ req[q] \in Request /\ OwnInv(q)
    BY RequestTyped
  <2>a. /\ Go(q, "audit") /\ req[q].op = "delete" /\ req[q].pc = "locate"
        /\ UNCHANGED <<rows, ids, trail>> /\ req[q].row \in ids
    BY <1>2 DEF delete_record, fetch_by_locator, RoutesInv, RoutesType
  <2>1. Moved(q, y)
    BY <2>0, <2>a, GoMoves DEF Pc
  <2>2. /\ y.op = req[q].op /\ y.body = req[q].body /\ y.row = req[q].row
        /\ y.pc = "audit" /\ y.ans = req[q].ans /\ y.known = req[q].known /\ y.fresh = req[q].fresh
    BY <2>0 DEF Request
  <2> HIDE DEF y
  <2>3. SameRequest(q) /\ TouchesOwn(q) /\ TablesGrow /\ GoneLogged'
    BY <2>a, <2>1, <2>2, QuietStep DEF RoutesInv, RoutesType
  <2>4. req'[q] = y
    BY <2>1 DEF Moved
  <2>5. Ended \subseteq Ended'
    BY <2>3, EndedKept
  <2>6. Stage(req[q])'
    BY <2>0, <2>a, <2>2, <2>4, <2>5 DEF Stage, OwnInv
  <2>7. (Trailed(req[q]) /\ PatchThere(q, req[q]) /\ MergeFresh(q, req[q]))'
    BY <2>0, <2>a, <2>2, <2>4 DEF Trailed, PatchThere, MergeFresh, OwnInv, Stage
  <2> QED BY <2>3, <2>6, <2>7 DEF HStep, OwnInv
<1> QED BY <1>1, <1>2

LEMMA UpdateStarts ==
    ASSUME RoutesInv, NEW q \in DOMAIN req, update_record(q)
    PROVE  HStep(q)
<1>1. CASE req[q].row \notin DOMAIN rows
  BY <1>1, AnswerBad DEF update_record, fetch_by_locator, RoutesInv, RoutesType, Ans
<1>2. CASE req[q].row \in DOMAIN rows
  <2> DEFINE y == [req[q] EXCEPT !.pc = "read", !.before = rows[req[q].row], !.known = Ended]
  <2>0. req \in Seq(Request) /\ req[q] \in Request /\ OwnInv(q)
    BY RequestTyped
  <2>a. /\ req[q].op = "update" /\ req[q].pc = "locate" /\ req[q].row \in ids
        /\ rows[req[q].row] \in Rec /\ rows[req[q].row] \in MaybeRec
        /\ UNCHANGED <<rows, ids, trail>>
        /\ req' = [req EXCEPT ![q].pc = "read", ![q].before = rows[req[q].row], ![q].known = Ended]
    BY <1>2 DEF update_record, fetch_by_locator, RoutesInv, RoutesType, MaybeRec
  <2>b. Ended \in SUBSET Nat
    BY <2>0, LenProperties DEF Ended
  <2>c. req' = [req EXCEPT ![q] = y]
    BY <2>0, <2>a DEF Request
  <2>d. y \in Request
    BY <2>0, <2>a, <2>b DEF Request, Pc
  <2>1. Moved(q, y)
    BY <2>0, <2>c, <2>d, OneMoves
  <2>2. /\ y.op = req[q].op /\ y.body = req[q].body /\ y.row = req[q].row
        /\ y.pc = "read" /\ y.ans = req[q].ans /\ y.known = Ended /\ y.fresh = req[q].fresh
        /\ y.before = rows[req[q].row]
    BY <2>0 DEF Request
  <2> HIDE DEF y
  <2>3. SameRequest(q) /\ TouchesOwn(q) /\ TablesGrow /\ GoneLogged'
    BY <2>a, <2>1, <2>2, QuietStep DEF RoutesInv, RoutesType
  <2>4. req'[q] = y
    BY <2>1 DEF Moved
  <2>5. Ended \subseteq Ended'
    BY <2>3, EndedKept
  <2>6. Stage(req[q])'
    BY <2>0, <2>a, <2>2, <2>4, <2>5 DEF Stage, OwnInv
  <2>7. (Trailed(req[q]) /\ PatchThere(q, req[q]) /\ MergeFresh(q, req[q]))'
    BY <2>0, <2>a, <2>2, <2>4 DEF Trailed, PatchThere, MergeFresh, OwnInv, Stage
  <2> QED BY <2>3, <2>6, <2>7 DEF HStep, OwnInv
<1> QED BY <1>1, <1>2

LEMMA PatchedRec ==
    ASSUME NEW rec \in Rec, NEW body, NEW changes \in [DOMAIN body -> Cell], DOMAIN body \subseteq Field
    PROVE  /\ Patched(rec, changes) \in Rec
           /\ \A f \in Field : Patched(rec, changes)[f] = IF f \in DOMAIN body THEN changes[f] ELSE rec[f]
BY DEF Patched, Rec

LEMMA StampTyped ==
    ASSUME NEW q \in 1 .. MaxRequests, NEW body \in Body
    PROVE  /\ DOMAIN body \subseteq Field /\ Stamp(q, body) \in [DOMAIN body -> Cell]
           /\ \A f \in DOMAIN body : Stamp(q, body)[f].by = q
<1>1. PICK S \in SUBSET Field : body \in [S -> Value]
  BY DEF Body
<1>2. q \in 0 .. MaxRequests
  BY RoutesAssumption
<1> QED BY <1>1, <1>2 DEF Stamp, Cell

LEMMA CreateStep ==
    ASSUME RoutesInv, NEW q \in DOMAIN req, store_create(q)
    PROVE  HStep(q)
<1>0. /\ req \in Seq(Request) /\ req[q] \in Request /\ OwnInv(q) /\ req[q].pc = "insert"
      /\ req[q].op = "create" /\ req[q].ans = "none" /\ DOMAIN req[q].body = Field
      /\ trail' = trail
  BY RequestTyped DEF OwnInv, Stage, store_create
<1>1. PICK r \in Row \ ids :
          /\ rows' = Patched(rows, [s \in {r} |-> Stamp(q, req[q].body)])
          /\ ids' = ids \cup {r}
          /\ req' = [req EXCEPT ![q].pc = "audit", ![q].row = r]
  BY DEF store_create
<1> DEFINE y == [req[q] EXCEPT !.pc = "audit", !.row = r]
<1>2. y \in Request /\ req' = [req EXCEPT ![q] = y]
  BY <1>0, <1>1 DEF Request, Pc
<1>3. Moved(q, y)
  BY <1>0, <1>2, OneMoves
<1>4. /\ y.op = req[q].op /\ y.body = req[q].body /\ y.row = r
      /\ y.pc = "audit" /\ y.ans = req[q].ans /\ y.known = req[q].known /\ y.fresh = req[q].fresh
  BY <1>0 DEF Request
<1> HIDE DEF y
<1>5. req'[q] = y
  BY <1>3 DEF Moved
<1>6. SameRequest(q)
  BY <1>0, <1>3, <1>4, <1>5 DEF SameRequest
<1>7. Stamp(q, req[q].body) \in Rec
  <2>1. req[q].body \in Body /\ q \in 1 .. MaxRequests
    BY <1>0, RequestTyped DEF Request
  <2> QED BY <1>0, <2>1, StampTyped DEF Rec
<1>8. /\ DOMAIN rows' = DOMAIN rows \cup {r} /\ rows' \in [DOMAIN rows' -> Rec]
      /\ \A s \in DOMAIN rows : rows'[s] = rows[s]
  <2>1. r \notin DOMAIN rows /\ rows \in [DOMAIN rows -> Rec]
    BY <1>1 DEF RoutesInv, RoutesType
  <2> HIDE DEF Rec
  <2> QED BY <1>1, <1>7, <2>1 DEF Patched
<1>9. TouchesOwn(q) /\ TablesGrow /\ GoneLogged'
  BY <1>0, <1>1, <1>8 DEF TouchesOwn, TablesGrow, GoneLogged, RoutesInv, RoutesType
<1>10. Ended \subseteq Ended'
  BY <1>6, EndedKept
<1>11. Stage(req[q])'
  BY <1>0, <1>1, <1>4, <1>5, <1>10 DEF Stage, OwnInv
<1>12. (Trailed(req[q]) /\ PatchThere(q, req[q]) /\ MergeFresh(q, req[q]))'
  BY <1>0, <1>4, <1>5 DEF Trailed, PatchThere, MergeFresh
<1> QED BY <1>6, <1>9, <1>11, <1>12 DEF HStep, OwnInv

LEMMA DeleteStep ==
    ASSUME RoutesInv, NEW q \in DOMAIN req, store_delete(q)
    PROVE  HStep(q)
<1> DEFINE a == IF req[q].pc = "undo" THEN "failed"
                ELSE IF req[q].row \in DOMAIN rows THEN "ok" ELSE "missing"
           y == [req[q] EXCEPT !.pc = "end", !.ans = a]
<1>0. /\ req \in Seq(Request) /\ req[q] \in Request /\ OwnInv(q)
      /\ req[q].pc \in {"remove", "undo"} /\ Answer(q, a) /\ DropRow(req[q].row)
      /\ UNCHANGED <<ids, trail>> /\ a \in Ans
  BY RequestTyped DEF store_delete, Ans
<1>1. /\ req[q].row \in ids /\ <<"delete", req[q].row>> \in trail /\ req[q].ans = "none"
      /\ req[q].op # "update" /\ (req[q].pc = "remove" => req[q].op = "delete")
  BY <1>0 DEF OwnInv, Stage, Trailed
<1>2. Moved(q, y)
  <2> HIDE DEF a
  <2> QED BY <1>0, AnswerMoves
<1>3. /\ y.op = req[q].op /\ y.body = req[q].body /\ y.row = req[q].row
      /\ y.pc = "end" /\ y.ans = a /\ y.known = req[q].known /\ y.fresh = req[q].fresh
  BY <1>0 DEF Request
<1>4. a = "ok" => req[q].op = "delete"
  BY <1>0, <1>1
<1> HIDE DEF y, a
<1>5. req'[q] = y
  BY <1>2 DEF Moved
<1>6. SameRequest(q)
  BY <1>0, <1>1, <1>2, <1>3, <1>5 DEF SameRequest
<1>7. TouchesOwn(q) /\ TablesGrow /\ GoneLogged'
  BY <1>0, <1>1 DEF TouchesOwn, TablesGrow, GoneLogged, RoutesInv, RoutesType, DropRow
<1>8. Ended \subseteq Ended'
  BY <1>6, EndedKept
<1>9. Stage(req[q])'
  BY <1>0, <1>1, <1>3, <1>4, <1>5, <1>8 DEF Stage, OwnInv
<1>10. Trailed(req[q])'
  BY <1>0, <1>1, <1>3, <1>4, <1>5 DEF Trailed
<1>11. (PatchThere(q, req[q]) /\ MergeFresh(q, req[q]))'
  BY <1>1, <1>3, <1>5 DEF PatchThere, MergeFresh
<1> QED BY <1>6, <1>7, <1>9, <1>10, <1>11 DEF HStep, OwnInv

LEMMA ReadStep ==
    ASSUME RoutesInv, NEW q \in DOMAIN req, store_update_read(q)
    PROVE  HStep(q)
<1>0. /\ req \in Seq(Request) /\ req[q] \in Request /\ OwnInv(q) /\ q \in 1 .. MaxRequests
      /\ req[q].pc \in {"read", "reread"} /\ UNCHANGED <<rows, ids, trail>>
  BY RequestTyped DEF store_update_read
<1>1. CASE req[q].row \notin DOMAIN rows
  <2>1. PICK a \in {"missing", "failed"} : Answer(q, a)
    BY <1>1 DEF store_update_read
  <2> QED BY <1>0, <2>1, AnswerBad DEF RoutesInv, RoutesType, Ans
<1>2. CASE req[q].row \in DOMAIN rows
  <2> DEFINE changes == IF req[q].pc = "read" THEN Stamp(q, req[q].body)
                        ELSE [f \in DOMAIN req[q].body |-> req[q].before[f]]
             m  == Patched(rows[req[q].row], changes)
             to == IF req[q].pc = "read" THEN "write" ELSE "rewrite"
             y  == [req[q] EXCEPT !.pc = to, !.merged = m, !.fresh = Ended]
  <2>1. req' = [req EXCEPT ![q].pc = to, ![q].merged = m, ![q].fresh = Ended]
    BY <1>2 DEF store_update_read
  <2>2. /\ req[q].row \in ids /\ rows[req[q].row] \in Rec /\ req[q].op = "update"
        /\ req[q].before \in Rec /\ req[q].ans = "none" /\ req[q].body \in Body
    BY <1>0, <1>2 DEF RoutesInv, RoutesType, OwnInv, Stage, Request
  <2>3. /\ DOMAIN req[q].body \subseteq Field
        /\ Stamp(q, req[q].body) \in [DOMAIN req[q].body -> Cell]
        /\ \A f \in DOMAIN req[q].body : Stamp(q, req[q].body)[f].by = q
    BY <1>0, <2>2, StampTyped
  <2>4. changes \in [DOMAIN req[q].body -> Cell]
    <3>1. [f \in DOMAIN req[q].body |-> req[q].before[f]] \in [DOMAIN req[q].body -> Cell]
      BY <2>2, <2>3 DEF Rec
    <3> QED BY <2>3, <3>1
  <2>5. /\ req[q].pc = "read" => \A f \in DOMAIN req[q].body : changes[f].by = q
        /\ req[q].pc = "reread" => \A f \in DOMAIN req[q].body : changes[f] = req[q].before[f]
    BY <2>3
  <2> HIDE DEF changes
  <2>6. /\ m \in Rec
        /\ \A f \in Field : m[f] = IF f \in DOMAIN req[q].body THEN changes[f] ELSE rows[req[q].row][f]
    BY <2>2, <2>3, <2>4, PatchedRec
  <2>7. to \in Pc /\ m \in MaybeRec /\ Ended \in SUBSET Nat
    BY <1>0, <2>6, LenProperties DEF Ended, Pc, MaybeRec
  <2>a. to = IF req[q].pc = "read" THEN "write" ELSE "rewrite"
    OBVIOUS
  <2> HIDE DEF m, to
  <2>8. y \in Request /\ req' = [req EXCEPT ![q] = y]
    BY <1>0, <2>1, <2>7 DEF Request
  <2>9. Moved(q, y)
    BY <1>0, <2>8, OneMoves
  <2>10. /\ y.op = req[q].op /\ y.body = req[q].body /\ y.row = req[q].row
         /\ y.pc = to /\ y.ans = req[q].ans /\ y.known = req[q].known /\ y.fresh = Ended
         /\ y.before = req[q].before /\ y.merged = m
    BY <1>0 DEF Request
  <2> HIDE DEF y
  <2>11. req'[q] = y
    BY <2>9 DEF Moved
  <2>12. SameRequest(q) /\ TouchesOwn(q) /\ TablesGrow /\ GoneLogged'
    BY <1>0, <2>9, <2>10, QuietStep DEF RoutesInv, RoutesType
  <2>13. Ended \subseteq Ended'
    BY <2>12, EndedKept
  <2>14. Stage(req[q])'
    BY <1>0, <2>2, <2>6, <2>10, <2>11, <2>13, <2>a DEF Stage, OwnInv
  <2>15. Trailed(req[q])'
    BY <2>2, <2>10, <2>11, <2>a DEF Trailed
  <2>16. PatchThere(q, req[q])'
    BY <1>0, <2>2, <2>3, <2>5, <2>6, <2>10, <2>11, <2>a DEF PatchThere
  <2>17. ASSUME NEW A, Overlapped(q, A) PROVE Overlapped(q, A)'
    BY <2>2, <2>12, <2>17, OverlapKept
  <2>18. MergeFresh(q, req[q])'
    BY <1>0, <2>2, <2>3, <2>5, <2>6, <2>10, <2>11, <2>17, <2>a DEF MergeFresh, OwnInv
  <2> QED BY <2>12, <2>14, <2>15, <2>16, <2>18 DEF HStep, OwnInv
<1> QED BY <1>1, <1>2

LEMMA WriteStep ==
    ASSUME RoutesInv, NEW q \in DOMAIN req, store_update_write(q)
    PROVE  HStep(q)
<1> DEFINE to == IF req[q].pc = "write" THEN "audit" ELSE "note"
           y == [req[q] EXCEPT !.pc = to]
<1>0. /\ req \in Seq(Request) /\ req[q] \in Request /\ OwnInv(q)
      /\ req[q].pc \in {"write", "rewrite"} /\ UNCHANGED <<ids, trail>> /\ Go(q, to) /\ to \in Pc
      /\ rows' = [r \in DOMAIN rows |-> IF r = req[q].row THEN req[q].merged ELSE rows[r]]
  BY RequestTyped DEF store_update_write, Pc
<1>1. /\ req[q].op = "update" /\ req[q].row \in ids /\ req[q].merged \in Rec /\ req[q].ans = "none"
      /\ rows \in [DOMAIN rows -> Rec]
  BY <1>0 DEF OwnInv, Stage, RoutesInv, RoutesType
<1>a. to = IF req[q].pc = "write" THEN "audit" ELSE "note"
  OBVIOUS
<1>2. Moved(q, y)
  <2> HIDE DEF to
  <2> QED BY <1>0, GoMoves
<1>3. /\ y.op = req[q].op /\ y.body = req[q].body /\ y.row = req[q].row
      /\ y.pc = to /\ y.ans = req[q].ans /\ y.known = req[q].known /\ y.fresh = req[q].fresh
      /\ y.before = req[q].before /\ y.merged = req[q].merged
  BY <1>0 DEF Request
<1> HIDE DEF y, to
<1>5. req'[q] = y
  BY <1>2 DEF Moved
<1>6. SameRequest(q)
  BY <1>0, <1>1, <1>2, <1>3, <1>5 DEF SameRequest
<1>7. TouchesOwn(q) /\ TablesGrow /\ GoneLogged'
  <2> HIDE DEF Rec
  <2>1. TouchesOwn(q) /\ GoneLogged'
    BY <1>0, <1>1 DEF TouchesOwn, GoneLogged, RoutesInv
  <2>2. TablesGrow
    BY <1>0, <1>1 DEF TablesGrow, RoutesInv, RoutesType
  <2> QED BY <2>1, <2>2
<1>8. Ended \subseteq Ended'
  BY <1>6, EndedKept
<1>9. Stage(req[q])'
  BY <1>0, <1>1, <1>3, <1>5, <1>8, <1>a DEF Stage, OwnInv
<1>10. Trailed(req[q])'
  BY <1>1, <1>3, <1>5, <1>a DEF Trailed
<1>11. req[q].row \in DOMAIN rows' => rows'[req[q].row] = req[q].merged
  BY <1>0
<1>12. req[q].pc = "write" => \A f \in DOMAIN req[q].body : req[q].merged[f].by = q
  BY <1>0, <1>1 DEF OwnInv, PatchThere
<1>13. PatchThere(q, req[q])'
  BY <1>0, <1>1, <1>3, <1>5, <1>11, <1>12, <1>a DEF PatchThere
<1>14. MergeFresh(q, req[q])'
  BY <1>0, <1>1, <1>3, <1>5, <1>11, <1>12, <1>a DEF MergeFresh
<1> QED BY <1>6, <1>7, <1>9, <1>10, <1>13, <1>14 DEF HStep, OwnInv

LEMMA EmitLogs ==
    ASSUME RoutesInv, NEW q \in DOMAIN req, req[q].row \in ids,
           NEW event \in {"create", "update", "delete", "compensate"},
           NEW ok \in BOOLEAN,
           IF ok THEN trail' = trail \cup {<<event, req[q].row>>}
                 ELSE trail' \in {trail, trail \cup {<<event, req[q].row>>}}
    PROVE  /\ trail \subseteq trail'
           /\ trail' \subseteq {"create", "update", "delete", "compensate"} \X Row
           /\ ok => <<event, req[q].row>> \in trail'
BY DEF RoutesInv, RoutesType

LEMMA EventStep ==
    ASSUME RoutesInv, NEW q \in DOMAIN req, NEW ok \in BOOLEAN,
           create_event(q, ok) \/ update_event(q, ok) \/ delete_event(q, ok)
               \/ CompensateEvent(q, ok) \/ RestoreEvent(q, ok)
    PROVE  HStep(q)
<1>0. OwnInv(q)
  BY RequestTyped
<1>1. CASE create_event(q, ok)
  <2>1. /\ req[q].pc = "audit" /\ req[q].op = "create" /\ UNCHANGED <<rows, ids>> /\ req[q].row \in ids
        /\ IF ok THEN trail' = trail \cup {<<"create", req[q].row>>}
                 ELSE trail' \in {trail, trail \cup {<<"create", req[q].row>>}}
        /\ IF ok THEN Go(q, "reply") ELSE Go(q, "drop")
    BY <1>0, <1>1 DEF create_event, EventAt, Emit, OwnInv, Stage
  <2>2. /\ trail \subseteq trail'
        /\ trail' \subseteq {"create", "update", "delete", "compensate"} \X Row
        /\ ok => <<"create", req[q].row>> \in trail'
    BY <2>1, EmitLogs
  <2> QED BY <2>1, <2>2, GoOn DEF Pc
<1>2. CASE update_event(q, ok)
  <2>1. /\ req[q].pc = "audit" /\ req[q].op = "update" /\ UNCHANGED <<rows, ids>> /\ req[q].row \in ids
        /\ IF ok THEN trail' = trail \cup {<<"update", req[q].row>>}
                 ELSE trail' \in {trail, trail \cup {<<"update", req[q].row>>}}
        /\ IF ok THEN Go(q, "reply") ELSE Go(q, "reread")
    BY <1>0, <1>2 DEF update_event, EventAt, Emit, OwnInv, Stage
  <2>2. /\ trail \subseteq trail'
        /\ trail' \subseteq {"create", "update", "delete", "compensate"} \X Row
        /\ ok => <<"update", req[q].row>> \in trail'
    BY <2>1, EmitLogs
  <2> QED BY <2>1, <2>2, GoOn DEF Pc
<1>3. CASE delete_event(q, ok)
  <2>1. /\ req[q].pc = "audit" /\ req[q].op = "delete" /\ UNCHANGED <<rows, ids>> /\ req[q].row \in ids
        /\ IF ok THEN trail' = trail \cup {<<"delete", req[q].row>>}
                 ELSE trail' \in {trail, trail \cup {<<"delete", req[q].row>>}}
        /\ IF ok THEN Go(q, "remove") ELSE Answer(q, "failed")
    BY <1>0, <1>3 DEF delete_event, EventAt, Emit, OwnInv, Stage
  <2>2. /\ trail \subseteq trail'
        /\ trail' \subseteq {"create", "update", "delete", "compensate"} \X Row
        /\ ok => <<"delete", req[q].row>> \in trail'
    BY <2>1, EmitLogs
  <2>3. CASE ok
    BY <2>1, <2>2, <2>3, GoOn DEF Pc
  <2>4. CASE ~ ok
    BY <2>1, <2>2, <2>4, AnswerBad DEF Ans
  <2> QED BY <2>3, <2>4
<1>4. CASE CompensateEvent(q, ok)
  <2>1. /\ req[q].pc = "drop" /\ req[q].op = "create" /\ UNCHANGED <<rows, ids>> /\ req[q].row \in ids
        /\ IF ok THEN trail' = trail \cup {<<"delete", req[q].row>>}
                 ELSE trail' \in {trail, trail \cup {<<"delete", req[q].row>>}}
        /\ IF ok THEN Go(q, "undo") ELSE Answer(q, "failed")
    BY <1>0, <1>4 DEF CompensateEvent, Emit, OwnInv, Stage
  <2>2. /\ trail \subseteq trail'
        /\ trail' \subseteq {"create", "update", "delete", "compensate"} \X Row
        /\ ok => <<"delete", req[q].row>> \in trail'
    BY <2>1, EmitLogs
  <2>3. CASE ok
    BY <2>1, <2>2, <2>3, GoOn DEF Pc
  <2>4. CASE ~ ok
    BY <2>1, <2>2, <2>4, AnswerBad DEF Ans
  <2> QED BY <2>3, <2>4
<1>5. CASE RestoreEvent(q, ok)
  <2>1. /\ req[q].pc = "note" /\ UNCHANGED <<rows, ids>> /\ req[q].row \in ids
        /\ IF ok THEN trail' = trail \cup {<<"compensate", req[q].row>>}
                 ELSE trail' \in {trail, trail \cup {<<"compensate", req[q].row>>}}
        /\ Answer(q, "failed")
    BY <1>0, <1>5 DEF RestoreEvent, Emit, OwnInv, Stage
  <2>2. /\ trail \subseteq trail'
        /\ trail' \subseteq {"create", "update", "delete", "compensate"} \X Row
    BY <2>1, EmitLogs
  <2> QED BY <2>1, <2>2, AnswerBad DEF Ans
<1> QED BY <1>1, <1>2, <1>3, <1>4, <1>5

LEMMA EveryHandlerStep ==
    ASSUME RoutesInv, NEW q \in DOMAIN req, HandlerStep(q)
    PROVE  HStep(q)
<1>1. CASE Reply(q)
  <2>1. CASE req[q].row \in DOMAIN rows
    BY <1>1, <2>1, AnswerGood DEF Reply
  <2>2. CASE req[q].row \notin DOMAIN rows
    BY <1>1, <2>2, AnswerBad DEF Reply, Ans, RoutesInv, RoutesType
  <2> QED BY <2>1, <2>2
<1>2. CASE Die(q)
  BY <1>2, AnswerBad DEF Die, Ans, RoutesInv, RoutesType
<1> QED BY <1>1, <1>2, FetchStep, UpdateStarts, DeleteStarts, CreateStep, DeleteStep,
           ReadStep, WriteStep, EventStep DEF HandlerStep

----------------------------------------------------------------------------
\* A request arrives

Arrived(op) ==
    /\ Len(req') = Len(req) + 1 /\ DOMAIN req' = DOMAIN req \cup {Len(req')}
    /\ Len(req') \notin DOMAIN req /\ req'[Len(req')].op = op
    /\ \A p \in DOMAIN req : req'[p] = req[p]

LEMMA EmptyBody == << >> \in Body
<1>1. << >> \in [{} -> Value]
  OBVIOUS
<1> QED BY <1>1 DEF Body

LEMMA ReceiveKeeps ==
    ASSUME RoutesInv, NEW op \in Op, NEW r \in Row \cup {NoRow}, NEW body \in Body,
           op = "create" => DOMAIN body = Field,
           Receive(op, r, body), UNCHANGED <<rows, ids, trail>>
    PROVE  RoutesInv' /\ Arrived(op)
<1> DEFINE x == [op |-> op, row |-> r, body |-> body,
                 pc |-> IF op = "create" THEN "insert" ELSE "locate",
                 ans |-> "none", rec |-> << >>, before |-> << >>, merged |-> << >>,
                 known |-> {}, fresh |-> {}]
<1>0. req \in Seq(Request) /\ Len(req) \in Nat /\ Len(req) < MaxRequests /\ req' = Append(req, x)
  BY LenProperties DEF RoutesInv, RoutesType, Receive
<1>1. x \in Request
  BY DEF Request, MaybeRec, Pc, Ans
<1>2. /\ x.op = op /\ x.body = body /\ x.pc \in {"insert", "locate"} /\ x.ans = "none"
      /\ (x.pc = "insert" => op = "create") /\ x.known = {} /\ x.fresh = {}
  OBVIOUS
<1> HIDE DEF x
<1>3. /\ req' \in Seq(Request) /\ Len(req') = Len(req) + 1
      /\ \A i \in 1 .. Len(req) : req'[i] = req[i]
      /\ req'[Len(req) + 1] = x
  <2>1. /\ Append(req, x) \in Seq(Request) /\ Len(Append(req, x)) = Len(req) + 1
        /\ \A i \in 1 .. Len(req) : Append(req, x)[i] = req[i]
        /\ Append(req, x)[Len(req) + 1] = x
    BY <1>0, <1>1, AppendProperties
  <2> QED BY <1>0, <2>1
<1>4. DOMAIN req = 1 .. Len(req) /\ DOMAIN req' = 1 .. Len(req')
  BY <1>0, <1>3, LenProperties
<1>5. Arrived(op)
  BY <1>0, <1>2, <1>3, <1>4 DEF Arrived
<1>6. RoutesType'
  BY <1>0, <1>3, RoutesAssumption DEF RoutesType, RoutesInv
<1>7. GoneLogged'
  BY DEF GoneLogged, RoutesInv
<1>8. Ended \subseteq Ended'
  BY <1>5 DEF Ended, Arrived
<1>9. ASSUME NEW p \in DOMAIN req PROVE OwnInv(p)'
  <2>1. req'[p] = req[p] /\ OwnInv(p)
    BY <1>5 DEF Arrived, RoutesInv
  <2>2. ASSUME req[p].op = "update", NEW A, Overlapped(p, A) PROVE Overlapped(p, A)'
    BY <1>5, <2>2 DEF Overlapped, Arrived
  <2>3. (Stage(req[p]) /\ Trailed(req[p]))'
    BY <1>8, <2>1 DEF Stage, Trailed, OwnInv
  <2>4. PatchThere(p, req[p])'
    BY <2>1, <2>2 DEF PatchThere, OwnInv
  <2>5. req[p].pc \in {"write", "rewrite"} => req[p].op = "update"
    BY <2>1 DEF OwnInv, Stage
  <2>6. MergeFresh(p, req[p])'
    BY <2>1, <2>2, <2>5 DEF MergeFresh, OwnInv
  <2> QED BY <2>3, <2>4, <2>6 DEF OwnInv
<1>10. ASSUME NEW p, req'[p] = x PROVE OwnInv(p)'
  <2>1. Stage(req[p])'
    BY <1>2, <1>10 DEF Stage
  <2> QED BY <1>2, <1>10, <2>1 DEF Trailed, PatchThere, MergeFresh, OwnInv
<1>11. ASSUME NEW p \in DOMAIN req' PROVE OwnInv(p)'
  <2>1. CASE p \in DOMAIN req
    BY <1>9, <2>1
  <2>2. CASE p = Len(req')
    BY <1>3, <1>10, <2>2
  <2> QED BY <1>5, <2>1, <2>2 DEF Arrived
<1> QED BY <1>5, <1>6, <1>7, <1>11 DEF RoutesInv

----------------------------------------------------------------------------
\* The editor

Draft == [Field -> Value]
Chunk == UNION {[{f} -> Value] : f \in Field}
Editor ==
    [baseline : Draft, draft : Draft, undo_stack : Seq(Chunk), active_field : Field \cup {"none"}]

\* h[n] is the draft that is left when all but n chunks are undone.
Steps(e, h) ==
    /\ h \in [0 .. Len(e.undo_stack) -> Draft]
    /\ h[0] = e.baseline /\ h[Len(e.undo_stack)] = e.draft
    /\ \A n \in 1 .. Len(e.undo_stack) : h[n - 1] = Patched(h[n], e.undo_stack[n])

\* The field that is being edited is the one of the last chunk.
EditorOK(e) ==
    /\ e \in Editor
    /\ \E h : Steps(e, h)
    /\ e.undo_stack # << >> /\ e.active_field # "none" =>
          e.active_field \in DOMAIN e.undo_stack[Len(e.undo_stack)]

LEMMA SnapshotOK ==
    ASSUME NEW rec \in Draft
    PROVE  EditorOK(create_editor_snapshot(rec))
<1> DEFINE e == create_editor_snapshot(rec)
           h == [n \in 0 .. 0 |-> rec]
<1>1. e \in Editor /\ e.undo_stack = << >> /\ e.baseline = rec /\ e.draft = rec
  <2>1. << >> \in Seq(Chunk)
    OBVIOUS
  <2> QED BY <2>1 DEF create_editor_snapshot, Editor
<1> HIDE DEF e
<1>2. Len(e.undo_stack) = 0
  BY <1>1
<1>3. Steps(e, h)
  BY <1>1, <1>2 DEF Steps
<1>4. EditorOK(e)
  BY <1>1, <1>3 DEF EditorOK
<1> QED BY <1>4 DEF e

LEMMA CloseOK ==
    ASSUME NEW e, EditorOK(e)
    PROVE  EditorOK(close_active_chunk(e))
<1> DEFINE c == close_active_chunk(e)
<1>1. /\ c \in Editor /\ c.undo_stack = e.undo_stack /\ c.baseline = e.baseline
      /\ c.draft = e.draft /\ c.active_field = "none"
  BY DEF close_active_chunk, EditorOK, Editor
<1> HIDE DEF c
<1>2. PICK h : Steps(e, h)
  BY DEF EditorOK
<1>3. Steps(c, h)
  BY <1>1, <1>2 DEF Steps
<1>4. EditorOK(c)
  BY <1>1, <1>3 DEF EditorOK
<1> QED BY <1>4 DEF c

\* The chunk of an edit has the value that was there before it.
LEMMA ChunkUndoes ==
    ASSUME NEW d \in Draft, NEW f \in Field, NEW v \in Value
    PROVE  /\ [d EXCEPT ![f] = v] \in Draft
           /\ [g \in {f} |-> d[f]] \in Chunk
           /\ Patched([d EXCEPT ![f] = v], [g \in {f} |-> d[f]]) = d
<1>1. [d EXCEPT ![f] = v] \in Draft /\ d[f] \in Value
  BY DEF Draft
<1>2. [g \in {f} |-> d[f]] \in [{f} -> Value]
  BY <1>1
<1>3. Patched([d EXCEPT ![f] = v], [g \in {f} |-> d[f]]) = d
  BY DEF Patched, Draft
<1> QED BY <1>1, <1>2, <1>3 DEF Chunk

\* A later edit of the chunk's field changes nothing of what it restores.
LEMMA ChunkHides ==
    ASSUME NEW d \in Draft, NEW f \in Field, NEW v \in Value, NEW c, f \in DOMAIN c
    PROVE  Patched([d EXCEPT ![f] = v], c) = Patched(d, c)
BY DEF Patched, Draft

LEMMA EditOK ==
    ASSUME NEW e, EditorOK(e), NEW f \in Field, NEW v \in Value
    PROVE  EditorOK(apply_field_edit(e, f, v))
<1> DEFINE same == e.active_field = f /\ e.undo_stack # << >>
           nd == [e.draft EXCEPT ![f] = v]
           ch == [g \in {f} |-> e.draft[f]]
           L  == Len(e.undo_stack)
<1>0. /\ e \in Editor /\ e.draft \in Draft /\ e.undo_stack \in Seq(Chunk) /\ L \in Nat
      /\ f # "none" /\ (e.undo_stack # << >> => L > 0)
  BY PageAssumption, EmptySeq, LenProperties DEF EditorOK, Editor
<1>1. PICK h : Steps(e, h)
  BY DEF EditorOK
<1>2. CASE e.draft[f] = v
  BY <1>2 DEF apply_field_edit
<1>3. CASE e.draft[f] # v /\ same
  <2> DEFINE n == [e EXCEPT !.draft[f] = v, !.active_field = f]
             k == [i \in 0 .. L |-> IF i = L THEN nd ELSE h[i]]
  <2>1. apply_field_edit(e, f, v) = n
    BY <1>0, <1>3 DEF apply_field_edit, Editor
  <2>2. /\ n \in Editor /\ n.undo_stack = e.undo_stack /\ n.baseline = e.baseline
        /\ n.draft = nd /\ n.active_field = f
    BY <1>0, ChunkUndoes DEF Editor
  <2> HIDE DEF n
  <2>3. L > 0 /\ f \in DOMAIN e.undo_stack[L]
    BY <1>0, <1>3 DEF EditorOK
  <2>4. nd \in Draft /\ Patched(nd, e.undo_stack[L]) = Patched(e.draft, e.undo_stack[L])
    <3>1. nd \in Draft
      BY <1>0, ChunkUndoes
    <3> QED BY <1>0, <2>3, <3>1, ChunkHides
  <2>5. h \in [0 .. L -> Draft] /\ h[0] = e.baseline /\ h[L] = e.draft
        /\ \A i \in 1 .. L : h[i - 1] = Patched(h[i], e.undo_stack[i])
    BY <1>1 DEF Steps
  <2> HIDE DEF nd, L
  <2>6. k \in [0 .. L -> Draft] /\ k[0] = e.baseline /\ k[L] = nd
    BY <1>0, <2>3, <2>4, <2>5
  <2>7. ASSUME NEW i \in 1 .. L PROVE k[i - 1] = Patched(k[i], e.undo_stack[i])
    <3>1. i - 1 \in 0 .. L /\ i - 1 # L /\ i \in 0 .. L
      BY <1>0
    <3>2. k[i - 1] = h[i - 1] /\ h[i - 1] = Patched(h[i], e.undo_stack[i])
      BY <2>5, <3>1
    <3>3. CASE i = L
      BY <2>4, <2>5, <2>6, <3>2, <3>3
    <3>4. CASE i # L
      BY <3>1, <3>2, <3>4
    <3> QED BY <3>3, <3>4
  <2> HIDE DEF k
  <2>8. Steps(n, k)
    BY <2>2, <2>6, <2>7 DEF Steps, L
  <2> QED BY <2>1, <2>2, <2>3, <2>8 DEF EditorOK, L
<1>4. CASE e.draft[f] # v /\ ~ same
  <2> DEFINE n == [e EXCEPT !.draft[f] = v, !.active_field = f, !.undo_stack = Append(@, ch)]
             st == Append(e.undo_stack, ch)
             k == [i \in 0 .. L + 1 |-> IF i = L + 1 THEN nd ELSE h[i]]
  <2>1. apply_field_edit(e, f, v) = n
    BY <1>0, <1>4 DEF apply_field_edit, Editor
  <2>2. nd \in Draft /\ ch \in Chunk /\ Patched(nd, ch) = e.draft /\ DOMAIN ch = {f}
    BY <1>0, ChunkUndoes
  <2>3. /\ st \in Seq(Chunk) /\ Len(st) = L + 1
        /\ \A i \in 1 .. L : st[i] = e.undo_stack[i]
        /\ st[L + 1] = ch
    <3> HIDE DEF ch
    <3> QED BY <1>0, <2>2, AppendProperties
  <2>4. /\ n \in Editor /\ n.undo_stack = st /\ n.baseline = e.baseline
        /\ n.draft = nd /\ n.active_field = f
    <3> HIDE DEF ch
    <3> QED BY <1>0, <2>2, <2>3 DEF Editor
  <2> HIDE DEF n
  <2>5. h \in [0 .. L -> Draft] /\ h[0] = e.baseline /\ h[L] = e.draft
        /\ \A i \in 1 .. L : h[i - 1] = Patched(h[i], e.undo_stack[i])
    BY <1>1 DEF Steps
  <2> HIDE DEF nd, L, st, ch
  <2>6. k \in [0 .. L + 1 -> Draft] /\ k[0] = e.baseline /\ k[L + 1] = nd
    BY <1>0, <2>2, <2>5
  <2>7. ASSUME NEW i \in 1 .. L + 1 PROVE k[i - 1] = Patched(k[i], st[i])
    <3>1. i - 1 \in 0 .. L + 1 /\ i - 1 # L + 1 /\ i \in 0 .. L + 1 /\ k[i - 1] = h[i - 1]
      BY <1>0
    <3>2. CASE i = L + 1
      <4>1. h[i - 1] = e.draft
        BY <1>0, <2>5, <3>2
      <4> QED BY <2>2, <2>3, <2>6, <3>1, <3>2, <4>1
    <3>3. CASE i # L + 1
      <4>1. i \in 1 .. L
        BY <1>0, <3>3
      <4> QED BY <2>3, <2>5, <3>1, <3>3, <4>1
    <3> QED BY <3>2, <3>3
  <2> HIDE DEF k
  <2>8. Steps(n, k)
    BY <2>3, <2>4, <2>6, <2>7 DEF Steps
  <2> QED BY <2>1, <2>2, <2>3, <2>4, <2>8 DEF EditorOK
<1> QED BY <1>2, <1>3, <1>4

LEMMA UndoOK ==
    ASSUME NEW e, EditorOK(e)
    PROVE  EditorOK(undo_last_chunk(e))
<1>1. CASE e.undo_stack = << >>
  BY <1>1, CloseOK DEF undo_last_chunk
<1>2. CASE e.undo_stack # << >>
  <2> DEFINE L == Len(e.undo_stack)
             st == Front(e.undo_stack)
             nd == Patched(e.draft, Last(e.undo_stack))
             n == [e EXCEPT !.draft = nd, !.undo_stack = st]
             u == close_active_chunk(n)
  <2>1. undo_last_chunk(e) = u
    BY <1>2 DEF undo_last_chunk
  <2>2. /\ e \in Editor /\ e.undo_stack \in Seq(Chunk) /\ L \in Nat /\ L > 0
    BY <1>2, EmptySeq, LenProperties DEF EditorOK, Editor
  <2>3. PICK h : Steps(e, h)
    BY DEF EditorOK
  <2>4. h \in [0 .. L -> Draft] /\ h[0] = e.baseline /\ h[L] = e.draft
        /\ \A i \in 1 .. L : h[i - 1] = Patched(h[i], e.undo_stack[i])
    BY <2>3 DEF Steps
  <2>5. /\ st \in Seq(Chunk) /\ Len(st) = L - 1
        /\ \A i \in 1 .. L - 1 : st[i] = e.undo_stack[i]
    BY <2>2, SubSeqProperties DEF Front
  <2>6. Last(e.undo_stack) = e.undo_stack[L]
    BY DEF Last
  <2>7. nd = h[L - 1] /\ nd \in Draft
    BY <2>2, <2>4, <2>6
  <2> HIDE DEF nd, st
  <2>8. /\ u \in Editor /\ u.undo_stack = st /\ u.baseline = e.baseline
        /\ u.draft = nd /\ u.active_field = "none"
    BY <2>2, <2>5, <2>7 DEF close_active_chunk, Editor
  <2> HIDE DEF u, L
  <2> DEFINE k == [i \in 0 .. L - 1 |-> h[i]]
  <2>9. k \in [0 .. L - 1 -> Draft] /\ k[0] = e.baseline /\ k[L - 1] = nd
    BY <2>2, <2>4, <2>7
  <2>10. ASSUME NEW i \in 1 .. L - 1 PROVE k[i - 1] = Patched(k[i], st[i])
    <3>1. i - 1 \in 0 .. L - 1 /\ i \in 0 .. L - 1 /\ i \in 1 .. L
      BY <2>2
    <3> QED BY <2>4, <2>5, <3>1
  <2> HIDE DEF k
  <2>11. Steps(u, k)
    BY <2>5, <2>8, <2>9, <2>10 DEF Steps
  <2> QED BY <2>1, <2>8, <2>11 DEF EditorOK
<1> QED BY <1>1, <1>2

\* The least number of a set, on which the induction over the stack rests
LEMMA LeastNumber ==
    ASSUME NEW T, T \subseteq Nat, T # {}
    PROVE  \E n \in T : \A m \in T : n <= m
<1> DEFINE R == OpToRel(<, Nat)
<1>1. IsWellFoundedOn(R, Nat)
  BY NatLessThanWellFounded
<1>2. \A x, y \in T : <<y, x>> \in R <=> y < x
  BY DEF OpToRel
<1> HIDE DEF R
<1>3. PICK x \in T : \A y \in T : ~ (<<y, x>> \in R)
  BY <1>1, WFMin
<1>4. \A y \in T : ~ (y < x)
  BY <1>2, <1>3
<1>5. \A y \in T : x <= y
  BY <1>4
<1> QED BY <1>5

BackStep(e, g) ==
    [n \in 0 .. Len(e.undo_stack) |->
        IF n = 0 THEN e.draft
        ELSE Patched(g[n - 1], e.undo_stack[Len(e.undo_stack) + 1 - n])]

Back(e) == CHOOSE g : g = BackStep(e, g)

LEMMA UndoIsBack == UndoRestores <=> Back(editor)[Len(editor.undo_stack)] = editor.baseline
BY Zenon DEF UndoRestores, Back, BackStep

LEMMA BackIsBaseline ==
    ASSUME NEW e, EditorOK(e)
    PROVE  Back(e)[Len(e.undo_stack)] = e.baseline
<1> DEFINE L == Len(e.undo_stack)
<1>0. L \in Nat
  BY LenProperties DEF EditorOK, Editor
<1>1. PICK h : Steps(e, h)
  BY DEF EditorOK
<1>2. h \in [0 .. L -> Draft] /\ h[0] = e.baseline /\ h[L] = e.draft
      /\ \A i \in 1 .. L : h[i - 1] = Patched(h[i], e.undo_stack[i])
  BY <1>1 DEF Steps
<1> HIDE DEF L
<1> DEFINE g == [n \in 0 .. L |-> h[L - n]]
<1>3. ASSUME NEW n \in 0 .. L, n # 0
      PROVE  g[n] = Patched(g[n - 1], e.undo_stack[L + 1 - n])
  <2>1. /\ L + 1 - n \in 1 .. L /\ n - 1 \in 0 .. L
        /\ (L + 1 - n) - 1 = L - n /\ L - (n - 1) = L + 1 - n
    BY <1>0, <1>3
  <2>2. h[L - n] = Patched(h[L + 1 - n], e.undo_stack[L + 1 - n])
    BY <1>2, <2>1
  <2>3. g[n] = h[L - n] /\ g[n - 1] = h[L + 1 - n]
    BY <2>1
  <2> HIDE DEF g
  <2> QED BY <2>2, <2>3
<1>4. g[0] = e.draft /\ g[L] = e.baseline
  <2>1. 0 \in 0 .. L /\ L \in 0 .. L /\ L - 0 = L /\ L - L = 0
    BY <1>0
  <2> QED BY <1>2, <2>1
<1>5. g = BackStep(e, g)
  <2>1. g = [n \in 0 .. L |-> IF n = 0 THEN e.draft
                              ELSE Patched(g[n - 1], e.undo_stack[L + 1 - n])]
    BY <1>3, <1>4
  <2> HIDE DEF g
  <2> QED BY <2>1 DEF BackStep, L
<1> HIDE DEF g
<1>6. Back(e) = BackStep(e, Back(e))
  BY <1>5 DEF Back
<1> DEFINE b == Back(e)
<1>7. /\ b[0] = e.draft
      /\ \A n \in 0 .. L : n # 0 => b[n] = Patched(b[n - 1], e.undo_stack[L + 1 - n])
  <2> HIDE DEF b
  <2>1. b = BackStep(e, b)
    BY <1>6 DEF b
  <2>2. b = [n \in 0 .. L |-> IF n = 0 THEN e.draft
                              ELSE Patched(b[n - 1], e.undo_stack[L + 1 - n])]
    BY <2>1 DEF BackStep, L
  <2> QED BY <1>0, <2>2
<1> DEFINE T == {n \in 0 .. L : b[n] # g[n]}
<1>8. ASSUME T # {} PROVE FALSE
  <2>0. T \subseteq Nat
    OBVIOUS
  <2>1. PICK n \in T : \A m \in T : n <= m
    <3> HIDE DEF T
    <3> QED BY <1>8, <2>0, LeastNumber
  <2> HIDE DEF b
  <2>2. n # 0 /\ n \in 0 .. L /\ b[n] # g[n]
    BY <1>4, <1>7, <2>1
  <2>3. n - 1 \in 0 .. L /\ n - 1 \notin T
    BY <1>0, <2>1, <2>2
  <2>4. b[n - 1] = g[n - 1]
    BY <2>3
  <2> QED BY <1>3, <1>7, <2>2, <2>4
<1>9. b[L] = g[L]
  BY <1>0, <1>8
<1> QED BY <1>4, <1>9 DEF L

----------------------------------------------------------------------------
\* The page

PageInv ==
    /\ view \in {"new", "detail", "error"} /\ row \in Row \cup {NoRow}
    /\ loaded \in Draft /\ pending \in BOOLEAN /\ saving \in BOOLEAN /\ edits \in 0 .. MaxEdits
    /\ EditorOK(editor)
    /\ \A s \in asked : /\ s.q \in DOMAIN req /\ s.from \in {"new", "detail"}
                        /\ req[s.q].op \in {"create", "update"}
    /\ load # NoLoad => /\ load.q \in DOMAIN req /\ req[load.q].op = "fetch"
                        /\ load.row \in Row \cup {NoRow}

Inv == RoutesInv /\ PageInv

LEMMA ValsTyped ==
    ASSUME NEW rec \in Rec
    PROVE  Vals(rec) \in Draft
BY DEF Vals, Rec, Cell, Draft

LEMMA InitInv == Init => Inv
<1> SUFFICES ASSUME Init PROVE Inv
  OBVIOUS
<1>1. Row0 \in Rec /\ Vals(Row0) \in Draft
  <2>1. Row0 \in Rec
    BY RoutesAssumption DEF Row0, Rec, Cell
  <2> QED BY <2>1, ValsTyped
<1>2. req = << >> /\ req \in Seq(Request) /\ Len(req) = 0 /\ DOMAIN req = {}
  BY DEF Init, RInit
<1>3. RoutesType
  BY <1>1, <1>2, RoutesAssumption DEF Init, RInit, RoutesType
<1>4. RoutesInv
  BY <1>2, <1>3 DEF RoutesInv, GoneLogged, Init, RInit
<1>5. loaded \in Draft /\ view \in {"new", "detail", "error"} /\ row \in Row \cup {NoRow}
  BY <1>1, RoutesAssumption, PageAssumption DEF Init, RInit, Draft
<1>6. EditorOK(editor)
  BY <1>5, SnapshotOK DEF Init
<1>7. pending = FALSE /\ saving = FALSE /\ asked = {} /\ load = NoLoad /\ edits = 0
  BY DEF Init
<1>8. PageInv
  <2>1. edits \in 0 .. MaxEdits
    BY <1>7, PageAssumption
  <2>2. \A s \in asked : /\ s.q \in DOMAIN req /\ s.from \in {"new", "detail"}
                         /\ req[s.q].op \in {"create", "update"}
    BY <1>7
  <2> QED BY <1>5, <1>6, <1>7, <2>1, <2>2 DEF PageInv
<1> QED BY <1>4, <1>8 DEF Inv

\* Requests are never forgotten and never become something else.
RequestsKept == \A p \in DOMAIN req : p \in DOMAIN req' /\ req'[p].op = req[p].op

LEMMA AskedKept ==
    ASSUME PageInv, RequestsKept
    PROVE  /\ \A s \in asked : /\ s.q \in DOMAIN req' /\ s.from \in {"new", "detail"}
                               /\ req'[s.q].op \in {"create", "update"}
           /\ load # NoLoad => /\ load.q \in DOMAIN req' /\ req'[load.q].op = "fetch"
                               /\ load.row \in Row \cup {NoRow}
BY DEF PageInv, RequestsKept

LEMMA RoutesUnchanged ==
    ASSUME RoutesInv, UNCHANGED routes
    PROVE  RoutesInv' /\ RequestsKept
<1>1. rows' = rows /\ ids' = ids /\ trail' = trail /\ req' = req
  BY DEF routes
<1>2. RoutesType' /\ GoneLogged' /\ RequestsKept
  BY <1>1 DEF RoutesInv, RoutesType, GoneLogged, RequestsKept
<1>3. ASSUME NEW q \in DOMAIN req PROVE OwnInv(q)'
  <2>1. OwnInv(q)
    BY DEF RoutesInv
  <2>2. Ended' = Ended
    BY <1>1 DEF Ended
  <2> QED BY <1>1, <2>1, <2>2
       DEF OwnInv, Stage, Trailed, PatchThere, MergeFresh, Overlapped
<1> QED BY <1>1, <1>2, <1>3 DEF RoutesInv

LEMMA ArrivedKeeps ==
    ASSUME NEW op, Arrived(op)
    PROVE  RequestsKept
BY DEF Arrived, RequestsKept

\* A step of the form or of its editor alone.
LEMMA FormStep ==
    ASSUME Inv, UNCHANGED <<routes, view, row, loaded, pending, saving, asked, load>>,
           EditorOK(editor'), edits' \in 0 .. MaxEdits
    PROVE  Inv'
<1>1. RoutesInv' /\ RequestsKept
  BY RoutesUnchanged DEF Inv
<1>2. PageInv'
  BY <1>1, AskedKept DEF PageInv, Inv
<1> QED BY <1>1, <1>2 DEF Inv

LEMMA FieldSteps ==
    ASSUME Inv,
           \/ \E f \in Field, v \in Value : FieldChange(f, v)
           \/ LeaveField \/ Undo \/ RefreshNew
    PROVE  Inv'
<1>0. EditorOK(editor) /\ loaded \in Draft /\ edits \in 0 .. MaxEdits
  BY DEF Inv, PageInv
<1>1. ASSUME NEW f \in Field, NEW v \in Value, FieldChange(f, v) PROVE Inv'
  <2>1. EditorOK(editor')
    BY <1>0, <1>1, EditOK DEF FieldChange
  <2>2. edits' \in 0 .. MaxEdits
    BY <1>0, <1>1, PageAssumption DEF FieldChange
  <2> QED BY <1>1, <2>1, <2>2, FormStep DEF FieldChange
<1>2. CASE LeaveField
  BY <1>0, <1>2, CloseOK, FormStep DEF LeaveField
<1>3. CASE Undo
  BY <1>0, <1>3, UndoOK, FormStep DEF Undo
<1>4. CASE RefreshNew
  BY <1>0, <1>4, SnapshotOK, FormStep DEF RefreshNew
<1> QED BY <1>1, <1>2, <1>3, <1>4

LEMMA SaveStep ==
    ASSUME Inv, NEW op \in {"create", "update"}, NEW body \in Body,
           op = "create" => DOMAIN body = Field, SendSave(op, body),
           view \in {"new", "detail"}
    PROVE  Inv'
<1>0. /\ UNCHANGED <<rows, ids, trail, view, row, loaded, pending, load, edits>>
      /\ Receive(op, row, body) /\ asked' = asked \cup {[q |-> Len(req'), from |-> view]}
      /\ saving' = TRUE /\ editor' = close_active_chunk(editor)
  BY DEF SendSave
<1>1. RoutesInv' /\ Arrived(op)
  BY <1>0, ReceiveKeeps DEF Inv, PageInv, Op
<1>2. RequestsKept
  BY <1>1, ArrivedKeeps
<1>3. EditorOK(editor')
  BY <1>0, CloseOK DEF Inv, PageInv
<1>4. Len(req') \in DOMAIN req' /\ req'[Len(req')].op = op
  BY <1>1 DEF Arrived
<1>5. PageInv'
  <2>1. \A s \in asked' : /\ s.q \in DOMAIN req' /\ s.from \in {"new", "detail"}
                          /\ req'[s.q].op \in {"create", "update"}
    BY <1>0, <1>2, <1>4, AskedKept DEF Inv
  <2>2. load' # NoLoad => /\ load'.q \in DOMAIN req' /\ req'[load'.q].op = "fetch"
                          /\ load'.row \in Row \cup {NoRow}
    BY <1>0, <1>2, AskedKept DEF Inv
  <2> QED BY <1>0, <1>3, <2>1, <2>2 DEF PageInv, Inv
<1> QED BY <1>1, <1>5 DEF Inv

LEMMA ChangedIsBody ==
    ASSUME NEW e \in Editor
    PROVE  compute_changed_fields(e) \in Body
<1> DEFINE S == {g \in Field : e.baseline[g] # e.draft[g]}
<1>1. compute_changed_fields(e) \in [S -> Value] /\ S \in SUBSET Field
  BY DEF compute_changed_fields, Editor, Draft
<1> HIDE DEF S
<1> QED BY <1>1 DEF Body

LEMMA SaveSteps ==
    ASSUME Inv, SaveNew \/ SaveDetail
    PROVE  Inv'
<1>0. editor \in Editor /\ editor.draft \in Draft
  BY DEF Inv, PageInv, EditorOK, Editor
<1>1. CASE SaveNew
  <2>1. editor.draft \in Body /\ DOMAIN editor.draft = Field
    BY <1>0 DEF Body, Draft
  <2> QED BY <1>1, <2>1, SaveStep DEF SaveNew
<1>2. CASE SaveDetail
  BY <1>0, <1>2, ChangedIsBody, SaveStep DEF SaveDetail
<1> QED BY <1>1, <1>2

LEMMA LoadStarts ==
    ASSUME Inv, NEW r \in Row \cup {NoRow}, StartLoad(r), UNCHANGED <<rows, ids, trail>>
    PROVE  /\ RoutesInv' /\ RequestsKept
           /\ load'.q \in DOMAIN req' /\ req'[load'.q].op = "fetch"
           /\ load'.row \in Row \cup {NoRow}
<1>1. Receive("fetch", r, << >>) /\ load' = [q |-> Len(req'), row |-> r]
  BY DEF StartLoad
<1>2. RoutesInv' /\ Arrived("fetch")
  BY <1>1, EmptyBody, ReceiveKeeps DEF Inv, Op
<1> QED BY <1>1, <1>2, ArrivedKeeps DEF Arrived

LEMMA LoadSteps ==
    ASSUME Inv, on_refresh \/ Revalidate
    PROVE  Inv'
<1>0. EditorOK(editor) /\ loaded \in Draft /\ row \in Row \cup {NoRow}
  BY DEF Inv, PageInv
<1>1. /\ StartLoad(row) /\ UNCHANGED <<rows, ids, trail, view, row, loaded, saving, asked, edits>>
      /\ editor' \in {editor, create_editor_snapshot(loaded)} /\ pending' \in BOOLEAN
  BY DEF on_refresh, Revalidate, Inv, PageInv
<1>2. /\ RoutesInv' /\ RequestsKept
      /\ load'.q \in DOMAIN req' /\ req'[load'.q].op = "fetch"
      /\ load'.row \in Row \cup {NoRow}
  BY <1>0, <1>1, LoadStarts
<1>3. EditorOK(editor')
  BY <1>0, <1>1, SnapshotOK
<1>4. PageInv'
  BY <1>1, <1>2, <1>3, AskedKept DEF PageInv, Inv
<1> QED BY <1>2, <1>4 DEF Inv

\* What is answered with success has a record to show.
LEMMA AnswerHasRecord ==
    ASSUME RoutesInv, NEW q \in DOMAIN req, req[q].ans = "ok", req[q].op # "delete"
    PROVE  Vals(req[q].rec) \in Draft /\ req[q].row \in Row
<1>1. req[q].rec \in Rec /\ req[q].row \in ids
  BY DEF RoutesInv, OwnInv, Stage
<1> QED BY <1>1, ValsTyped DEF RoutesInv, RoutesType

LEMMA AnswerSteps ==
    ASSUME Inv, NEW s \in asked, CreateAnswered(s) \/ UpdateAnswered(s)
    PROVE  Inv'
<1>0. /\ EditorOK(editor) /\ s.q \in DOMAIN req /\ req[s.q].op \in {"create", "update"}
      /\ RoutesInv
  BY DEF Inv, PageInv
<1>1. /\ UNCHANGED <<rows, ids, trail, view, row, loaded, pending, edits>>
      /\ asked' = asked \ {s} /\ saving' \in BOOLEAN
  BY DEF CreateAnswered, UpdateAnswered, Answers, Inv, PageInv
<1>2. ASSUME NEW r \in Row \cup {NoRow}, StartLoad(r), EditorOK(editor') PROVE Inv'
  <2>1. /\ RoutesInv' /\ RequestsKept
        /\ load'.q \in DOMAIN req' /\ req'[load'.q].op = "fetch"
        /\ load'.row \in Row \cup {NoRow}
    BY <1>1, <1>2, LoadStarts
  <2>2. PageInv'
    BY <1>1, <1>2, <2>1, AskedKept DEF PageInv, Inv
  <2> QED BY <2>1, <2>2 DEF Inv
<1>3. ASSUME UNCHANGED <<req, load>>, EditorOK(editor') PROVE Inv'
  <2>1. RoutesInv' /\ RequestsKept
    BY <1>0, <1>1, <1>3, RoutesUnchanged DEF routes
  <2>2. PageInv'
    BY <1>1, <1>3, <2>1, AskedKept DEF PageInv, Inv
  <2> QED BY <2>1, <2>2 DEF Inv
<1>4. CASE CreateAnswered(s)
  <2>1. EditorOK(editor')
    BY <1>0, <1>4 DEF CreateAnswered
  <2>2. CASE req[s.q].ans = "ok"
    <3>1. req[s.q].row \in Row
      BY <1>0, <2>2, AnswerHasRecord
    <3> QED BY <1>2, <1>4, <2>1, <2>2, <3>1 DEF CreateAnswered
  <2>3. CASE req[s.q].ans # "ok"
    BY <1>3, <1>4, <2>1, <2>3 DEF CreateAnswered
  <2> QED BY <2>2, <2>3
<1>5. CASE UpdateAnswered(s)
  <2>1. req[s.q].ans = "ok" => EditorOK(create_editor_snapshot(Vals(req[s.q].rec)))
    BY <1>0, AnswerHasRecord, SnapshotOK
  <2>2. EditorOK(editor')
    BY <1>0, <1>5, <2>1 DEF UpdateAnswered
  <2> QED BY <1>3, <1>5, <2>2 DEF UpdateAnswered
<1> QED BY <1>4, <1>5

LEMMA LandStep ==
    ASSUME Inv, LoadLands
    PROVE  Inv'
<1>1. RoutesInv' /\ RequestsKept /\ load' = NoLoad /\ UNCHANGED <<asked, edits>>
  BY RoutesUnchanged DEF LoadLands, Inv
<1>2. /\ load # NoLoad /\ load.q \in DOMAIN req /\ req[load.q].op = "fetch"
      /\ load.row \in Row \cup {NoRow} /\ EditorOK(editor)
  BY DEF LoadLands, Inv, PageInv
<1>3. /\ EditorOK(editor') /\ loaded' \in Draft /\ row' \in Row \cup {NoRow}
      /\ view' \in {"new", "detail", "error"} /\ pending' = FALSE
  <2>1. CASE req[load.q].ans # "ok"
    BY <1>2, <2>1 DEF LoadLands, Inv, PageInv
  <2>2. CASE req[load.q].ans = "ok"
    <3>1. loaded' \in Draft
      BY <1>2, <2>2, AnswerHasRecord DEF LoadLands, Inv
    <3>2. EditorOK(create_editor_snapshot(loaded'))
      BY <3>1, SnapshotOK
    <3> QED BY <1>2, <2>2, <3>1, <3>2 DEF LoadLands
  <2> QED BY <2>1, <2>2
<1>4. saving' \in BOOLEAN
  <2>1. CASE req[load.q].ans # "ok"
    BY <2>1 DEF LoadLands, Inv, PageInv
  <2>2. CASE req[load.q].ans = "ok"
    BY <2>2 DEF LoadLands
  <2> QED BY <2>1, <2>2
<1>5. PageInv'
  BY <1>1, <1>3, <1>4, AskedKept DEF PageInv, Inv
<1> QED BY <1>1, <1>5 DEF Inv

LEMMA OtherStep ==
    ASSUME Inv, OtherRequest, UNCHANGED page
    PROVE  Inv'
<1>0. UNCHANGED <<rows, ids, trail>> /\ RoutesInv /\ Sent \subseteq Body /\ Start \subseteq Row
  BY RoutesAssumption DEF OtherRequest, Inv, Body
<1>1. PICK op \in Op, r \in Row \cup {NoRow}, body \in Body :
          (op = "create" => DOMAIN body = Field) /\ Receive(op, r, body)
  <2>1. CASE \E body \in Sent : DOMAIN body = Field /\ Receive("create", NoRow, body)
    BY <1>0, <2>1 DEF Op
  <2>2. CASE \E r \in Start : Receive("delete", r, << >>)
    BY <1>0, <2>2, EmptyBody DEF Op
  <2>3. CASE \E r \in Start : \E body \in Sent : Receive("update", r, body)
    BY <1>0, <2>3 DEF Op
  <2> QED BY <2>1, <2>2, <2>3 DEF OtherRequest
<1>2. RoutesInv' /\ RequestsKept
  BY <1>0, <1>1, ReceiveKeeps, ArrivedKeeps
<1>3. PageInv'
  BY <1>2, AskedKept DEF PageInv, Inv, page
<1> QED BY <1>2, <1>3 DEF Inv

LEMMA HandlerInv ==
    ASSUME Inv, NEW q \in DOMAIN req, HandlerStep(q), UNCHANGED page
    PROVE  Inv'
<1>1. HStep(q) /\ RoutesInv'
  BY EveryHandlerStep, HandlerKeeps DEF Inv
<1>2. RequestsKept
  BY <1>1 DEF RequestsKept, HStep, SameRequest, Moved
<1>3. PageInv'
  BY <1>2, AskedKept DEF PageInv, Inv, page
<1> QED BY <1>1, <1>3 DEF Inv

LEMMA NextInv == Inv /\ [Next]_vars => Inv'
<1> SUFFICES ASSUME Inv, [Next]_vars PROVE Inv'
  OBVIOUS
<1>1. CASE UNCHANGED vars
  <2>1. RoutesInv' /\ RequestsKept /\ UNCHANGED page
    BY <1>1, RoutesUnchanged DEF vars, Inv
  <2>2. PageInv'
    BY <2>1, AskedKept DEF PageInv, Inv, page
  <2> QED BY <2>1, <2>2 DEF Inv
<1>2. CASE Next
  BY <1>2, FieldSteps, SaveSteps, LoadSteps, AnswerSteps, LandStep, HandlerInv, OtherStep DEF Next
<1> QED BY <1>1, <1>2

\* The invariant: where each request is and what it has read, logged and
\* is about to write; what the page waits for; and that the undo stack
\* leads from the draft to the baseline.
THEOREM RecordsInvariant == Spec => []Inv
BY InitInv, NextInv, PTL DEF Spec

\* TypeOK of the page and of the routes.
THEOREM PageTyped == Spec => []PageTypeOK
<1>1. Inv => PageTypeOK
  <2> SUFFICES ASSUME Inv PROVE PageTypeOK
    OBVIOUS
  <2>1. editor.baseline \in Draft /\ editor.draft \in Draft /\ editor.active_field \in Field \cup {"none"}
    BY DEF Inv, PageInv, EditorOK, Editor
  <2>2. RoutesTypeOK
    <3>1. \A q \in DOMAIN req : req[q] \in Request
      BY RequestTyped DEF Inv
    <3> QED BY <3>1 DEF Inv, RoutesInv, RoutesType, RoutesTypeOK, Request, MaybeRec, Rec, Cell, Op, Pc, Ans
  <2> QED BY <2>1, <2>2 DEF PageTypeOK, Inv, PageInv, Draft
<1> QED BY <1>1, RecordsInvariant, PTL

\* The audit log covers every row that is gone and every success told to a
\* client (TrailCovers), however the handlers fail, die or interleave.
THEOREM TrailIsComplete == Spec => []TrailCovers
<1>1. Inv => TrailCovers
  BY DEF Inv, RoutesInv, GoneLogged, OwnInv, Trailed, TrailCovers, Answered
<1> QED BY <1>1, RecordsInvariant, PTL

\* An update answers with the values it was sent or was overlapped by
\* another (AnswerHasPatch).
THEOREM AnswersHavePatch == Spec => []AnswerHasPatch
<1>1. Inv => AnswerHasPatch
  BY DEF Inv, RoutesInv, OwnInv, PatchThere, AnswerHasPatch, Answered
<1> QED BY <1>1, RecordsInvariant, PTL

\* Undoing every chunk of the stack leads to the baseline (UndoRestores).
THEOREM UndoLeadsBack == Spec => []UndoRestores
<1>1. Inv => UndoRestores
  BY BackIsBaseline, UndoIsBack DEF Inv, PageInv
<1> QED BY <1>1, RecordsInvariant, PTL

LEMMA ReceiveAppends ==
    ASSUME Inv, NEW op, NEW r, NEW body, Receive(op, r, body)
    PROVE  \A p \in DOMAIN req : req'[p] = req[p]
BY LenProperties DEF Receive, Inv, RoutesInv, RoutesType

\* Outside the handlers nothing changes but that a request may arrive.
LEMMA OnlyHandlersAct ==
    ASSUME Inv, [Next]_vars
    PROVE  \/ \E q \in DOMAIN req : HandlerStep(q)
           \/ rows' = rows /\ \A p \in DOMAIN req : req'[p] = req[p]
<1>1. CASE UNCHANGED vars
  BY <1>1 DEF vars, routes
<1>2. CASE \E f \in Field, v \in Value : FieldChange(f, v)
  BY <1>2 DEF FieldChange, routes
<1>3. CASE LeaveField \/ Undo \/ RefreshNew \/ LoadLands
  BY <1>3 DEF LeaveField, Undo, RefreshNew, LoadLands, routes
<1>4. CASE SaveNew \/ SaveDetail
  BY <1>4, ReceiveAppends DEF SaveNew, SaveDetail, SendSave
<1>5. CASE on_refresh \/ Revalidate
  BY <1>5, ReceiveAppends DEF on_refresh, Revalidate, StartLoad
<1>6. CASE \E s \in asked : CreateAnswered(s) \/ UpdateAnswered(s)
  BY <1>6, ReceiveAppends DEF CreateAnswered, UpdateAnswered, Answers, StartLoad
<1>7. CASE OtherRequest
  BY <1>7, ReceiveAppends DEF OtherRequest
<1> QED BY <1>1, <1>2, <1>3, <1>4, <1>5, <1>6, <1>7 DEF Next

\* A deleted row never comes back (RowsNeverReturn).
THEOREM DeletedStayAway == Spec => RowsNeverReturn
<1>1. Inv /\ [Next]_vars => [(DOMAIN rows' \ DOMAIN rows) \cap ids = {}]_routes
  <2> SUFFICES ASSUME Inv, [Next]_vars PROVE (DOMAIN rows' \ DOMAIN rows) \cap ids = {}
    OBVIOUS
  <2>1. CASE rows' = rows
    BY <2>1
  <2>2. ASSUME NEW q \in DOMAIN req, HandlerStep(q)
        PROVE  (DOMAIN rows' \ DOMAIN rows) \cap ids = {}
    <3>1. TouchesOwn(q)
      BY <2>2, EveryHandlerStep DEF Inv, HStep
    <3> QED BY <3>1 DEF TouchesOwn
  <2> QED BY <2>1, <2>2, OnlyHandlersAct
<1> QED BY <1>1, RecordsInvariant, PTL DEF Spec, RowsNeverReturn

\* From a write, a handler goes on by writing only.
LEMMA WriteIsNext ==
    ASSUME Inv, NEW q \in DOMAIN req, NEW p \in DOMAIN req, HandlerStep(q),
           req[p].pc \in {"write", "rewrite"}, req'[p].pc \in {"audit", "note"}
    PROVE  p = q /\ store_update_write(q)
<1>1. HStep(q)
  BY EveryHandlerStep DEF Inv
<1>2. p = q
  BY <1>1 DEF HStep, SameRequest, Moved
<1>3. ASSUME Die(q) PROVE FALSE
  <2>1. Moved(q, [req[q] EXCEPT !.pc = "end", !.ans = "lost"])
    BY <1>3, AnswerMoves, RequestTyped DEF Die, Ans, Inv
  <2>2. [req[q] EXCEPT !.pc = "end", !.ans = "lost"].pc = "end"
    BY RequestTyped DEF Request, Inv
  <2> QED BY <1>2, <2>1, <2>2 DEF Moved
<1> QED BY <1>2, <1>3 DEF HandlerStep, fetch_record, update_record, delete_record, fetch_by_locator,
           store_create, store_delete, store_update_read, Reply, create_event, update_event,
           delete_event, EventAt, CompensateEvent, RestoreEvent

\* A write takes a field it was not asked to change back to an older value
\* only when another update overlaps (OverwritesOnlyOverlapping).
THEOREM OnlyOverlapsOverwritten == Spec => OverwritesOnlyOverlapping
<1> DEFINE Kept(q) ==
      LET x == req[q] IN
      (x.pc \in {"write", "rewrite"} /\ req'[q].pc \in {"audit", "note"}
         /\ x.row \in DOMAIN rows) =>
         \A f \in Field :
             \/ rows'[x.row][f] = rows[x.row][f] \/ rows[x.row][f].by = q
             \/ f \in DOMAIN x.body /\ x.pc = "write"
             \/ Overlapped(q, IF f \in DOMAIN x.body THEN x.known ELSE x.fresh)
<1>1. ASSUME Inv, [Next]_vars, NEW p \in DOMAIN req,
             req[p].pc \in {"write", "rewrite"}, req'[p].pc \in {"audit", "note"},
             req[p].row \in DOMAIN rows, NEW f \in Field
      PROVE  \/ rows'[req[p].row][f] = rows[req[p].row][f] \/ rows[req[p].row][f].by = p
             \/ f \in DOMAIN req[p].body /\ req[p].pc = "write"
             \/ Overlapped(p, IF f \in DOMAIN req[p].body THEN req[p].known ELSE req[p].fresh)
  <2>1. PICK q \in DOMAIN req : HandlerStep(q)
    BY <1>1, OnlyHandlersAct
  <2>2. store_update_write(p)
    BY <1>1, <2>1, WriteIsNext
  <2>3. rows'[req[p].row] = req[p].merged
    BY <1>1, <2>2 DEF store_update_write
  <2>4. MergeFresh(p, req[p]) /\ req[p].op = "update"
    BY <1>1 DEF Inv, RoutesInv, OwnInv, Stage
  <2>5. CASE f \notin DOMAIN req[p].body
    BY <1>1, <2>3, <2>4, <2>5 DEF MergeFresh
  <2>6. CASE f \in DOMAIN req[p].body /\ req[p].pc = "rewrite"
    BY <1>1, <2>3, <2>4, <2>6 DEF MergeFresh
  <2> QED BY <1>1, <2>5, <2>6
<1>2. Inv /\ [Next]_vars => [\A q \in DOMAIN req : Kept(q)]_routes
  BY <1>1
<1> QED BY <1>2, RecordsInvariant, PTL DEF Spec, OverwritesOnlyOverlapping

=============================================================================
