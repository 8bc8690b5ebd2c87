---------------------------- MODULE RecordRoutes ----------------------------
(***************************************************************************)
(* The record routes of one class (records/v2_router_factory.py) over its  *)
(* table (persistence/store.py) and the audit log (audit/file_sink.py).    *)
(*                                                                         *)
(* The routes run in threads with a connection each, and the store commits *)
(* every statement that writes: a handler is a sequence of steps between   *)
(* which the others run.  A field's cell is its value and, as history, the *)
(* request whose body it came from (0: there at first).  A row id stands   *)
(* for the UUID and the friendly id, both fresh at every insert.  What an  *)
(* update of system_config notifies is in SettingsCache.                   *)
(***************************************************************************)
EXTENDS Integers, Sequences, FiniteSets, SequencesExt

CONSTANTS
    Row, Start,      \* row ids, and the rows there at first
    Field, Value,    \* author attributes, values
    First,           \* the values of the rows there at first
    Sent,            \* the bodies other clients send
    MaxRequests      \* bound: requests in a behaviour

ASSUME RoutesAssumption ==
    /\ Start \subseteq Row /\ First \in [Field -> Value]
    /\ Sent \subseteq UNION { [S -> Value] : S \in SUBSET Field }
    /\ MaxRequests \in Nat

VARIABLES
    rows,   \* the table: a function from the ids of its rows
    ids,    \* ids handed out so far
    trail,  \* the audit log: the set of <<event, row>> written
    req     \* the requests, in the order they arrived

routes == <<rows, ids, trail, req>>

Body == UNION { [S -> Value] : S \in SUBSET Field }
Row0 == [f \in Field |-> [val |-> First[f], by |-> 0]]
Vals(rec) == [f \in DOMAIN rec |-> rec[f].val]
Stamp(q, body) == [f \in DOMAIN body |-> [val |-> body[f], by |-> q]]
NoRow == "none"

\* The values of changes, and of rec where changes has none: {...rec, ...changes}
Patched(rec, changes) ==
    [f \in DOMAIN rec \cup DOMAIN changes |->
        IF f \in DOMAIN changes THEN changes[f] ELSE rec[f]]

\* Requests that were answered with success
Answered == { q \in DOMAIN req : req[q].ans = "ok" }

\* Requests whose handler is over, with whatever answer or none
Ended == { q \in DOMAIN req : req[q].pc = "end" }

RInit ==
    /\ rows = [r \in Start |-> Row0]
    /\ ids = Start
    /\ trail = {}
    /\ req = << >>

----------------------------------------------------------------------------
\* Steps of a handler

\* A request arrives; require_class_operation has granted it
Receive(op, r, body) ==
    /\ Len(req) < MaxRequests
    /\ req' = Append(req, [op |-> op, row |-> r, body |-> body,
                           pc |-> IF op = "create" THEN "insert" ELSE "locate",
                           ans |-> "none", rec |-> << >>,
                           before |-> << >>, merged |-> << >>,  \* update_record, store.update
                           known |-> {}, fresh |-> {}])         \* Ended at their reads

Go(q, pc) == req' = [req EXCEPT ![q].pc = pc]
Answer(q, ans) == req' = [req EXCEPT ![q].pc = "end", ![q].ans = ans]
AnswerRow(q, rec) == req' = [req EXCEPT ![q].pc = "end", ![q].ans = "ok", ![q].rec = rec]

\* The locator's row: 404, or the handler goes on with it
fetch_by_locator(q, op, goOn) ==
    /\ req[q].pc = "locate" /\ req[q].op = op
    /\ IF req[q].row \in DOMAIN rows THEN goOn ELSE Answer(q, "missing")
    /\ UNCHANGED <<rows, ids, trail>>

fetch_record(q)  == fetch_by_locator(q, "fetch", AnswerRow(q, rows[req[q].row]))
delete_record(q) == fetch_by_locator(q, "delete", Go(q, "audit"))
update_record(q) ==
    fetch_by_locator(q, "update", req' = [req EXCEPT ![q].pc = "read",
                                                     ![q].before = rows[req[q].row],
                                                     ![q].known = Ended])

store_create(q) ==
    /\ req[q].pc = "insert"
    /\ \E r \in Row \ ids :
          /\ rows' = Patched(rows, [s \in {r} |-> Stamp(q, req[q].body)])
          /\ ids' = ids \cup {r}
          /\ req' = [req EXCEPT ![q].pc = "audit", ![q].row = r]
    /\ UNCHANGED trail

\* FileAuditLogger.emit: a write that fails may have reached the file
Emit(q, event, ok, ifOk, ifFailed) ==
    LET logged == trail \cup {<<event, req[q].row>>} IN
    IF ok THEN trail' = logged /\ ifOk
          ELSE trail' \in {trail, logged} /\ ifFailed

EventAt(q, op, ok, ifOk, ifFailed) ==
    /\ req[q].pc = "audit" /\ req[q].op = op
    /\ Emit(q, op, ok, ifOk, ifFailed)
    /\ UNCHANGED <<rows, ids>>

\* A bug: a delete goes on although its event could not be written
DeleteEventBestEffort(q, ok) == EventAt(q, "delete", ok, Go(q, "remove"), Go(q, "remove"))

\* Create and update are audited once they are done, a delete before
create_event(q, ok) == EventAt(q, "create", ok, Go(q, "reply"), Go(q, "drop"))
update_event(q, ok) == EventAt(q, "update", ok, Go(q, "reply"), Go(q, "reread"))
delete_event(q, ok) == EventAt(q, "delete", ok, Go(q, "remove"), Answer(q, "failed"))

\* A row created without its audit event is deleted, once that is logged
CompensateEvent(q, ok) ==
    /\ req[q].pc = "drop"
    /\ Emit(q, "delete", ok, Go(q, "undo"), Answer(q, "failed"))
    /\ UNCHANGED <<rows, ids>>

DropRow(r) == rows' = [s \in DOMAIN rows \ {r} |-> rows[s]]

store_delete(q) ==
    LET x == req[q] IN
    /\ x.pc \in {"remove", "undo"}
    /\ DropRow(x.row)
    /\ Answer(q, IF x.pc = "undo" THEN "failed"
                 ELSE IF x.row \in DOMAIN rows THEN "ok" ELSE "missing")
    /\ UNCHANGED <<ids, trail>>

\* A bug: the row read before is merged, not the row as it is now
ReadStale(q) ==
    LET x == req[q] IN
    /\ x.pc \in {"read", "reread"}
    /\ IF x.row \notin DOMAIN rows
       THEN Answer(q, IF x.pc = "read" THEN "missing" ELSE "failed")
       ELSE req' = [req EXCEPT
                ![q].pc = IF x.pc = "read" THEN "write" ELSE "rewrite",
                ![q].merged = IF x.pc = "read" THEN Patched(x.before, Stamp(q, x.body)) ELSE x.before,
                ![q].fresh = Ended]
    /\ UNCHANGED <<rows, ids, trail>>

\* store.update reads the row and merges the patch, or the values to restore
store_update_read(q) ==
    LET x == req[q]
        changes == IF x.pc = "read" THEN Stamp(q, x.body)
                   ELSE [f \in DOMAIN x.body |-> x.before[f]]
    IN
    /\ x.pc \in {"read", "reread"}
    /\ IF x.row \notin DOMAIN rows
       THEN Answer(q, IF x.pc = "read" THEN "missing" ELSE "failed")
       ELSE req' = [req EXCEPT ![q].pc = IF x.pc = "read" THEN "write" ELSE "rewrite",
                               ![q].merged = Patched(rows[x.row], changes),
                               ![q].fresh = Ended]
    /\ UNCHANGED <<rows, ids, trail>>

\* A bug: the row is inserted when it is not there
WriteUpserts(q) ==
    LET x == req[q] IN
    /\ x.pc \in {"write", "rewrite"}
    /\ rows' = Patched(rows, [s \in {x.row} |-> x.merged])
    /\ Go(q, IF x.pc = "write" THEN "audit" ELSE "note")
    /\ UNCHANGED <<ids, trail>>

\* ... and then writes every column; no row to write is not an error
store_update_write(q) ==
    LET x == req[q] IN
    /\ x.pc \in {"write", "rewrite"}
    /\ rows' = [r \in DOMAIN rows |-> IF r = x.row THEN x.merged ELSE rows[r]]
    /\ Go(q, IF x.pc = "write" THEN "audit" ELSE "note")
    /\ UNCHANGED <<ids, trail>>

RestoreEvent(q, ok) ==
    /\ req[q].pc = "note"
    /\ Emit(q, "compensate", ok, Answer(q, "failed"), Answer(q, "failed"))
    /\ UNCHANGED <<rows, ids>>

\* A bug: the record as it was before is returned
ReplyBefore(q) ==
    LET x == req[q] IN
    /\ x.pc = "reply"
    /\ IF x.row \in DOMAIN rows
       THEN AnswerRow(q, IF x.op = "update" THEN x.before ELSE rows[x.row])
       ELSE Answer(q, "missing")
    /\ UNCHANGED <<rows, ids, trail>>

\* The record is fetched again for the answer
Reply(q) ==
    LET x == req[q] IN
    /\ x.pc = "reply"
    /\ IF x.row \in DOMAIN rows THEN AnswerRow(q, rows[x.row]) ELSE Answer(q, "missing")
    /\ UNCHANGED <<rows, ids, trail>>

\* The process or the connection dies: what is committed stays
Die(q) ==
    /\ req[q].pc # "end"
    /\ Answer(q, "lost")
    /\ UNCHANGED <<rows, ids, trail>>

HandlerStep(q) ==
    \/ fetch_record(q) \/ update_record(q) \/ delete_record(q)
    \/ store_create(q) \/ store_delete(q) \/ store_update_read(q) \/ store_update_write(q)
    \/ Reply(q) \/ Die(q)
    \/ \E ok \in BOOLEAN : \/ create_event(q, ok) \/ update_event(q, ok) \/ delete_event(q, ok)
                          \/ CompensateEvent(q, ok) \/ RestoreEvent(q, ok)

\* A client of the API other than the page sends a request
OtherRequest ==
    /\ \/ \E body \in Sent : DOMAIN body = Field /\ Receive("create", NoRow, body)
       \/ \E r \in Start : \/ Receive("delete", r, << >>)
                           \/ \E body \in Sent : Receive("update", r, body)
    /\ UNCHANGED <<rows, ids, trail>>

----------------------------------------------------------------------------
\* Properties

RoutesTypeOK ==
    LET Cell == [val : Value, by : 0..MaxRequests]
        Rec == [Field -> Cell]
    IN
    /\ DOMAIN rows \subseteq ids /\ ids \subseteq Row
    /\ \A r \in DOMAIN rows : rows[r] \in Rec
    /\ trail \subseteq {"create", "update", "delete", "compensate"} \X Row
    /\ \A q \in DOMAIN req :
          /\ req[q].op \in {"create", "fetch", "update", "delete"}
          /\ req[q].row \in Row \cup {NoRow}
          /\ req[q].body \in Body
          /\ req[q].pc \in {"insert", "locate", "read", "write", "audit", "drop", "undo",
                            "remove", "reread", "rewrite", "note", "reply", "end"}
          /\ req[q].ans \in {"none", "ok", "missing", "failed", "lost"}
          /\ {req[q].rec, req[q].before, req[q].merged} \subseteq Rec \cup {<< >>}

\* A row that was deleted never comes back: an update that read it before
\* the delete, its compensation included, writes to no row.
RowsNeverReturn == [][(DOMAIN rows' \ DOMAIN rows) \cap ids = {}]_routes

\* Another update of the row of q, whose handler was not over at a read of q or
\* started after it
Overlapped(q, ended) ==
    \E p \in DOMAIN req \ {q} :
        req[p].op = "update" /\ req[p].row = req[q].row /\ p \notin ended

\* store.update reads the row again before it merges, so it takes a field
\* it was not asked to change back to an older value only if it overlaps
\* another update: one whose handler was not over when it read.  (The value it
\* undoes may come from a third, ended one, which that update had brought back.)
\* The restore after a failed audit event goes back further, to the
\* handler's first read.
OverwritesOnlyOverlapping ==
    [][ \A q \in DOMAIN req :
          LET x == req[q] IN
          (x.pc \in {"write", "rewrite"} /\ req'[q].pc \in {"audit", "note"}
             /\ x.row \in DOMAIN rows) =>
             \A f \in Field :
                 \/ rows'[x.row][f] = rows[x.row][f] \/ rows[x.row][f].by = q
                 \/ f \in DOMAIN x.body /\ x.pc = "write"
                 \/ Overlapped(q, IF f \in DOMAIN x.body THEN x.known ELSE x.fresh) ]_routes

\* The audit log covers what happened: what a client was told has been done
\* is in it, and no row is gone, by a delete or as the compensation of a
\* create, without its event, wherever a handler failed or died.
TrailCovers ==
    /\ \A r \in ids \ DOMAIN rows : <<"delete", r>> \in trail
    /\ \A q \in Answered : req[q].op # "fetch" => <<req[q].op, req[q].row>> \in trail

\* The record an update answers with has the values it was sent, unless
\* another update was under way after its first read (writing or restoring).
AnswerHasPatch ==
    \A q \in Answered : req[q].op = "update" =>
        \/ \A f \in DOMAIN req[q].body : req[q].rec[f].by = q
        \/ Overlapped(q, req[q].known)

\* What a test says: a create whose audit event fails leaves no row.
CreateFailureCompensated ==
    \A q \in DOMAIN req :
        (req[q].op = "create" /\ req[q].ans = "failed") => req[q].row \notin DOMAIN rows
=============================================================================
