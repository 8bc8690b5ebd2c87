----------------------------- MODULE RecordPage -----------------------------
(***************************************************************************)
(* One browser page over the record routes: the form for a new record      *)
(* (routes/destination_new.tsx), the detail of a record                    *)
(* (routes/destination_detail.tsx), and their editor with undo             *)
(* (detail/detail_editor.ts).                                              *)
(*                                                                         *)
(* A keystroke, click or answer, with the effects it causes, is one step.  *)
(* The router has one load under way: a navigation or a revalidation       *)
(* replaces the one before, whose answer is then ignored.  display_record  *)
(* is always set along with the editor and from the same record; messages  *)
(* are left out.  Of a field's value the form's conversions keep what      *)
(* matters here: a value the schema rejects stays as it was typed.         *)
(***************************************************************************)
EXTENDS RecordRoutes

CONSTANTS
    Seed,       \* create defaults of the class: record_from_create_defaults
    Rejected,   \* values the update and create schemas reject
    MaxEdits, MaxWork   \* bounds: edits of a behaviour, and edits and
                        \* requests together, a request counting for two

ASSUME PageAssumption ==
    /\ Seed \in [Field -> Value] /\ Rejected \subseteq Value
    /\ MaxEdits \in Nat /\ MaxWork \in Nat
    /\ "none" \notin Field   \* the null of active_field is no field's name

VARIABLES
    view,      \* "new", "detail", or "error": the route's error boundary
    row,       \* the record of the detail's location
    loaded,    \* the loader's record
    editor,    \* EditorSnapshot
    pending,   \* the detail's pending_refresh
    saving,    \* save_pending
    asked,     \* saves under way: the request and the form that sent it
    load,      \* the router's load: its request and its row
    edits

page == <<view, row, loaded, editor, pending, saving, asked, load, edits>>
vars == <<routes, page>>

None == 0
NoLoad == [q |-> None, row |-> NoRow]

----------------------------------------------------------------------------
\* detail_editor.ts

create_editor_snapshot(record) ==
    [baseline |-> record, draft |-> record, undo_stack |-> << >>, active_field |-> "none"]

is_dirty(e) == e.baseline # e.draft

compute_changed_fields(e) ==
    [f \in { g \in Field : e.baseline[g] # e.draft[g] } |-> e.draft[f]]

\* Edits of one field in a row share the undo chunk of the first
apply_field_edit(e, f, v) ==
    IF e.draft[f] = v THEN e
    ELSE LET same == e.active_field = f /\ e.undo_stack # << >> IN
         [e EXCEPT !.draft[f] = v,
                   !.active_field = f,
                   !.undo_stack = IF same THEN @ ELSE Append(@, [g \in {f} |-> e.draft[f]])]

close_active_chunk(e) == [e EXCEPT !.active_field = "none"]

\* A bug: the field stays active, so that its next edit gets no chunk
UndoStaysActive(e) ==
    IF e.undo_stack = << >> THEN e
    ELSE [e EXCEPT !.draft = Patched(@, Last(e.undo_stack)), !.undo_stack = Front(@)]

undo_last_chunk(e) ==
    close_active_chunk(
        IF e.undo_stack = << >> THEN e
        ELSE [e EXCEPT !.draft = Patched(@, Last(e.undo_stack)), !.undo_stack = Front(@)])

----------------------------------------------------------------------------
\* The page

Init ==
    /\ RInit
    /\ \/ view = "new" /\ row = NoRow /\ loaded = Seed
       \/ view = "detail" /\ row \in Start /\ loaded = Vals(rows[row])
    /\ editor = create_editor_snapshot(loaded)
    /\ pending = FALSE /\ saving = FALSE /\ asked = {} /\ load = NoLoad /\ edits = 0

Room(n) == edits + 2 * Len(req) + n <= MaxWork
Form == view \in {"new", "detail"}

FieldChange(f, v) ==
    /\ Form /\ edits < MaxEdits /\ Room(1) /\ edits' = edits + 1
    /\ editor' = apply_field_edit(editor, f, v)
    /\ UNCHANGED <<routes, view, row, loaded, pending, saving, asked, load>>

\* Blur, focus on another field, a pointer outside the form
LeaveField ==
    /\ Form /\ editor' = close_active_chunk(editor)
    /\ UNCHANGED <<routes, view, row, loaded, pending, saving, asked, load, edits>>

Undo ==
    /\ Form /\ editor' = undo_last_chunk(editor)
    /\ UNCHANGED <<routes, view, row, loaded, pending, saving, asked, load, edits>>

\* mutation_body.ts; when it refuses the body, the form stays as it is
Accepted(body) == \A f \in DOMAIN body : body[f] \notin Rejected

\* Save or Ctrl+S, unless one is under way; commit_active_editor_field
\* blurs the field first.
SendSave(op, body) ==
    /\ ~saving /\ saving' = TRUE
    /\ editor' = close_active_chunk(editor)
    /\ Accepted(body) /\ Room(2) /\ Receive(op, row, body)
    /\ asked' = asked \cup {[q |-> Len(req'), from |-> view]}
    /\ UNCHANGED <<rows, ids, trail, view, row, loaded, pending, load, edits>>

SaveNew == view = "new" /\ SendSave("create", editor.draft)
SaveDetail == view = "detail" /\ is_dirty(editor) /\ SendSave("update", compute_changed_fields(editor))

StartLoad(r) ==
    /\ Room(2) /\ Receive("fetch", r, << >>)
    /\ load' = [q |-> Len(req'), row |-> r]

RefreshNew ==
    /\ view = "new" /\ editor' = create_editor_snapshot(loaded)
    /\ UNCHANGED <<routes, view, row, loaded, pending, saving, asked, load, edits>>

\* The detail shows the loader's record at once and loads it again
on_refresh ==
    /\ view = "detail" /\ ~pending /\ load = NoLoad
    /\ editor' = create_editor_snapshot(loaded)
    /\ pending' = TRUE /\ StartLoad(row)
    /\ UNCHANGED <<rows, ids, trail, view, row, loaded, saving, asked, edits>>

\* The router loads the route's data again for a reason of its own
Revalidate ==
    /\ view = "detail" /\ load = NoLoad /\ StartLoad(row)
    /\ UNCHANGED <<rows, ids, trail, view, row, loaded, editor, pending, saving, asked, edits>>

\* A save is answered to a form still mounted, or not any more.  Of a lost
\* answer the browser sees an error status, or the promise is rejected,
\* which no one handles: saving stays.
Answers(s, from) ==
    /\ s.from = from /\ req[s.q].pc = "end" /\ asked' = asked \ {s}
    /\ \/ view = from /\ saving' = FALSE
       \/ (view # from \/ req[s.q].ans = "lost") /\ UNCHANGED saving
    /\ UNCHANGED <<rows, ids, trail, view, row, loaded, pending, edits>>

\* The router goes to the new record, wherever the page is by now
CreateAnswered(s) ==
    /\ Answers(s, "new")
    /\ IF req[s.q].ans = "ok" THEN StartLoad(req[s.q].row) ELSE UNCHANGED <<req, load>>
    /\ UNCHANGED editor

UpdateAnswered(s) ==
    /\ Answers(s, "detail")
    /\ editor' = IF req[s.q].ans = "ok" /\ view = "detail"
                 THEN create_editor_snapshot(Vals(req[s.q].rec)) ELSE editor
    /\ UNCHANGED <<req, load>>

\* The load is answered: a failure ends in the error boundary; a form that
\* is not mounted starts from the record; a mounted detail keeps its state
\* unless a refresh waits for the record.
LoadLands ==
    /\ load # NoLoad /\ req[load.q].pc = "end" /\ load' = NoLoad
    /\ IF req[load.q].ans # "ok"
       THEN view' = "error" /\ pending' = FALSE /\ UNCHANGED <<row, loaded, editor, saving>>
       ELSE /\ view' = "detail" /\ row' = load.row
            /\ loaded' = Vals(req[load.q].rec)
            /\ editor' = IF view = "detail" /\ ~pending THEN editor ELSE create_editor_snapshot(loaded')
            /\ saving' = (saving /\ view = "detail")
            /\ pending' = FALSE
    /\ UNCHANGED <<routes, asked, edits>>

Next ==
    \/ \E f \in Field, v \in Value : FieldChange(f, v)
    \/ LeaveField \/ Undo \/ SaveNew \/ SaveDetail \/ RefreshNew \/ on_refresh
    \/ Revalidate \/ LoadLands
    \/ \E s \in asked : CreateAnswered(s) \/ UpdateAnswered(s)
    \/ \E q \in DOMAIN req : HandlerStep(q) /\ UNCHANGED page
    \/ Room(2) /\ OtherRequest /\ UNCHANGED page

Spec == Init /\ [][Next]_vars

----------------------------------------------------------------------------
\* Properties

PageTypeOK ==
    /\ view \in {"new", "detail", "error"} /\ row \in Row \cup {NoRow}
    /\ {loaded, editor.baseline, editor.draft} \subseteq [Field -> Value]
    /\ editor.active_field \in Field \cup {"none"}
    /\ {pending, saving} \subseteq BOOLEAN
    /\ \A s \in asked : s.q \in DOMAIN req /\ s.from \in {"new", "detail"}
    /\ edits \in 0..MaxEdits
    /\ RoutesTypeOK

\* Undoing every chunk leads back to the baseline exactly, whatever the
\* order of edits, changes of field, undos, saves, answers and refreshes.
UndoRestores ==
    LET Back[n \in 0..Len(editor.undo_stack)] ==
          IF n = 0 THEN editor.draft
          ELSE Patched(Back[n - 1], editor.undo_stack[Len(editor.undo_stack) + 1 - n])
    IN Back[Len(editor.undo_stack)] = editor.baseline

\* What a comment says: a refresh applies the freshest record.  With no
\* other client and nothing under way, a page without edits shows the row.
RefreshIsFreshest ==
    (/\ view = "detail" /\ asked = {} /\ load = NoLoad /\ row \in DOMAIN rows
     /\ \A q \in DOMAIN req : req[q].pc = "end" /\ req[q].ans = "ok")
        => editor.baseline = Vals(rows[row])
=============================================================================
