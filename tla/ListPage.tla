----------------------------- MODULE ListPage -----------------------------
(***************************************************************************)
(* The list page of the browser (routes/destination_list.tsx and the       *)
(* modules of list/) and the search it calls (persistence/search.py).      *)
(*                                                                         *)
(* A handler of the page runs to its end, and React commits what it set    *)
(* and runs the effects before the next event, so a handler with its       *)
(* effects is one step; a search and a loader are answered in later steps, *)
(* in any order.  The server counts and selects by two statements.         *)
(*                                                                         *)
(* A predicate is the set of comparisons it is the conjunction of; the     *)
(* empty one is null.  Of a record only its values matter.  The loader's   *)
(* own search is one step.                                                 *)
(***************************************************************************)
EXTENDS Integers, Sequences, FiniteSets, SequencesExt

CONSTANTS
    Dest, NoDest,      \* list destinations; no list page is mounted
    Baseline,          \* the predicate the navigation gives each list
    Columns,           \* the columns of each list, one order per release
    Record,            \* records are numbers, later ones are larger
    Value, Kind,       \* attribute -> record -> value; its control kind
    SortAttr,          \* attributes whose header is clicked
    QuickInput,        \* what is typed into the quick filter
    ExecPred,          \* predicates the filter editor executes
    PerPage, DefaultPerPage,
    MinWidth, Width,   \* MIN_COLUMN_WIDTH_PX; widths a pointer reaches
    MaxUse, MaxAll     \* bounds of requests, writes, navigations and
                       \* gestures, and of their sum, a gesture
                       \* counting for two

ASSUME ListAssumption ==
    /\ NoDest \notin Dest /\ Record \subseteq Nat /\ IsFiniteSet(Record)
    /\ PerPage \subseteq Nat \ {0} /\ DefaultPerPage \in PerPage
    /\ \A d \in Dest : Columns[d] # {}
    /\ \A d \in Dest : \A cs \in Columns[d] : cs \in Seq(ToSet(cs)) /\ IsInjective(cs)

VARIABLES
    db,        \* the records of the class
    dest, nav, \* loaded.path; the list a navigation is loading
    cols,      \* loaded.columns
    search,    \* rows, total, limit, offset, effective_predicate, and of
               \* which list and which db the rows were read
    effRef, sort, paging, clamp, gen, busy, failed,  \* the page's other state
    order, widths, live, drag, resize,               \* column layout, gestures
    timer,     \* the list whose Enter waits for the date input
    flight,    \* searches under way
    used,      \* requests, writes, navigations, gestures so far
    \* history
    muddled,   \* since the list was loaded, searches overlapped, columns
               \* changed or an Enter came late
    lost       \* a search of this list got no answer

page   == <<search, effRef, sort, paging, clamp, gen, busy, failed>>
layout == <<cols, order, widths, live, drag, resize>>
vars   == <<db, dest, nav, page, layout, timer, flight, used, muddled, lost>>

Null     == {}
None     == [from |-> 0]
Mounted  == dest # NoDest
Use(k)   == /\ used[k] < MaxUse[k]
            /\ used' = [used EXCEPT ![k] = @ + 1]
            /\ used'.req + used'.write + used'.nav + 2 * used'.gesture <= MaxAll
Or(p, q) == IF p = Null THEN q ELSE p           \* p ?? q

----------------------------------------------------------------------------
\* list/pagination.ts

last_page_start(total, per) == IF total <= 0 THEN 1 ELSE ((total - 1) \div per) * per + 1
can_go_next(start, total, per) == ~ (start > total - per)
visible_row_count(total, offset, limit) ==
    LET left == IF total > offset THEN total - offset ELSE 0
    IN  IF limit < left THEN limit ELSE left
\* Mutated form: a larger page is taken to show the same rows.
NeedsRefreshOnShrink(start, total, old, new) == new < old

per_page_change_needs_refresh(start, total, old, new) ==
    /\ old # new
    /\ visible_row_count(total, start - 1, old) # visible_row_count(total, start - 1, new)
clamp_starting_record(start, total, per) ==
    LET s    == IF start < 1 THEN 1 ELSE start
        last == last_page_start(total, per)
    IN  IF s > last THEN last ELSE s
start_past_last_page(offset, total, limit) == offset + 1 > last_page_start(total, limit)

----------------------------------------------------------------------------
\* list/header_sort.ts

apply_sort_click(s, a) ==
    IF s # <<>> /\ s[1].attr = a
    THEN IF s[1].dir = "asc" THEN <<[attr |-> a, dir |-> "desc"]>> \o Tail(s) ELSE Tail(s)
    ELSE <<[attr |-> a, dir |-> "asc"]>> \o SelectSeq(s, LAMBDA e : e.attr # a)

----------------------------------------------------------------------------
\* list/quick_filter.ts.  An input is <<>> when empty, <<v>> when it parses.

Built(ps) == [ok |-> TRUE, preds |-> ps]
Refused   == [ok |-> FALSE, preds |-> {}]
Cmp(a, op, v) == [attr |-> a, op |-> op, val |-> v]

build_range_predicates(a, from, to, toOp) ==
    IF Len(from) > 1 \/ Len(to) > 1 THEN Refused
    ELSE IF from # <<>> /\ to # <<>> /\ from[1] = to[1] THEN Built({Cmp(a, "eq", from[1])})
    ELSE IF from # <<>> /\ to # <<>> /\ from[1] > to[1] THEN Refused
    ELSE Built({Cmp(a, "gte", v) : v \in ToSet(from)} \cup {Cmp(a, toOp, v) : v \in ToSet(to)})

TextPredicates(a, op, text) == Built(IF text = <<>> THEN {} ELSE {Cmp(a, op, text)})

build_quick_filter_predicates(q) ==
    CASE Kind[q.attr] = "text"        -> TextPredicates(q.attr, "contains", q.text)
      [] Kind[q.attr] = "friendly_id" -> TextPredicates(q.attr, "ends_with", q.text)
      [] Kind[q.attr] = "boolean"     -> Built({Cmp(q.attr, "eq", ~ q.negate)})
      [] Kind[q.attr] = "numeric"     -> build_range_predicates(q.attr, q.from, q.to, "lt")
      [] Kind[q.attr] = "datetime"    -> build_range_predicates(q.attr, q.from, q.to, "lte")

and_predicates(left, additions) == left \cup additions

----------------------------------------------------------------------------
\* list/column_layout.ts and the layout effect of list/basic_list.tsx

clamp_column_width(w) == IF w < MinWidth THEN MinWidth ELSE w
seed_widths(cs)       == [c \in ToSet(cs) |-> MinWidth + 1]

\* Mutated form: the target index is not moved with the removed column.
MoveColumnUnshifted(o, from, to) ==
    IF to \in {from, from + 1} THEN o
    ELSE InsertAt(RemoveAt(o, from), IF to > Len(o) THEN Len(o) ELSE to, o[from])

move_column_order(o, from, to) ==
    IF to \in {from, from + 1} THEN o
    ELSE InsertAt(RemoveAt(o, from), IF from < to THEN to - 1 ELSE to, o[from])

\* The effect on [columns, widths]: live widths are seeded, gestures abandoned.
LayoutEffect(ws) == live' = ws /\ drag' = None /\ resize' = None

----------------------------------------------------------------------------
\* persistence/search.py

Compare(op, x, y) ==
    CASE op = "eq"  -> x = y
      [] op = "gte" -> x >= y
      [] op = "lt"  -> x < y
      [] op = "lte" -> x <= y
      [] op = "contains" -> \E i, j \in 1 .. Len(x) : SubSeq(x, i, j) = y
      [] op = "ends_with" -> IsSuffix(y, x)
Matching(rs, p) == {r \in rs : \A c \in p : Compare(c.op, Value[c.attr][r], c.val)}

\* The caller's sort, then created_at and id, both descending.
Before(s, r, t) ==
    LET differ == {i \in DOMAIN s : Value[s[i].attr][r] # Value[s[i].attr][t]}
    IN  IF differ = {} THEN r > t
        ELSE LET i == CHOOSE x \in differ : \A y \in differ : x <= y
                 v == Value[s[i].attr][r]
                 w == Value[s[i].attr][t]
             IN  IF s[i].dir = "asc" THEN v < w ELSE v > w
Nth(rs, s, k) == CHOOSE r \in rs : Cardinality({t \in rs : Before(s, t, r)}) = k - 1
Window(rs, p, s, limit, offset) ==
    LET all == Matching(rs, p)
        end == IF offset + limit < Cardinality(all) THEN offset + limit ELSE Cardinality(all)
    IN  [i \in 1 .. end - offset |-> Nth(all, s, offset + i)]

----------------------------------------------------------------------------
\* The loader and list_destination_ui_sync.

Loaded(d) ==
    [of |-> d, asof |-> db, torn |-> FALSE, total |-> Cardinality(Matching(db, Baseline[d])),
     rows |-> Window(db, Baseline[d], <<>>, DefaultPerPage, 0),
     limit |-> DefaultPerPage, offset |-> 0, eff |-> Baseline[d]]

Init ==
    /\ db = Record
    /\ \E d \in Dest, cs \in UNION {Columns[x] : x \in Dest} :
         /\ cs \in Columns[d]
         /\ dest = d /\ cols = cs /\ order = cs
         /\ search = Loaded(d) /\ effRef = Baseline[d]
         /\ widths = seed_widths(cs) /\ live = seed_widths(cs)
    /\ nav = NoDest /\ timer = NoDest
    /\ sort = <<>> /\ paging = [limit |-> DefaultPerPage, offset |-> 0]
    /\ clamp = FALSE /\ gen = 1 /\ busy = FALSE /\ failed = FALSE
    /\ drag = None /\ resize = None /\ flight = {}
    /\ used = [req |-> 0, write |-> 0, nav |-> 0, gesture |-> 0]
    /\ muddled = FALSE /\ lost = FALSE

Navigate(d) ==
    /\ Use("nav")
    /\ nav' = d
    /\ UNCHANGED <<db, dest, page, layout, timer, flight, muddled, lost>>

\* Mutated forms: the generation or the busy flag survive the navigation.
PathEffectSameGen(d) ==
    /\ search' = Loaded(d) /\ effRef' = Baseline[d] /\ sort' = <<>>
    /\ paging' = [limit |-> DefaultPerPage, offset |-> 0]
    /\ clamp' = FALSE /\ busy' = FALSE /\ failed' = FALSE
    /\ gen' = gen
PathEffectBusy(d) ==
    /\ search' = Loaded(d) /\ effRef' = Baseline[d] /\ sort' = <<>>
    /\ paging' = [limit |-> DefaultPerPage, offset |-> 0]
    /\ clamp' = FALSE /\ busy' = busy /\ failed' = FALSE
    /\ gen' = gen + 1

\* The path effect: another list, or the first one after an error page.
PathEffect(d) ==
    /\ search' = Loaded(d) /\ effRef' = Baseline[d] /\ sort' = <<>>
    /\ paging' = [limit |-> DefaultPerPage, offset |-> 0]
    /\ clamp' = FALSE /\ busy' = FALSE /\ failed' = FALSE
    /\ gen' = gen + 1

ArriveOther ==
    /\ nav # NoDest /\ nav # dest
    /\ dest' = nav /\ nav' = NoDest
    /\ PathEffect(nav)
    /\ \E cs \in Columns[nav] :
         /\ cols' = cs /\ order' = cs
         /\ widths' = seed_widths(cs) /\ LayoutEffect(seed_widths(cs))
    /\ muddled' = FALSE /\ lost' = FALSE
    /\ UNCHANGED <<db, timer, flight, used>>

\* The same path again: its rows are not taken over.  loaded.columns and the
\* baseline are new objects, which runs the effects on them; a changed column
\* set re-seeds the layout and drops the sort (reconcile_column_layout).
ArriveSame ==
    /\ nav # NoDest /\ nav = dest
    /\ nav' = NoDest
    /\ effRef' = Or(search.eff, Baseline[dest])
    /\ \E cs \in Columns[dest] :
         /\ cols' = cs
         /\ IF ToSet(cs) = ToSet(cols)
            THEN LayoutEffect(widths) /\ UNCHANGED <<order, widths, sort, muddled>>
            ELSE /\ order' = cs /\ widths' = seed_widths(cs) /\ LayoutEffect(seed_widths(cs))
                 /\ sort' = <<>> /\ muddled' = TRUE
    /\ UNCHANGED <<db, dest, search, paging, clamp, gen, busy, failed, timer, flight, used, lost>>

\* The loader fails: the error page replaces the list page.
ArriveError ==
    /\ nav # NoDest
    /\ dest' = NoDest /\ nav' = NoDest
    /\ flight' = {} /\ timer' = NoDest /\ busy' = FALSE
    /\ drag' = None /\ resize' = None
    /\ UNCHANGED <<db, search, effRef, sort, paging, clamp, gen, failed,
                   cols, order, widths, live, used, muddled, lost>>

----------------------------------------------------------------------------
\* submit_search, by a closure of list d, after the requests fs.

Send(d, p, s, limit, offset, fs) ==
    /\ Use("req")
    /\ paging' = [limit |-> limit, offset |-> offset]
    /\ busy' = TRUE
    /\ flight' = fs \cup
         {[id |-> used.req, of |-> d, gen |-> gen, pred |-> p, sort |-> s, limit |-> limit,
           offset |-> offset, at |-> "sent", total |-> 0, counted |-> {}]}
    /\ muddled' = (muddled \/ d # dest \/ \E r \in fs : r.gen = gen)

UI   == Mounted /\ UNCHANGED <<db, dest, nav>>
Idle == UNCHANGED <<layout, lost, search, clamp, gen, failed>>

\* Refresh, Execute of the filter editor and the pager are disabled while busy.
on_refresh ==
    /\ UI /\ ~ busy
    /\ Send(dest, effRef, sort, paging.limit, paging.offset, flight)
    /\ Idle /\ UNCHANGED <<effRef, sort, timer>>

on_execute(p) ==
    /\ UI /\ ~ busy
    /\ Send(dest, p, sort, paging.limit, 0, flight)
    /\ Idle /\ UNCHANGED <<effRef, sort, timer>>

on_sort_click(a) ==
    /\ UI /\ a \in ToSet(cols)
    /\ sort' = apply_sort_click(sort, a)
    /\ Send(dest, effRef, sort', paging.limit, paging.offset, flight)
    /\ Idle /\ UNCHANGED <<effRef, timer>>

Applies(q) == build_quick_filter_predicates(q).ok /\ build_quick_filter_predicates(q).preds # {}

\* A refused or empty input only warns.
QuickFilter(d, q) ==
    /\ Applies(q)
    /\ Send(d, and_predicates(effRef, build_quick_filter_predicates(q).preds), sort,
            paging.limit, 0, flight)

on_quick_filter_enter(q) ==
    /\ UI
    /\ QuickFilter(dest, q)
    /\ Idle /\ UNCHANGED <<effRef, sort, timer>>

\* Enter in a date input that has no value yet is tried again in the next
\* task, with the submit_search of the list it was pressed on.
on_date_enter ==
    /\ UI /\ timer = NoDest /\ Use("gesture")
    /\ timer' = dest
    /\ UNCHANGED <<page, layout, flight, muddled, lost>>

DelayedEnter(q) ==
    /\ UI /\ timer # NoDest
    /\ timer' = NoDest
    /\ \/ QuickFilter(timer, q)
       \/ ~ Applies(q) /\ UNCHANGED <<paging, busy, flight, used, muddled>>
    /\ Idle /\ UNCHANGED <<effRef, sort>>

\* The pager: first, previous, next, last, or a start that was typed.
PagerOffset ==
    LET start == search.offset + 1
    IN  {o \in {0, search.offset - search.limit} : start > 1}
        \cup {o \in {search.offset + search.limit, last_page_start(search.total, search.limit) - 1} :
                can_go_next(start, search.total, search.limit)}
        \cup {clamp_starting_record(s, search.total, search.limit) - 1 : s \in 0 .. 3}

on_page(o) ==
    /\ UI /\ ~ busy
    /\ LET to == IF o < 0 THEN 0 ELSE o
       IN  to # search.offset /\ Send(dest, effRef, sort, search.limit, to, flight)
    /\ Idle /\ UNCHANGED <<effRef, sort, timer>>

on_per_page_change(n) ==
    /\ UI /\ ~ busy /\ n # search.limit
    /\ IF per_page_change_needs_refresh(search.offset + 1, search.total, search.limit, n)
       THEN Send(dest, effRef, sort, n, search.offset, flight) /\ UNCHANGED search
       ELSE /\ search' = [search EXCEPT !.limit = n]
            /\ paging' = [limit |-> n, offset |-> search.offset]
            /\ UNCHANGED <<busy, flight, used, muddled>>
    /\ UNCHANGED <<layout, lost, clamp, gen, failed, effRef, sort, timer>>

----------------------------------------------------------------------------
\* The server: COUNT, and SELECT with the delivery of the answer.

\* (What becomes of an overtaken search at the server no longer matters.)
Count(r) ==
    /\ r.at = "sent" /\ r.gen = gen
    /\ flight' = (flight \ {r}) \cup
         {[r EXCEPT !.at = "counted", !.total = Cardinality(Matching(db, r.pred)), !.counted = db]}
    /\ UNCHANGED <<db, dest, nav, page, layout, timer, used, muddled, lost>>

\* An answer of an earlier generation is dropped.
Dropped(r) ==
    /\ r.gen # gen
    /\ flight' = flight \ {r}
    /\ UNCHANGED <<db, dest, nav, page, layout, timer, used, muddled, lost>>

\* Past the last page: once more, at the last page, with the sort of now.
Reclamp(r) ==
    /\ r.at = "counted" /\ r.gen = gen /\ ~ clamp
    /\ start_past_last_page(r.offset, r.total, r.limit)
    /\ clamp' = TRUE
    /\ effRef' = r.pred
    /\ Send(r.of, r.pred, sort, r.limit, last_page_start(r.total, r.limit) - 1, flight \ {r})
    /\ UNCHANGED <<db, dest, nav, layout, timer, search, sort, gen, failed, lost>>

\* A null predicate that replaces another one runs the effect that puts the
\* baseline into effective_ref.
Apply(r) ==
    /\ r.at = "counted" /\ r.gen = gen
    /\ clamp \/ ~ start_past_last_page(r.offset, r.total, r.limit)
    /\ clamp' = FALSE /\ busy' = FALSE /\ failed' = FALSE
    /\ effRef' = IF search.eff # r.pred THEN Or(r.pred, Baseline[dest]) ELSE r.pred
    /\ paging' = [limit |-> r.limit, offset |-> r.offset]
    /\ search' = [of |-> r.of, asof |-> db, torn |-> r.counted # db, total |-> r.total,
                  rows |-> Window(db, r.pred, r.sort, r.limit, r.offset),
                  limit |-> r.limit, offset |-> r.offset, eff |-> r.pred]
    /\ flight' = flight \ {r}
    /\ UNCHANGED <<db, dest, nav, layout, timer, used, sort, gen, muddled, lost>>

\* The server refuses or fails.
Fails(r) ==
    /\ r.gen = gen
    /\ clamp' = FALSE /\ busy' = FALSE /\ failed' = TRUE
    /\ search' = [search EXCEPT !.rows = <<>>, !.total = 0, !.offset = 0]
    /\ paging' = [limit |-> IF search.offset # 0 THEN search.limit ELSE paging.limit, offset |-> 0]
    /\ flight' = flight \ {r}
    /\ UNCHANGED <<db, dest, nav, layout, timer, used, effRef, sort, gen, muddled, lost>>

\* The fetch is rejected: nothing catches it.
Lost(r) ==
    /\ flight' = flight \ {r}
    /\ lost' = (lost \/ r.gen = gen)
    /\ UNCHANGED <<db, dest, nav, page, layout, timer, used, muddled>>

Write(r) ==
    /\ Use("write")
    /\ db' = IF r \in db THEN db \ {r} ELSE db \cup {r}
    /\ UNCHANGED <<dest, nav, page, layout, timer, flight, muddled, lost>>

----------------------------------------------------------------------------
\* Gestures on the header (list/basic_list.tsx).  Indices count from 1.

Gesture == Mounted /\ UNCHANGED <<db, dest, nav, page, timer, flight, muddled, lost, cols>>
Down    == Use("gesture")

on_grip_pointer_down(i) ==
    /\ Gesture /\ Down /\ i \in 1 .. Len(order)
    /\ drag' = [from |-> i, drop |-> i, name |-> order[i]]
    /\ UNCHANGED <<order, widths, live, resize>>
on_grip_pointer_move(j) ==
    /\ Gesture /\ drag # None /\ j \in 1 .. Len(order) + 1
    /\ drag' = [drag EXCEPT !.drop = j]
    /\ UNCHANGED <<order, widths, live, resize, used>>
on_grip_pointer_end ==
    /\ Gesture /\ drag # None
    /\ order' = move_column_order(order, drag.from, drag.drop)
    /\ IF order' = order THEN drag' = None /\ UNCHANGED <<live, resize>> ELSE LayoutEffect(widths)
    /\ UNCHANGED <<widths, used>>

on_resize_pointer_down(c) ==
    /\ Gesture /\ Down /\ c \in ToSet(order)
    /\ resize' = [from |-> 1, name |-> c]
    /\ UNCHANGED <<order, widths, live, drag>>
on_resize_pointer_move(w) ==
    /\ Gesture /\ resize # None
    /\ live' = [live EXCEPT ![resize.name] = clamp_column_width(w)]
    /\ UNCHANGED <<order, widths, drag, resize, used>>
on_resize_pointer_end ==
    /\ Gesture /\ resize # None
    /\ widths' = [widths EXCEPT ![resize.name] = clamp_column_width(live[resize.name])]
    /\ LayoutEffect(widths')
    /\ UNCHANGED <<order, used>>

----------------------------------------------------------------------------
Next ==
    \/ \E d \in Dest : Navigate(d)
    \/ ArriveOther \/ ArriveSame \/ ArriveError
    \/ on_refresh \/ on_date_enter
    \/ \E p \in ExecPred : on_execute(p)
    \/ \E a \in SortAttr : on_sort_click(a)
    \/ \E q \in QuickInput : on_quick_filter_enter(q) \/ DelayedEnter(q)
    \/ \E o \in PagerOffset : on_page(o)
    \/ \E n \in PerPage : on_per_page_change(n)
    \/ \E r \in flight : Count(r) \/ Dropped(r) \/ Reclamp(r) \/ Apply(r) \/ Fails(r) \/ Lost(r)
    \/ \E r \in Record : Write(r)
    \/ \E i \in 1 .. Len(order) + 1 : on_grip_pointer_down(i) \/ on_grip_pointer_move(i)
    \/ \E c \in ToSet(cols) : on_resize_pointer_down(c)
    \/ \E w \in Width : on_resize_pointer_move(w)
    \/ on_grip_pointer_end \/ on_resize_pointer_end

Spec == Init /\ [][Next]_vars

----------------------------------------------------------------------------
\* The page keeps its parts of their types.
TypeOK ==
    /\ db \subseteq Record
    /\ dest \in Dest \cup {NoDest} /\ nav \in Dest \cup {NoDest} /\ timer \in Dest \cup {NoDest}
    /\ search.limit \in PerPage /\ search.offset \in Nat /\ search.total \in Nat
    /\ paging.limit \in PerPage /\ paging.offset \in Nat /\ gen \in Nat
    /\ {clamp, busy, failed, muddled, lost} \subseteq BOOLEAN
    /\ ToSet(order) = ToSet(cols) /\ Len(order) = Len(cols)
    /\ DOMAIN widths = ToSet(cols) /\ DOMAIN live = ToSet(cols)

\* The rows shown were read for the list shown: a search that navigation has
\* overtaken never fills the page of the next list (the generation check of
\* submit_search).  An Enter whose timer outlives its list is the exception.
RowsOfThisList == Mounted /\ ~ muddled => search.of = dest

\* At rest the rows are the page of records that the chrome around them says:
\* the filter, the sort marks and the pager, in the database as it was read,
\* whatever was clicked, clamped, failed or left unanswered before, unless
\* searches overlapped or the count is of another instant than the rows.
ShownIsAsked ==
    Mounted /\ ~ busy /\ ~ failed /\ ~ muddled /\ ~ search.torn
      => search.rows = Window(search.asof, search.eff, sort, search.limit, search.offset)

\* The page is busy only while a search of its own is under way, or after one
\* that was never answered: refresh, pager and Execute, which are disabled
\* meanwhile, come back.
BusyExplained == busy => lost \/ \E r \in flight : r.gen = gen

At(s, x)      == CHOOSE k \in DOMAIN s : s[k] = x
Without(s, x) == RemoveAt(s, At(s, x))

\* A drop puts the column that was grabbed right before the column it was
\* dropped on and keeps the order of the others, whatever arrived in between.
ReorderLands ==
    [][order' # order /\ cols' = cols /\ dest' = dest =>
         LET x == drag.name
             i == At(order', x)
         IN  /\ Without(order', x) = Without(order, x)
             /\ IF drag.drop > Len(order) THEN i = Len(order')
                ELSE i < Len(order') /\ order'[i + 1] = order[drag.drop]]_vars

\* effective_ref, which refresh, sort, pager and quick filter search with, is
\* the filter the page shows, whenever the page is at rest.
EffectiveRefCurrent == Mounted /\ ~ busy => effRef = search.eff

=============================================================================
