--------------------------- MODULE FilterEditor ---------------------------
(***************************************************************************)
(* The filter editor of a list (list/filter_chrome.tsx, list/filter_ops.ts)*)
(* and the server's validation of the predicates it sends                  *)
(* (persistence/search.py).                                                *)
(*                                                                         *)
(* A tree is a function from the paths of its nodes: the root is << >>,    *)
(* the children of p are p \o <<1>>, p \o <<2>>, ...; the empty function   *)
(* is null, the filter that matches all.  A node is a group when its op is *)
(* "and" or "or".  Of a value its control kind and its quality matter:     *)
(* "good", or "odd" for what only the server tells is wrong (a number that *)
(* does not parse or has a fraction, an invalid regular expression).       *)
(*                                                                         *)
(* A handler with the effects it causes is one step; a search is answered  *)
(* in a later step, in any order.  Quick filter, sort, refresh and pager   *)
(* go on from effective_ref, not from the filter in effect: after an empty *)
(* filter it falls back to the one the navigation gave the list.  React    *)
(* compares objects: an answer with the predicate in effect may or may not *)
(* be that object, null always is.                                         *)
(***************************************************************************)
EXTENDS Integers, Sequences, FiniteSets, SequencesExt, TLC

CONSTANTS
    Attr, Type,          \* the attributes and the type of each
    Foreign,             \* attributes with references: not in the field list
    LeafOp,              \* operators of comparisons
    Start,               \* predicates the navigation starts a list with
    Addition,            \* comparisons the quick filter adds
    Limits,              \* SearchNestingLimits: depth, length, total, regexp
    MaxEdits, MaxFlight  \* bounds of edits and of the page's own searches,
                         \* which count for two, and of searches under way

VARIABLES
    home,      \* loaded.baseline_predicate
    eff,       \* search.effective_predicate
    ref,       \* effective_ref.current
    searching, retried,            \* search_busy, clamp_inflight_ref
    open, draft, blocked,          \* the editor
    asked,     \* searches under way
    edits,     \* edits so far, a search of the page counting for two
    \* history
    edited,    \* the draft was edited since it was loaded
    sent,      \* the predicate Execute sent last, until an answer comes
    level      \* the depth of the filter that eff was made from by quick filters

\* ref and a search under way carry the level of their predicate with them.
editor     == <<open, draft, blocked, edited>>
list       == <<home, eff, ref, level>>
filterVars == <<list, searching, retried, editor, asked, edits, sent>>

----------------------------------------------------------------------------
\* Types and operators

TextFamily   == {"string", "compact_text", "choice", "status", "text", "multiline_text"}
OrderedTypes == TextFamily \cup {"integer", "float", "decimal", "datetime", "friendly_id"}
PatternTypes == TextFamily \cup {"friendly_id"}
OrderedOps   == {"gt", "gte", "lt", "lte"}
PatternOps   == {"contains", "starts_with", "ends_with", "regexp"}
NullChecks   == {"empty", "not_empty"}
Logical      == {"and", "or"}

NoAttr == ""
NoOp   == ""
NoVal  == [kind |-> "none", quality |-> "none"]

quick_filter_control_kind(type) ==
    CASE type \in TextFamily -> "text"
      [] type \in {"integer", "float", "decimal"} -> "numeric"
      [] type \in {"datetime", "boolean", "friendly_id"} -> type
      [] OTHER -> "none"

Filterable == {a \in Attr \ Foreign : quick_filter_control_kind(Type[a]) # "none"}

\* LeafRow: the type is known of the attributes in the field list only.
RowType(a) == IF a \in Filterable THEN Type[a] ELSE "unknown"

leaf_ops_for_type(type) ==
    LeafOp \cap ({"eq", "ne"} \cup NullChecks \cup
                 (IF type \in OrderedTypes THEN OrderedOps ELSE {}) \cup
                 (IF type \in PatternTypes THEN PatternOps ELSE {}))

op_requires_value(op) == op \notin NullChecks

----------------------------------------------------------------------------
\* Trees

NullFilter  == [p \in {} |-> 0]
Kids(t, p)  == {q \in DOMAIN t : Len(q) = Len(p) + 1 /\ IsPrefix(p, q)}
IsGroup(n)  == n.op \in Logical
ParentOp(t, p) == IF p = <<>> THEN "none" ELSE t[Front(p)].op
Depth(t)    == Cardinality({Len(p) : p \in DOMAIN t})
Leaf(a, o, v) == [op |-> o, attr |-> a, val |-> v]
empty_leaf  == Leaf(NoAttr, NoOp, NoVal)
Group(o)    == [op |-> o, attr |-> NoAttr, val |-> NoVal]
Put(t, p, n) == [q \in DOMAIN t \cup {p} |-> IF q = p THEN n ELSE t[q]]

predicate_contains_not(t) == \E p \in DOMAIN t : t[p].op = "not"

\* The path of q after its sibling branch p is gone.
Shifted(q, p) ==
    IF Len(q) >= Len(p) /\ IsPrefix(Front(p), q) /\ q[Len(p)] > p[Len(p)]
    THEN [q EXCEPT ![Len(p)] = @ - 1] ELSE q
remove_editor_node(t, p) ==
    IF p = <<>> THEN NullFilter
    ELSE LET kept == {q \in DOMAIN t : ~ IsPrefix(p, q)}
         IN  [q \in {Shifted(k, p) : k \in kept} |-> t[CHOOSE k \in kept : Shifted(k, p) = q]]

append_group_child(t, p) == Put(t, Append(p, Cardinality(Kids(t, p)) + 1), empty_leaf)

wrap_leaf_as_group(t, p, op) == Put(Put(t, p, Group(op)), Append(p, 1), t[p])

eligible_ops_for_row(t, p) ==
    IF IsGroup(t[p]) /\ Kids(t, p) # {}
    THEN {o \in Logical : \A q \in Kids(t, p) : t[q].op # o} \cup {t[p].op}
    ELSE (IF RowType(t[p].attr) = "unknown" THEN LeafOp ELSE leaf_ops_for_type(RowType(t[p].attr)))
         \cup (Logical \ {ParentOp(t, p)})

apply_operator_change(t, p, op) ==
    LET n == t[p]
    IN  IF op \in Logical
        THEN IF IsGroup(n) THEN Put(t, p, Group(op)) ELSE wrap_leaf_as_group(t, p, op)
        ELSE IF IsGroup(n)
             THEN IF Kids(t, p) # {} THEN t ELSE Put(t, p, Leaf(NoAttr, op, NoVal))
             ELSE Put(t, p, Leaf(n.attr, op,
                        IF op_requires_value(op) /\ op_requires_value(n.op) THEN n.val ELSE NoVal))

should_clear_value_on_field_change(old, new) ==
    quick_filter_control_kind(old) # quick_filter_control_kind(new)

\* Mutated form: a new field keeps the operator.
FieldChangeKeepsOp(t, p, a) ==
    LET n == t[p]
    IN  Put(t, p, Leaf(a, n.op,
            IF should_clear_value_on_field_change(RowType(n.attr), RowType(a)) THEN NoVal ELSE n.val))
field_change(t, p, a) ==
    LET n == t[p]
    IN  Put(t, p, Leaf(a,
            IF a # NoAttr /\ n.op # NoOp /\ n.op \notin leaf_ops_for_type(RowType(a)) THEN NoOp ELSE n.op,
            IF should_clear_value_on_field_change(RowType(n.attr), RowType(a)) THEN NoVal ELSE n.val))

\* commit_node accepts the node at p.
Complete(t, p) ==
    IF IsGroup(t[p]) THEN Kids(t, p) # {}
    ELSE t[p].attr # NoAttr /\ t[p].op # NoOp
         /\ (op_requires_value(t[p].op) => t[p].val # NoVal)
commit_editor_root(t) ==
    [ok |-> \A p \in DOMAIN t : Complete(t, p),
     pred |-> [p \in DOMAIN t |-> IF op_requires_value(t[p].op) THEN t[p] ELSE [t[p] EXCEPT !.val = NoVal]]]

\* Mutated form: the left side is always wrapped.
AndWraps(t, n) ==
    IF t = NullFilter THEN Put(NullFilter, <<>>, n)
    ELSE Put([q \in {<<>>} \cup {<<1>> \o p : p \in DOMAIN t} |->
                IF q = <<>> THEN Group("and") ELSE t[Tail(q)]], <<2>>, n)

\* and_predicates, of one more condition: a top-level "and" gets one more child, else one is made.
and_predicate(t, n) ==
    IF t = NullFilter THEN Put(NullFilter, <<>>, n)
    ELSE IF t[<<>>].op = "and" THEN Put(t, <<Cardinality(Kids(t, <<>>)) + 1>>, n)
    ELSE Put([q \in {<<>>} \cup {<<1>> \o p : p \in DOMAIN t} |->
                IF q = <<>> THEN Group("and") ELSE t[Tail(q)]], <<2>>, n)

----------------------------------------------------------------------------
\* persistence/search.py: what the compiler raises for a predicate

_compile_logical_list(t, p) ==
    IF Kids(t, p) = {} THEN "structural"
    ELSE IF Cardinality(Kids(t, p)) > Limits.length THEN "limit" ELSE "ok"

_require_attribute(n) == IF n.attr \in Attr THEN "ok" ELSE "structural"

\* A foreign key is a uuid; the columns of its control are text.
_coerce_value(n) ==
    LET kind == quick_filter_control_kind(Type[n.attr])
    IN  IF n.val.quality = "odd" /\ (kind = "numeric" \/ n.op = "regexp") THEN "value"
        ELSE IF n.val.kind = kind \/ (n.attr \in Foreign /\ n.val.kind = "uuid") THEN "ok" ELSE "mistyped"

_compile_leaf(n) ==
    IF _require_attribute(n) # "ok" THEN "structural"
    ELSE IF n.op \in NullChecks THEN "ok"
    ELSE IF n.op \in OrderedOps /\ Type[n.attr] \notin OrderedTypes THEN "inapplicable"
    ELSE IF n.op \in PatternOps /\ Type[n.attr] \notin PatternTypes THEN "inapplicable"
    ELSE IF n.val = NoVal THEN "structural"
    ELSE _coerce_value(n)

_compile_predicate(t, p) ==
    IF Len(p) + 1 > Limits.depth THEN "limit"
    ELSE IF IsGroup(t[p])        THEN _compile_logical_list(t, p)
    ELSE IF t[p].op = "not"      THEN IF Kids(t, p) = {} THEN "structural" ELSE "ok"
    ELSE _compile_leaf(t[p])

count_node(t) ==
    \/ Cardinality(DOMAIN t) > Limits.total
    \/ Cardinality({p \in DOMAIN t : t[p].op = "regexp"}) > Limits.regexp

Refusals(t) == {_compile_predicate(t, p) : p \in DOMAIN t} \ {"ok"}
Accepts(t)  == Refusals(t) = {} /\ ~ count_node(t)

----------------------------------------------------------------------------
\* Of what the navigation and the quick filter send: the operator and the value
\* of a condition suit its attribute.

Fits(n) ==
    n.attr \in Filterable =>
        /\ n.op \in leaf_ops_for_type(Type[n.attr]) \cup {NoOp}
        /\ n.val = NoVal \/ n.val.kind = quick_filter_control_kind(Type[n.attr])
IsNode(n) ==
    /\ DOMAIN n = {"op", "attr", "val"}
    /\ n.op \in LeafOp \cup Logical \cup {"not", NoOp}
    /\ n.attr \in Attr \cup {NoAttr}
    /\ Fits(n)
IsTree(t) ==
    /\ IsFiniteSet(DOMAIN t)
    /\ t # NullFilter => <<>> \in DOMAIN t
    /\ \A p \in DOMAIN t : p \in Seq(Nat) /\ IsNode(t[p])
    /\ \A p \in DOMAIN t \ {<<>>} : Front(p) \in DOMAIN t

ASSUME FilterAssumption ==
    /\ NoAttr \notin Attr
    /\ LeafOp \subseteq {"eq", "ne"} \cup NullChecks \cup OrderedOps \cup PatternOps
    /\ \A t \in Start : IsTree(t)
    /\ \A n \in Addition : IsNode(n)

----------------------------------------------------------------------------
Own == [pred |-> home, level |-> Depth(home)]

FilterInit ==
    /\ home \in Start /\ eff = home /\ level = Depth(home) /\ ref = Own
    /\ open = FALSE /\ draft = NullFilter /\ blocked = FALSE /\ edited = FALSE
    /\ searching = FALSE /\ retried = FALSE
    /\ asked = {} /\ sent = NullFilter
    /\ edits = 0

\* Mutated form: a "not" is loaded as if the editor could show it.
SyncAll(t) ==
    /\ blocked' = FALSE
    /\ draft' = t
    /\ edited' = FALSE

\* sync_draft_from_effective
Sync(t) ==
    /\ blocked' = predicate_contains_not(t)
    /\ draft' = IF predicate_contains_not(t) THEN NullFilter ELSE t
    /\ edited' = FALSE

\* Opening loads the draft again, so a closed editor is modelled without one.
Close == open' = FALSE /\ draft' = NullFilter /\ blocked' = FALSE /\ edited' = FALSE

on_toggle ==
    /\ IF open THEN Close ELSE open' = TRUE /\ Sync(eff)
    /\ UNCHANGED <<list, searching, retried, asked, edits, sent>>

on_close ==
    /\ open /\ ~ searching
    /\ Close
    /\ UNCHANGED <<list, searching, retried, asked, edits, sent>>

on_reset ==
    /\ open /\ ~ searching
    /\ Sync(eff)
    /\ UNCHANGED <<open, list, searching, retried, asked, edits, sent>>

Spend(n) == edits + n <= MaxEdits /\ edits' = edits + n

\* Edits of the draft; they are possible while a search is under way.
Edit(t) ==
    /\ open /\ ~ blocked /\ Spend(1)
    /\ draft' = t /\ edited' = TRUE
    /\ UNCHANGED <<open, blocked, list, searching, retried, asked, sent>>

on_add_root == ~ searching /\ draft = NullFilter /\ Edit(Put(NullFilter, <<>>, empty_leaf))
on_remove(p) == Edit(remove_editor_node(draft, p))
on_append(p) == IsGroup(draft[p]) /\ Edit(append_group_child(draft, p))
on_operator(p) == \E op \in eligible_ops_for_row(draft, p) \ {draft[p].op} :
                      Edit(apply_operator_change(draft, p, op))
on_field(p) == /\ ~ IsGroup(draft[p])
               /\ \E a \in (Filterable \cup {NoAttr}) \ {draft[p].attr} : Edit(field_change(draft, p, a))
\* The value control is shown once field and operator ask for one.
on_value(p) ==
    /\ ~ IsGroup(draft[p]) /\ draft[p].op # NoOp /\ op_requires_value(draft[p].op)
    /\ draft[p].attr \in Filterable
    /\ \E v \in {[kind |-> quick_filter_control_kind(Type[draft[p].attr]), quality |-> w] : w \in {"good", "odd"}} :
         Edit(Put(draft, p, [draft[p] EXCEPT !.val = v]))

\* submit_search, of the first page or of the page shown.
Free == {i \in 1 .. MaxFlight : \A r \in asked : r.id # i}
Submit(p, l, page) ==
    /\ Free # {}  \* bound
    /\ asked' = asked \cup {[id |-> CHOOSE i \in Free : TRUE, pred |-> p, level |-> l, page |-> page]}
    /\ searching' = TRUE
    /\ UNCHANGED <<list, retried>>

on_execute_click ==
    /\ open /\ ~ searching /\ ~ blocked
    /\ commit_editor_root(draft).ok
    /\ sent' = commit_editor_root(draft).pred
    /\ Submit(sent', Depth(sent'), "first")
    /\ Close
    /\ UNCHANGED edits

\* A search of the page outside the editor, also while one is under way.
PageSearch(p, page) ==
    /\ Spend(2)
    /\ Submit(p, ref.level, page)
    /\ UNCHANGED <<editor, sent>>

on_quick_enter(n) == PageSearch(and_predicate(ref.pred, n), "first")

\* on_sort_click; the pager and Refresh do the same while no search is under way.
on_search_again == PageSearch(ref.pred, "shown")

\* Object.is(args.predicate, effective_predicate) of an answer.
SameObject(p) == IF p # eff THEN {FALSE} ELSE IF p = NullFilter THEN {TRUE} ELSE BOOLEAN

\* The predicate that was searched with becomes the effective one.  The effects on
\* it set effective_ref and load an open editor again.
Applied(r) ==
    /\ Accepts(r.pred)
    /\ asked' = asked \ {r} /\ searching' = FALSE /\ retried' = FALSE
    /\ eff' = r.pred /\ level' = r.level
    /\ \E same \in SameObject(r.pred) :
         /\ ref' = IF r.pred = NullFilter /\ ~ same THEN Own
                   ELSE [pred |-> r.pred, level |-> r.level]
         /\ IF open /\ ~ same THEN Sync(r.pred) ELSE UNCHANGED <<draft, blocked, edited>>
    /\ sent' = NullFilter
    /\ UNCHANGED <<home, open, edits>>

\* The page shown is past the end by now: once more, with the last page.
PastEnd(r) ==
    /\ Accepts(r.pred) /\ r.page = "shown" /\ ~ retried
    /\ retried' = TRUE /\ searching' = TRUE
    /\ ref' = [pred |-> r.pred, level |-> r.level]
    /\ UNCHANGED <<home, eff, level, editor, asked, edits, sent>>

\* A search refused by the compiler, or failed otherwise, leaves the filter as it is.
Failed(r) ==
    /\ asked' = asked \ {r} /\ searching' = FALSE /\ retried' = FALSE
    /\ sent' = NullFilter
    /\ UNCHANGED <<list, editor, edits>>

\* The fetch is rejected: nothing catches it, and search_busy stays.
Unanswered(r) ==
    /\ asked' = asked \ {r}
    /\ UNCHANGED <<list, searching, retried, editor, edits, sent>>

\* The same list is loaded again: the baseline is a new object, the effect on it runs.
SamePath ==
    /\ ref' = IF eff = NullFilter THEN Own ELSE [pred |-> eff, level |-> level]
    /\ UNCHANGED <<home, eff, level, searching, retried, editor, asked, edits, sent>>

FilterNext ==
    \/ on_toggle \/ on_close \/ on_reset \/ on_add_root \/ on_execute_click
    \/ \E p \in DOMAIN draft :
         on_remove(p) \/ on_append(p) \/ on_operator(p) \/ on_field(p) \/ on_value(p)
    \/ \E n \in Addition : on_quick_enter(n)
    \/ on_search_again \/ SamePath
    \/ \E r \in asked : Applied(r) \/ PastEnd(r) \/ Failed(r) \/ Unanswered(r)

FilterSpec == FilterInit /\ [][FilterNext]_filterVars

----------------------------------------------------------------------------
\* Trees are trees: with a node its ancestors, which are groups or a "not",
\* and its elder siblings.
FilterTypeOK ==
    /\ \A t \in {home, eff, ref.pred, draft, sent} : \A p \in DOMAIN t \ {<<>>} :
         /\ Front(p) \in DOMAIN t /\ t[Front(p)].op \in Logical \cup {"not"}
         /\ Last(p) > 1 => Append(Front(p), Last(p) - 1) \in DOMAIN t
    /\ {open, blocked, edited, searching, retried} \subseteq BOOLEAN

\* Whatever sequence of edits led to it, a filter that Execute sends is refused
\* only for what the browser cannot tell: the server's limits, a number or a
\* regular expression it does not take, or a condition on an attribute that the
\* editor does not offer (a foreign key) but keeps when the filter came with one.
ExecutedIsValid ==
    \A p \in DOMAIN sent :
        sent[p].attr \in Filterable \cup {NoAttr} =>
            _compile_predicate(sent, p) \in {"ok", "limit", "value"}

\* An open editor that was not edited shows the filter in effect, or that it
\* cannot be edited: a filter that changed underneath (a quick filter, a late
\* answer) is never overwritten by one the user did not see.
FreshUnlessEdited ==
    open /\ ~ edited =>
        /\ blocked = predicate_contains_not(eff)
        /\ draft = IF blocked THEN NullFilter ELSE eff

\* Any number of quick filters nests a filter at most one level deeper (two when
\* there was none) than the filter they started from: the one executed last, or
\* the list's own where the empty one was executed.  So they do not use up the
\* server's nesting depth.
NestingBounded == Depth(eff) <= IF level = 0 THEN 2 ELSE level + 1

=============================================================================
