-------------------------- MODULE ListPageProofs --------------------------
(***************************************************************************)
(* What the list page shows, for every set of lists, records, filters and  *)
(* page sizes.                                                             *)
(*                                                                         *)
(* The properties of the page at rest hold because of what is true of the  *)
(* searches under way.  Of a search of the current generation, as long as  *)
(* nothing muddled the page, it is known that it was sent for this list    *)
(* and with the sort of now (Current), so its answer may be put on the     *)
(* page; a counted one carries the count of its own filter (InFlight).     *)
(* The page keeps that count with the rows (TotalRight), which is what     *)
(* makes a change of the page size sound that asks nothing of the server.  *)
(*                                                                         *)
(* A drag of a column lands where it was aimed because a drag that has not *)
(* been abandoned still holds the column it was started on (DragInv); for  *)
(* the same reason order and widths fit the columns shown (LayoutInv).     *)
(*                                                                         *)
(* The second part of the module is about the filter editor of the page.   *)
(***************************************************************************)
EXTENDS ListPage, FilterEditor, FiniteSetTheorems, SequenceTheorems, WellFoundedInduction, TLAPS

\* The parts of the state that the other invariants calculate with.
Typed ==
    /\ db \subseteq Record /\ gen \in Nat
    /\ paging \in [limit : PerPage, offset : Nat]
    /\ search = [of |-> search.of, asof |-> search.asof, torn |-> search.torn,
                 total |-> search.total, rows |-> search.rows, limit |-> search.limit,
                 offset |-> search.offset, eff |-> search.eff]
    /\ search.asof \subseteq Record /\ search.total \in Nat
    /\ search.limit \in PerPage /\ search.offset \in Nat

\* A search under way, of this generation or an earlier one.
Request(r) ==
    /\ DOMAIN r = {"id", "of", "gen", "pred", "sort", "limit", "offset", "at", "total", "counted"}
    /\ r.gen \in Nat /\ r.limit \in PerPage /\ r.offset \in Nat /\ r.total \in Nat
    /\ r.at = "counted" => r.total = Cardinality(Matching(r.counted, r.pred))

InFlight == \A r \in flight : Request(r) /\ r.gen <= gen

Current ==
    ~ muddled => \A r \in flight : r.gen = gen => r.of = dest /\ r.sort = sort

TotalRight ==
    ~ failed /\ ~ search.torn =>
        search.total = Cardinality(Matching(search.asof, search.eff))

ListInv ==
    /\ Typed /\ InFlight /\ Current /\ TotalRight
    /\ RowsOfThisList /\ ShownIsAsked /\ BusyExplained

----------------------------------------------------------------------------
\* Operators

\* A filter matches finitely many records.
LEMMA MatchingFinite ==
    ASSUME NEW rs, rs \subseteq Record, NEW p
    PROVE  Cardinality(Matching(rs, p)) \in Nat
<1>1. Matching(rs, p) \subseteq Record
  BY DEF Matching
<1>2. IsFiniteSet(Matching(rs, p))
  BY <1>1, ListAssumption, FS_Subset DEF ListAssumption
<1> QED
  BY <1>2, FS_CardinalityType

\* The last page of any list starts at a record.
LEMMA LastPageStart ==
    ASSUME NEW total \in Nat, NEW per \in Nat \ {0}
    PROVE  last_page_start(total, per) - 1 \in Nat
<1>1. CASE total <= 0
  BY <1>1 DEF last_page_start
<1>2. CASE total > 0
  <2> DEFINE q == (total - 1) \div per
  <2>1. q \in Nat
    BY <1>2
  <2>2. q * per \in Nat
    BY <2>1
  <2> HIDE DEF q
  <2>3. last_page_start(total, per) = q * per + 1
    BY <1>2 DEF last_page_start, q
  <2> QED
    BY <2>2, <2>3
<1> QED
  BY <1>1, <1>2

\* Page sizes that show equally many rows from an offset show the same rows:
\* per_page_change_needs_refresh asks for a search whenever they do not.
LEMMA SameWindow ==
    ASSUME NEW rs, rs \subseteq Record, NEW p, NEW s,
           NEW offset \in Nat, NEW old \in Nat, NEW new \in Nat, old # new,
           ~ per_page_change_needs_refresh(offset + 1, Cardinality(Matching(rs, p)), old, new)
    PROVE  Window(rs, p, s, old, offset) = Window(rs, p, s, new, offset)
<1> DEFINE n == Cardinality(Matching(rs, p))
           End(limit) == IF offset + limit < n THEN offset + limit ELSE n
<1>1. n \in Nat
  BY MatchingFinite
<1> HIDE DEF n
<1>2. visible_row_count(n, offset, old) = visible_row_count(n, offset, new)
  BY <1>1 DEF per_page_change_needs_refresh, n
<1>3. End(old) = End(new)
  BY <1>1, <1>2 DEF visible_row_count
<1> QED
  BY <1>3 DEF Window, n

----------------------------------------------------------------------------
\* Steps

\* What the loader brings is a page that keeps the invariant's promises.
LEMMA LoadedRight ==
    ASSUME NEW d, db \subseteq Record
    PROVE  /\ Loaded(d).asof \subseteq Record /\ Loaded(d).total \in Nat
           /\ Loaded(d).limit \in PerPage /\ Loaded(d).offset \in Nat
           /\ Loaded(d).total = Cardinality(Matching(Loaded(d).asof, Loaded(d).eff))
           /\ Loaded(d).rows = Window(Loaded(d).asof, Loaded(d).eff, <<>>, Loaded(d).limit, Loaded(d).offset)
BY MatchingFinite, ListAssumption DEF Loaded, ListAssumption

\* A step that touches neither the page nor its searches.
LEMMA QuietKeeps ==
    ASSUME ListInv, db' \subseteq Record,
           UNCHANGED <<dest, search, sort, paging, gen, busy, failed, flight, muddled, lost>>
    PROVE  ListInv'
BY DEF ListInv, Typed, InFlight, Request, Current, TotalRight, RowsOfThisList, ShownIsAsked,
       BusyExplained, Mounted

\* submit_search: a search of this list with the sort that the page has now.
LEMMA SendKeeps ==
    ASSUME ListInv, NEW d, NEW p, NEW limit \in PerPage, NEW offset \in Nat,
           NEW fs \in SUBSET flight,
           Send(d, p, sort', limit, offset, fs),
           UNCHANGED <<db, dest, search, gen, failed, lost>>
    PROVE  ListInv'
<1> DEFINE new == [id |-> used.req, of |-> d, gen |-> gen, pred |-> p, sort |-> sort', limit |-> limit,
                   offset |-> offset, at |-> "sent", total |-> 0, counted |-> {}]
<1>1. /\ paging' = [limit |-> limit, offset |-> offset] /\ busy'
      /\ flight' = fs \cup {new}
      /\ muddled' = (muddled \/ d # dest \/ \E r \in fs : r.gen = gen)
  BY DEF Send
<1>2. gen \in Nat
  BY DEF ListInv, Typed
<1>3. Request(new) /\ new.gen = gen /\ new.of = d /\ new.sort = sort'
  BY <1>2, Zenon DEF Request
<1> HIDE DEF new
<1>4. Typed'
  BY <1>1 DEF ListInv, Typed
<1>5. InFlight'
  BY <1>1, <1>2, <1>3 DEF ListInv, InFlight, Request
<1>6. Current'
  BY <1>1, <1>3 DEF Current
<1>7. TotalRight'
  BY DEF ListInv, TotalRight
<1>8. RowsOfThisList'
  BY <1>1 DEF ListInv, RowsOfThisList, Mounted
<1>9. ShownIsAsked'
  BY <1>1 DEF ShownIsAsked
<1>10. BusyExplained'
  BY <1>1, <1>3 DEF BusyExplained
<1> QED
  BY <1>4, <1>5, <1>6, <1>7, <1>8, <1>9, <1>10 DEF ListInv

LEMMA InitInv == Init => ListInv
<1> SUFFICES ASSUME Init PROVE ListInv
  OBVIOUS
<1>1. PICK d \in Dest : dest = d /\ search = Loaded(d)
  BY DEF Init
<1>2. db \subseteq Record /\ gen = 1 /\ sort = <<>> /\ ~ busy /\ flight = {}
      /\ paging = [limit |-> DefaultPerPage, offset |-> 0]
  BY DEF Init
<1>3. Typed
  <2>1. search = [of |-> search.of, asof |-> search.asof, torn |-> search.torn,
                 total |-> search.total, rows |-> search.rows, limit |-> search.limit,
                 offset |-> search.offset, eff |-> search.eff]
    BY <1>1 DEF Loaded
  <2> QED
    BY <1>1, <1>2, <2>1, LoadedRight, ListAssumption DEF Typed, ListAssumption
<1>4. TotalRight
  BY <1>1, <1>2, LoadedRight DEF TotalRight
<1>5. RowsOfThisList
  BY <1>1 DEF RowsOfThisList, Loaded
<1>6. ShownIsAsked
  BY <1>1, <1>2, LoadedRight DEF ShownIsAsked
<1> QED
  BY <1>2, <1>3, <1>4, <1>5, <1>6 DEF ListInv, InFlight, Current, BusyExplained

\* Another list: a new generation, so no search under way counts any more.
LEMMA ArriveOtherKeeps == ListInv /\ ArriveOther => ListInv'
<1> SUFFICES ASSUME ListInv, ArriveOther PROVE ListInv'
  OBVIOUS
<1>1. /\ dest' = nav /\ search' = Loaded(nav) /\ sort' = <<>> /\ ~ busy'
      /\ paging' = [limit |-> DefaultPerPage, offset |-> 0] /\ gen' = gen + 1
      /\ db' = db /\ flight' = flight /\ gen \in Nat /\ db \subseteq Record
  BY DEF ArriveOther, PathEffect, ListInv, Typed
<1>2. Typed'
  <2>1. search' = [of |-> search'.of, asof |-> search'.asof, torn |-> search'.torn,
                 total |-> search'.total, rows |-> search'.rows, limit |-> search'.limit,
                 offset |-> search'.offset, eff |-> search'.eff]
    BY <1>1 DEF Loaded
  <2> QED
    BY <1>1, <2>1, LoadedRight, ListAssumption DEF Typed, ListAssumption
<1>3. InFlight' /\ Current'
  <2>1. \A r \in flight : Request(r) /\ r.gen \in Nat /\ r.gen <= gen
    BY DEF ListInv, InFlight, Request
  <2>2. \A r \in flight : r.gen <= gen + 1 /\ r.gen # gen + 1
    BY <1>1, <2>1
  <2> QED
    BY <1>1, <2>1, <2>2 DEF InFlight, Request, Current
<1>4. TotalRight'
  BY <1>1, LoadedRight DEF TotalRight
<1>5. RowsOfThisList'
  BY <1>1 DEF RowsOfThisList, Loaded
<1>6. ShownIsAsked'
  BY <1>1, LoadedRight DEF ShownIsAsked
<1> QED
  BY <1>1, <1>2, <1>3, <1>4, <1>5, <1>6 DEF ListInv, BusyExplained

\* The same list again: only the sort may change, which is recorded as muddled.
LEMMA ArriveSameKeeps == ListInv /\ ArriveSame => ListInv'
<1> SUFFICES ASSUME ListInv, ArriveSame PROVE ListInv'
  OBVIOUS
<1>1. (sort' = sort /\ muddled' = muddled) \/ muddled'
  BY DEF ArriveSame
<1>2. UNCHANGED <<db, dest, search, paging, gen, busy, failed, flight, lost>>
  BY DEF ArriveSame
<1> QED
  BY <1>1, <1>2 DEF ListInv, Typed, InFlight, Request, Current, TotalRight, RowsOfThisList,
                    ShownIsAsked, BusyExplained, Mounted

\* The error page: no list is mounted and no search is waited for.
LEMMA ArriveErrorKeeps == ListInv /\ ArriveError => ListInv'
BY DEF ArriveError, ListInv, Typed, InFlight, Current, TotalRight, RowsOfThisList,
       ShownIsAsked, BusyExplained, Mounted

\* A page size that needs no search shows the rows that are already there.
LEMMA PerPageKeeps ==
    ASSUME ListInv, NEW n \in PerPage, on_per_page_change(n)
    PROVE  ListInv'
<1>1. PerPage \subseteq Nat
  BY ListAssumption DEF ListAssumption
<1> DEFINE Needs == per_page_change_needs_refresh(search.offset + 1, search.total, search.limit, n)
<1>2. CASE Needs
  <2>1. Send(dest, effRef, sort', n, search.offset, flight) /\ UNCHANGED <<db, dest, search, gen, failed, lost>>
    BY <1>2 DEF on_per_page_change, UI
  <2> QED
    BY <2>1, SendKeeps DEF ListInv, Typed
<1>3. CASE ~ Needs
  <2>1. /\ search' = [search EXCEPT !.limit = n] /\ search.limit # n
        /\ paging' = [limit |-> n, offset |-> search.offset]
        /\ UNCHANGED <<db, dest, busy, flight, muddled, lost, gen, failed, sort>>
    BY <1>3 DEF on_per_page_change, UI
  <2>2. /\ search' = [of |-> search.of, asof |-> search.asof, torn |-> search.torn,
                 total |-> search.total, rows |-> search.rows, limit |-> n,
                 offset |-> search.offset, eff |-> search.eff]
    BY <2>1 DEF ListInv, Typed
  <2>3. Typed'
    BY <2>1, <2>2 DEF ListInv, Typed
  <2>4. InFlight' /\ Current' /\ TotalRight' /\ RowsOfThisList' /\ BusyExplained'
    BY <2>1, <2>2 DEF ListInv, InFlight, Request, Current, TotalRight, RowsOfThisList, BusyExplained, Mounted
  <2>5. ShownIsAsked'
    <3> SUFFICES ASSUME Mounted, ~ busy, ~ failed, ~ muddled, ~ search.torn
                 PROVE  search.rows = Window(search.asof, search.eff, sort, n, search.offset)
      BY <2>1, <2>2 DEF ShownIsAsked, Mounted
    <3>1. search.rows = Window(search.asof, search.eff, sort, search.limit, search.offset)
      BY DEF ListInv, ShownIsAsked
    <3>2. search.total = Cardinality(Matching(search.asof, search.eff))
      BY DEF ListInv, TotalRight
    <3>3. /\ search.asof \subseteq Record /\ search.offset \in Nat
          /\ search.limit \in Nat /\ n \in Nat
      BY <1>1 DEF ListInv, Typed
    <3> QED
      BY <1>3, <2>1, <3>1, <3>2, <3>3, SameWindow
  <2> QED
    BY <2>3, <2>4, <2>5 DEF ListInv
<1> QED
  BY <1>2, <1>3

----------------------------------------------------------------------------
\* The server and the answers

\* A search that leaves changes nothing for those that stay.
LEMMA FewerInFlight ==
    ASSUME ListInv, NEW r, flight' = flight \ {r},
           UNCHANGED <<dest, sort, gen, muddled>>
    PROVE  InFlight' /\ Current'
BY DEF ListInv, InFlight, Request, Current

LEMMA CountKeeps ==
    ASSUME ListInv, NEW r \in flight, Count(r)
    PROVE  ListInv'
<1> DEFINE c == [r EXCEPT !.at = "counted", !.total = Cardinality(Matching(db, r.pred)), !.counted = db]
<1>1. Request(r) /\ r.gen <= gen /\ gen \in Nat /\ db \subseteq Record
  BY DEF ListInv, Typed, InFlight
<1>2. flight' = (flight \ {r}) \cup {c}
  BY DEF Count
<1>3. UNCHANGED <<db, dest, search, sort, paging, gen, busy, failed, muddled, lost>>
  BY DEF Count, page
<1>4. Cardinality(Matching(db, r.pred)) \in Nat
  BY <1>1, MatchingFinite
<1>5. Request(c) /\ c.gen = r.gen /\ c.of = r.of /\ c.sort = r.sort
  <2>1. /\ DOMAIN c = DOMAIN r /\ c.total = Cardinality(Matching(db, r.pred)) /\ c.counted = db
        /\ c.gen = r.gen /\ c.of = r.of /\ c.sort = r.sort /\ c.pred = r.pred
        /\ c.limit = r.limit /\ c.offset = r.offset
    BY <1>1 DEF Request
  <2> QED
    BY <1>1, <1>4, <2>1 DEF Request
<1> HIDE DEF c
<1>6. Typed' /\ TotalRight' /\ RowsOfThisList' /\ ShownIsAsked'
  BY <1>3 DEF ListInv, Typed, TotalRight, RowsOfThisList, ShownIsAsked, Mounted
<1>7. InFlight'
  BY <1>1, <1>2, <1>3, <1>5 DEF ListInv, InFlight, Request
<1>8. Current'
  BY <1>2, <1>3, <1>5 DEF ListInv, Current
<1>9. BusyExplained'
  BY <1>2, <1>3, <1>5 DEF ListInv, BusyExplained
<1> QED
  BY <1>6, <1>7, <1>8, <1>9 DEF ListInv

LEMMA DroppedKeeps ==
    ASSUME ListInv, NEW r \in flight, Dropped(r) \/ Lost(r)
    PROVE  ListInv'
<1>1. UNCHANGED <<db, dest, search, sort, paging, gen, busy, failed, muddled>> /\ flight' = flight \ {r}
  BY DEF Dropped, Lost, page
<1>2. (lost => lost') /\ (r.gen = gen => lost')
  <2>1. CASE Dropped(r)
    BY <2>1, Zenon DEF Dropped
  <2>2. CASE Lost(r)
    BY <2>2, Zenon DEF Lost
  <2> QED
    BY <2>1, <2>2
<1>3. InFlight' /\ Current'
  BY <1>1, FewerInFlight
<1>4. Typed' /\ TotalRight' /\ RowsOfThisList' /\ ShownIsAsked'
  BY <1>1 DEF ListInv, Typed, TotalRight, RowsOfThisList, ShownIsAsked, Mounted
<1>5. BusyExplained'
  BY <1>1, <1>2 DEF ListInv, BusyExplained
<1> QED
  BY <1>3, <1>4, <1>5 DEF ListInv

LEMMA ReclampKeeps ==
    ASSUME ListInv, NEW r \in flight, Reclamp(r)
    PROVE  ListInv'
<1>1. Request(r)
  BY DEF ListInv, InFlight
<1>2. last_page_start(r.total, r.limit) - 1 \in Nat
  BY <1>1, LastPageStart, ListAssumption DEF Request, ListAssumption
<1>3. /\ Send(r.of, r.pred, sort', r.limit, last_page_start(r.total, r.limit) - 1, flight \ {r})
      /\ UNCHANGED <<db, dest, search, gen, failed, lost>>
  BY DEF Reclamp
<1>4. r.limit \in PerPage /\ flight \ {r} \in SUBSET flight
  BY <1>1 DEF Request
<1> QED
  BY <1>2, <1>3, <1>4, SendKeeps

\* The answer of a search of this generation fills the page.
LEMMA ApplyKeeps ==
    ASSUME ListInv, NEW r \in flight, Apply(r)
    PROVE  ListInv'
<1>1. Request(r) /\ r.gen = gen /\ r.at = "counted" /\ db \subseteq Record
  BY DEF ListInv, Typed, InFlight, Apply
<1>2. ~ muddled => r.of = dest /\ r.sort = sort
  BY <1>1 DEF ListInv, Current
<1>3. /\ ~ busy' /\ flight' = flight \ {r}
      /\ paging' = [limit |-> r.limit, offset |-> r.offset]
      /\ UNCHANGED <<db, dest, sort, gen, muddled, lost>>
  BY DEF Apply
<1>4. search' = [of |-> r.of, asof |-> db, torn |-> r.counted # db, total |-> r.total,
                  rows |-> Window(db, r.pred, r.sort, r.limit, r.offset),
                  limit |-> r.limit, offset |-> r.offset, eff |-> r.pred]
  BY DEF Apply
<1>5. Typed'
  BY <1>1, <1>3, <1>4 DEF ListInv, Typed, Request
<1>6. InFlight' /\ Current'
  BY <1>3, FewerInFlight
<1>7. TotalRight'
  BY <1>1, <1>4 DEF TotalRight, Request
<1>8. RowsOfThisList'
  BY <1>2, <1>3, <1>4 DEF RowsOfThisList
<1>9. ShownIsAsked'
  BY <1>2, <1>3, <1>4 DEF ShownIsAsked
<1> QED
  BY <1>3, <1>5, <1>6, <1>7, <1>8, <1>9 DEF ListInv, BusyExplained

LEMMA FailsKeeps ==
    ASSUME ListInv, NEW r \in flight, Fails(r)
    PROVE  ListInv'
<1>1. /\ ~ busy' /\ failed' /\ flight' = flight \ {r}
      /\ UNCHANGED <<db, dest, sort, gen, muddled, lost>>
  BY DEF Fails
<1>2. search' = [of |-> search.of, asof |-> search.asof, torn |-> search.torn,
                 total |-> 0, rows |-> <<>>, limit |-> search.limit,
                 offset |-> 0, eff |-> search.eff]
  BY DEF Fails, ListInv, Typed
<1>3. Typed'
  <2>1. paging' \in [limit : PerPage, offset : Nat]
    BY DEF Fails, ListInv, Typed
  <2> QED
    BY <1>1, <1>2, <2>1 DEF ListInv, Typed
<1>4. InFlight' /\ Current'
  BY <1>1, FewerInFlight
<1>5. RowsOfThisList'
  BY <1>1, <1>2 DEF ListInv, RowsOfThisList, Mounted
<1> QED
  BY <1>1, <1>3, <1>4, <1>5 DEF ListInv, TotalRight, ShownIsAsked, BusyExplained

----------------------------------------------------------------------------
\* Every step of the page, of the user and of the server keeps the invariant.
LEMMA NextInv == ListInv /\ [Next]_vars => ListInv'
<1> SUFFICES ASSUME ListInv, [Next]_vars PROVE ListInv'
  OBVIOUS
<1>0. /\ db \subseteq Record /\ paging.limit \in PerPage /\ paging.offset \in Nat
      /\ search.limit \in PerPage /\ search.offset \in Nat /\ search.total \in Nat
  BY DEF ListInv, Typed
<1>1. CASE \E d \in Dest : Navigate(d)
  BY <1>0, <1>1, QuietKeeps DEF Navigate, page
<1>2. CASE ArriveOther \/ ArriveSame \/ ArriveError
  BY <1>2, ArriveOtherKeeps, ArriveSameKeeps, ArriveErrorKeeps
<1>3. CASE on_refresh
  <2>1. /\ Send(dest, effRef, sort', paging.limit, paging.offset, flight)
        /\ UNCHANGED <<db, dest, search, gen, failed, lost>>
    BY <1>3 DEF on_refresh, UI, Idle
  <2> QED
    BY <1>0, <2>1, SendKeeps
<1>4. CASE on_date_enter
  BY <1>0, <1>4, QuietKeeps DEF on_date_enter, UI, page
<1>5. CASE \E p \in ExecPred : on_execute(p)
  <2>1. PICK p : /\ Send(dest, p, sort', paging.limit, 0, flight)
                 /\ UNCHANGED <<db, dest, search, gen, failed, lost>>
    BY <1>5 DEF on_execute, UI, Idle
  <2> QED
    BY <1>0, <2>1, SendKeeps
<1>6. CASE \E a \in SortAttr : on_sort_click(a)
  <2>1. /\ Send(dest, effRef, sort', paging.limit, paging.offset, flight)
        /\ UNCHANGED <<db, dest, search, gen, failed, lost>>
    BY <1>6 DEF on_sort_click, UI, Idle
  <2> QED
    BY <1>0, <2>1, SendKeeps
<1>7. CASE \E q \in QuickInput : on_quick_filter_enter(q)
  <2>1. PICK p : /\ Send(dest, p, sort', paging.limit, 0, flight)
                 /\ UNCHANGED <<db, dest, search, gen, failed, lost>>
    BY <1>7 DEF on_quick_filter_enter, QuickFilter, UI, Idle
  <2> QED
    BY <1>0, <2>1, SendKeeps
<1>8. CASE \E q \in QuickInput : DelayedEnter(q)
  <2>1. PICK q \in QuickInput : DelayedEnter(q)
    BY <1>8
  <2>2. CASE QuickFilter(timer, q)
    <3>1. PICK p : /\ Send(timer, p, sort', paging.limit, 0, flight)
                   /\ UNCHANGED <<db, dest, search, gen, failed, lost>>
      BY <2>1, <2>2 DEF DelayedEnter, QuickFilter, UI, Idle
    <3> QED
      BY <1>0, <3>1, SendKeeps
  <2>3. CASE ~ QuickFilter(timer, q)
    BY <1>0, <2>1, <2>3, QuietKeeps DEF DelayedEnter, UI, Idle
  <2> QED
    BY <2>2, <2>3
<1>9. CASE \E o \in PagerOffset : on_page(o)
  <2>1. PICK o \in PagerOffset : on_page(o)
    BY <1>9
  <2>2. o \in Int
    <3>1. search.limit \in Nat \ {0}
      BY <1>0, ListAssumption DEF ListAssumption
    <3>2. last_page_start(search.total, search.limit) - 1 \in Nat
      BY <1>0, <3>1, LastPageStart
    <3>3. last_page_start(search.total, search.limit) \in Int
      BY <1>0, <3>1 DEF last_page_start
    <3>4. ASSUME NEW s \in 0 .. 3
          PROVE  clamp_starting_record(s, search.total, search.limit) - 1 \in Int
      BY <3>3 DEF clamp_starting_record
    <3> QED
      BY <1>0, <2>1, <3>1, <3>2, <3>4 DEF PagerOffset
  <2>3. PICK to \in Nat : /\ Send(dest, effRef, sort', search.limit, to, flight)
                          /\ UNCHANGED <<db, dest, search, gen, failed, lost>>
    <3> DEFINE to == IF o < 0 THEN 0 ELSE o
    <3>1. to \in Nat
      BY <2>2
    <3>2. Send(dest, effRef, sort', search.limit, to, flight) /\ UNCHANGED <<db, dest, search, gen, failed, lost>>
      BY <2>1 DEF on_page, UI, Idle
    <3> QED
      BY <3>1, <3>2
  <2> QED
    BY <1>0, <2>3, SendKeeps
<1>10. CASE \E n \in PerPage : on_per_page_change(n)
  BY <1>10, PerPageKeeps
<1>11. CASE \E r \in flight : Count(r) \/ Dropped(r) \/ Reclamp(r) \/ Apply(r) \/ Fails(r) \/ Lost(r)
  BY <1>11, CountKeeps, DroppedKeeps, ReclampKeeps, ApplyKeeps, FailsKeeps
<1>12. CASE \E r \in Record : Write(r)
  <2>1. PICK r \in Record : Write(r)
    BY <1>12
  <2>2. db' \subseteq Record
    BY <1>0, <2>1 DEF Write
  <2> QED
    BY <2>1, <2>2, QuietKeeps DEF Write, page
<1>13. CASE Gesture
  BY <1>0, <1>13, QuietKeeps DEF Gesture, page
<1>14. CASE UNCHANGED vars
  BY <1>0, <1>14, QuietKeeps DEF vars, page
<1> QED
  BY <1>1, <1>2, <1>3, <1>4, <1>5, <1>6, <1>7, <1>8, <1>9, <1>10, <1>11, <1>12, <1>13, <1>14
  DEF Next, on_grip_pointer_down, on_grip_pointer_move, on_grip_pointer_end,
      on_resize_pointer_down, on_resize_pointer_move, on_resize_pointer_end

\* The inductive invariant of the list page: what is known of the searches
\* under way, of the count kept with the rows, and the three properties below.
THEOREM ListInvariant == Spec => []ListInv
<1>1. Init => ListInv
  BY InitInv
<1>2. ListInv /\ [Next]_vars => ListInv'
  BY NextInv
<1> QED
  BY <1>1, <1>2, PTL DEF Spec

\* The generation check of submit_search keeps the rows of one list off the
\* page of another, however late an answer comes.
THEOREM RowsBelongHere == Spec => []RowsOfThisList
<1>1. ListInv => RowsOfThisList
  BY DEF ListInv
<1> QED
  BY <1>1, ListInvariant, PTL

\* The rows of a page at rest are the rows that its filter, its sort marks
\* and its pager say, also where a new page size asked nothing of the server.
THEOREM PageShowsWhatItSays == Spec => []ShownIsAsked
<1>1. ListInv => ShownIsAsked
  BY DEF ListInv
<1> QED
  BY <1>1, ListInvariant, PTL

\* The buttons disabled by a search come back with its answer: the page is
\* busy only while a search of its own is under way or got lost.
THEOREM BusyHasReason == Spec => []BusyExplained
<1>1. ListInv => BusyExplained
  BY DEF ListInv
<1> QED
  BY <1>1, ListInvariant, PTL

----------------------------------------------------------------------------
\* Columns

LEMMA RemoveAtEntries ==
    ASSUME NEW S, NEW o \in Seq(S), NEW k \in 1 .. Len(o)
    PROVE  /\ RemoveAt(o, k) \in Seq(S) /\ Len(RemoveAt(o, k)) = Len(o) - 1
           /\ \A i \in 1 .. Len(o) - 1 : RemoveAt(o, k)[i] = IF i < k THEN o[i] ELSE o[i + 1]
<1> DEFINE n == Len(o)
           a == SubSeq(o, 1, k - 1)
           b == SubSeq(o, k + 1, n)
<1>1. n \in Nat /\ k \in Int /\ 1 <= k /\ k <= n /\ \A i \in 1 .. n : o[i] \in S
  OBVIOUS
<1>2. /\ a \in Seq(S) /\ Len(a) = k - 1
      /\ \A i \in 1 .. k - 1 : a[i] = o[i]
  <2>1. 1 \in Int /\ k - 1 \in Int /\ \A i \in 1 .. k - 1 : o[i] \in S
    BY <1>1
  <2>2. /\ a \in Seq(S) /\ Len(a) = IF 1 <= k - 1 THEN (k - 1) - 1 + 1 ELSE 0
        /\ \A i \in 1 .. (k - 1) - 1 + 1 : a[i] = o[1 + i - 1]
    BY <2>1, SubSeqProperties
  <2> HIDE DEF a
  <2> QED
    BY <1>1, <2>2
<1>3. /\ b \in Seq(S) /\ Len(b) = n - k
      /\ \A i \in 1 .. n - k : b[i] = o[k + i]
  <2>1. n \in Int /\ k + 1 \in Int /\ \A i \in k + 1 .. n : o[i] \in S
    BY <1>1
  <2>2. /\ b \in Seq(S) /\ Len(b) = IF k + 1 <= n THEN n - (k + 1) + 1 ELSE 0
        /\ \A i \in 1 .. n - (k + 1) + 1 : b[i] = o[(k + 1) + i - 1]
    BY <2>1, SubSeqProperties
  <2> HIDE DEF b, n
  <2> QED
    BY <1>1, <2>2
<1>4. RemoveAt(o, k) = a \o b
  BY DEF RemoveAt
<1> HIDE DEF a, b, n
<1>5. /\ a \o b \in Seq(S) /\ Len(a \o b) = Len(a) + Len(b)
      /\ \A i \in 1 .. Len(a) + Len(b) : (a \o b)[i] = IF i <= Len(a) THEN a[i] ELSE b[i - Len(a)]
  BY <1>2, <1>3, ConcatProperties
<1>6. Len(a) + Len(b) = n - 1
  BY <1>1, <1>2, <1>3
<1>7. ASSUME NEW i \in 1 .. n - 1
      PROVE  (a \o b)[i] = IF i < k THEN o[i] ELSE o[i + 1]
  <2>1. CASE i < k
    BY <1>1, <1>2, <1>5, <1>6, <2>1
  <2>2. CASE ~ (i < k)
    <3>1. i - (k - 1) \in 1 .. n - k /\ k + (i - (k - 1)) = i + 1 /\ ~ (i <= k - 1)
      BY <1>1, <2>2
    <3>2. (a \o b)[i] = b[i - (k - 1)]
      BY <1>2, <1>5, <1>6, <3>1
    <3> QED
      BY <1>3, <2>2, <3>1, <3>2
  <2> QED
    BY <2>1, <2>2
<1> QED
  BY <1>4, <1>5, <1>6, <1>7 DEF n

LEMMA InsertAtEntries ==
    ASSUME NEW S, NEW o \in Seq(S), NEW k \in 1 .. Len(o) + 1, NEW e \in S
    PROVE  /\ InsertAt(o, k, e) \in Seq(S) /\ Len(InsertAt(o, k, e)) = Len(o) + 1
           /\ \A i \in 1 .. Len(o) + 1 :
                InsertAt(o, k, e)[i] = IF i < k THEN o[i] ELSE IF i = k THEN e ELSE o[i - 1]
<1> DEFINE n == Len(o)
           a == SubSeq(o, 1, k - 1)
           b == SubSeq(o, k, n)
           c == <<e>>
<1>1. n \in Nat /\ k \in Int /\ 1 <= k /\ k <= n + 1 /\ \A i \in 1 .. n : o[i] \in S
  OBVIOUS
<1>2. /\ a \in Seq(S) /\ Len(a) = k - 1
      /\ \A i \in 1 .. k - 1 : a[i] = o[i]
  <2>1. 1 \in Int /\ k - 1 \in Int /\ \A i \in 1 .. k - 1 : o[i] \in S
    BY <1>1
  <2>2. /\ a \in Seq(S) /\ Len(a) = IF 1 <= k - 1 THEN (k - 1) - 1 + 1 ELSE 0
        /\ \A i \in 1 .. (k - 1) - 1 + 1 : a[i] = o[1 + i - 1]
    BY <2>1, SubSeqProperties
  <2> HIDE DEF a
  <2> QED
    BY <1>1, <2>2
<1>3. /\ b \in Seq(S) /\ Len(b) = n - k + 1
      /\ \A i \in 1 .. n - k + 1 : b[i] = o[k + i - 1]
  <2>1. n \in Int /\ k \in Int /\ \A i \in k .. n : o[i] \in S
    BY <1>1
  <2>2. /\ b \in Seq(S) /\ Len(b) = IF k <= n THEN n - k + 1 ELSE 0
        /\ \A i \in 1 .. n - k + 1 : b[i] = o[k + i - 1]
    BY <2>1, SubSeqProperties
  <2> HIDE DEF b, n
  <2> QED
    BY <1>1, <2>2
<1>4. InsertAt(o, k, e) = (a \o c) \o b
  BY DEF InsertAt
<1>5. c \in Seq(S) /\ Len(c) = 1 /\ c[1] = e
  OBVIOUS
<1> HIDE DEF a, b, c, n
<1> DEFINE ac == a \o c
<1>6. ac \in Seq(S) /\ Len(ac) = k /\ \A i \in 1 .. k : ac[i] = IF i < k THEN o[i] ELSE e
  <2>1. /\ ac \in Seq(S) /\ Len(ac) = Len(a) + Len(c)
        /\ \A i \in 1 .. Len(a) + Len(c) : ac[i] = IF i <= Len(a) THEN a[i] ELSE c[i - Len(a)]
    BY <1>2, <1>5, ConcatProperties
  <2> HIDE DEF ac
  <2>2. Len(ac) = k
    BY <1>1, <1>2, <1>5, <2>1
  <2>3. ASSUME NEW i \in 1 .. k PROVE ac[i] = IF i < k THEN o[i] ELSE e
    <3>1. CASE i < k
      BY <1>1, <1>2, <1>5, <2>1, <3>1
    <3>2. CASE ~ (i < k)
      <4>1. i = k /\ ~ (i <= Len(a)) /\ i - Len(a) = 1
        BY <1>1, <1>2, <3>2
      <4> QED
        BY <1>1, <1>2, <1>5, <2>1, <4>1
    <3> QED
      BY <3>1, <3>2
  <2> QED
    BY <2>1, <2>2, <2>3
<1> HIDE DEF ac
<1>7. /\ ac \o b \in Seq(S) /\ Len(ac \o b) = Len(ac) + Len(b)
      /\ \A i \in 1 .. Len(ac) + Len(b) : (ac \o b)[i] = IF i <= Len(ac) THEN ac[i] ELSE b[i - Len(ac)]
  BY <1>3, <1>6, ConcatProperties
<1>8. Len(ac) + Len(b) = n + 1
  BY <1>1, <1>3, <1>6
<1>9. ASSUME NEW i \in 1 .. n + 1
      PROVE  (ac \o b)[i] = IF i < k THEN o[i] ELSE IF i = k THEN e ELSE o[i - 1]
  <2>1. CASE i <= k
    BY <1>1, <1>6, <1>7, <1>8, <2>1
  <2>2. CASE ~ (i <= k)
    <3>1. i - k \in 1 .. n - k + 1 /\ k + (i - k) - 1 = i - 1 /\ ~ (i < k) /\ i # k
      BY <1>1, <2>2
    <3>2. (ac \o b)[i] = b[i - k]
      BY <1>6, <1>7, <1>8, <2>2
    <3> QED
      BY <1>3, <3>1, <3>2
  <2> QED
    BY <2>1, <2>2
<1> QED
  BY <1>4, <1>7, <1>8, <1>9 DEF n, ac

LEMMA FoundAt ==
    ASSUME NEW S, NEW o \in Seq(S), IsInjective(o), NEW k \in 1 .. Len(o)
    PROVE  At(o, o[k]) = k
<1>1. DOMAIN o = 1 .. Len(o)
  OBVIOUS
<1> QED
  BY <1>1 DEF At, IsInjective

\* Where move_column_order puts a column: before the one that was at the target.
LEMMA MoveLands ==
    ASSUME NEW S, NEW o \in Seq(S), IsInjective(o), NEW from \in 1 .. Len(o),
           NEW to \in 1 .. Len(o) + 1, to \notin {from, from + 1}
    PROVE  LET m == move_column_order(o, from, to)
               i == At(m, o[from])
           IN  /\ m \in Seq(S) /\ IsInjective(m) /\ Len(m) = Len(o)
               /\ Without(m, o[from]) = Without(o, o[from])
               /\ IF to > Len(o) THEN i = Len(m) ELSE i < Len(m) /\ m[i + 1] = o[to]
<1> DEFINE n == Len(o)
           e == o[from]
           r == RemoveAt(o, from)
           t == IF from < to THEN to - 1 ELSE to
           m == InsertAt(r, t, e)
<1>0. n \in Nat /\ from \in Int /\ to \in Int /\ e \in S /\ DOMAIN o = 1 .. n
  OBVIOUS
<1>1. move_column_order(o, from, to) = m
  BY DEF move_column_order
<1>2. r \in Seq(S) /\ Len(r) = n - 1 /\ \A i \in 1 .. n - 1 : r[i] = IF i < from THEN o[i] ELSE o[i + 1]
  BY RemoveAtEntries
<1>3. t \in 1 .. n /\ t \in Int
  BY <1>0
<1>4. At(o, e) = from
  BY FoundAt
<1> HIDE DEF r, e
<1>5. /\ m \in Seq(S) /\ Len(m) = n
      /\ \A i \in 1 .. n : m[i] = IF i < t THEN r[i] ELSE IF i = t THEN e ELSE r[i - 1]
  <2>1. Len(r) + 1 = n /\ t \in 1 .. Len(r) + 1
    BY <1>0, <1>2, <1>3
  <2>0. r \in Seq(S) /\ e \in S /\ t \in 1 .. Len(r) + 1
    BY <1>0, <1>2, <2>1
  <2> HIDE DEF t, n
  <2>2. /\ m \in Seq(S) /\ Len(m) = Len(r) + 1
        /\ \A i \in 1 .. Len(r) + 1 : m[i] = IF i < t THEN r[i] ELSE IF i = t THEN e ELSE r[i - 1]
    BY <2>0, InsertAtEntries
  <2> HIDE DEF m
  <2> QED
    BY <2>1, <2>2
<1> DEFINE g == [i \in 1 .. n |-> IF i = t THEN from
                                  ELSE LET j == IF i < t THEN i ELSE i - 1 IN IF j < from THEN j ELSE j + 1]
<1>6. ASSUME NEW i \in 1 .. n PROVE g[i] \in 1 .. n /\ m[i] = o[g[i]]
  <2> DEFINE j == IF i < t THEN i ELSE i - 1
  <2> HIDE DEF m
  <2>1. CASE i = t
    BY <1>0, <1>5, <2>1 DEF e
  <2>2. CASE i # t
    <3>1. j \in 1 .. n - 1 /\ m[i] = r[j]
      <4> HIDE DEF t
      <4> QED
        BY <1>0, <1>3, <1>5, <2>2
    <3>2. g[i] = IF j < from THEN j ELSE j + 1
      BY <2>2
    <3> HIDE DEF j, t, g, n
    <3>3. r[j] = o[g[i]]
      BY <1>2, <3>1, <3>2
    <3>4. g[i] \in 1 .. n
      BY <1>0, <3>1, <3>2
    <3> QED
      BY <3>1, <3>3, <3>4
  <2> QED
    BY <2>1, <2>2
<1>7. ASSUME NEW i \in 1 .. n, NEW j \in 1 .. n, g[i] = g[j] PROVE i = j
  <2> HIDE DEF t, m
  <2> QED
    BY <1>0, <1>3, <1>7
<1> HIDE DEF g
<1>8. IsInjective(m)
  <2> HIDE DEF m
  <2>1. DOMAIN m = 1 .. n
    BY <1>5
  <2>2. ASSUME NEW i \in 1 .. n, NEW j \in 1 .. n, m[i] = m[j] PROVE i = j
    BY <1>0, <1>6, <1>7, <2>2 DEF IsInjective
  <2> QED
    BY <2>1, <2>2 DEF IsInjective
<1> HIDE DEF m
<1>9. m[t] = e
  BY <1>3, <1>5
<1>10. At(m, e) = t
  <2>1. t \in 1 .. Len(m)
    BY <1>3, <1>5
  <2> HIDE DEF t
  <2> QED
    BY <1>5, <1>8, <1>9, <2>1, FoundAt
<1>11. RemoveAt(m, t) = r
  <2>1. /\ RemoveAt(m, t) \in Seq(S) /\ Len(RemoveAt(m, t)) = n - 1
        /\ \A i \in 1 .. n - 1 : RemoveAt(m, t)[i] = IF i < t THEN m[i] ELSE m[i + 1]
    <3> HIDE DEF t
    <3> QED
      BY <1>3, <1>5, RemoveAtEntries
  <2> DEFINE q == RemoveAt(m, t)
  <2> HIDE DEF t, q
  <2>2. ASSUME NEW i \in 1 .. n - 1 PROVE q[i] = r[i]
    <3>0. q[i] = IF i < t THEN m[i] ELSE m[i + 1]
      BY <2>1 DEF q
    <3>1. CASE i < t
      BY <1>0, <1>3, <1>5, <3>0, <3>1
    <3>2. CASE ~ (i < t)
      <4>1. i + 1 \in 1 .. n /\ ~ (i + 1 < t) /\ i + 1 # t /\ (i + 1) - 1 = i
        BY <1>0, <1>3, <3>2
      <4> QED
        BY <1>5, <3>0, <3>2, <4>1
    <3> QED
      BY <3>1, <3>2
  <2>3. q = r
    BY <1>2, <2>1, <2>2, SeqEqual DEF q
  <2> QED
    BY <2>3 DEF q
<1>12. Without(m, e) = Without(o, e)
  BY <1>4, <1>10, <1>11 DEF Without, r
<1>13. IF to > n THEN t = n ELSE t < n /\ m[t + 1] = o[to]
  <2>1. CASE to > n
    BY <1>0, <2>1
  <2>2. CASE ~ (to > n)
    <3>1. t + 1 \in 1 .. n /\ ~ (t + 1 < t) /\ t + 1 # t /\ (t + 1) - 1 = t /\ t \in 1 .. n - 1
      BY <1>0, <2>2
    <3>2. m[t + 1] = r[t]
      BY <1>5, <3>1
    <3>3. r[t] = IF t < from THEN o[t] ELSE o[t + 1]
      BY <1>2, <3>1
    <3>4. r[t] = o[to]
      BY <1>0, <3>3
    <3> QED
      BY <1>0, <2>2, <3>1, <3>2, <3>4
  <2> QED
    BY <2>1, <2>2
<1> QED
  BY <1>1, <1>5, <1>8, <1>10, <1>12, <1>13 DEF e

----------------------------------------------------------------------------
\* Drags

Name == UNION {ToSet(cs) : cs \in UNION {Columns[d] : d \in Dest}}

\* The columns on the page are distinct, and a drag has hold of the one that it
\* was started on.
DragInv ==
    /\ nav \in Dest \cup {NoDest}
    /\ order \in Seq(Name) /\ IsInjective(order)
    /\ drag # None => /\ drag = [from |-> drag.from, drop |-> drag.drop, name |-> order[drag.from]]
                      /\ drag.from \in 1 .. Len(order) /\ drag.drop \in 1 .. Len(order) + 1

LEMMA ColumnsNamed ==
    ASSUME NEW d \in Dest, NEW cs \in Columns[d]
    PROVE  cs \in Seq(Name) /\ IsInjective(cs)
<1>1. cs \in Seq(ToSet(cs)) /\ IsInjective(cs)
  BY ListAssumption
<1>2. ToSet(cs) \subseteq Name
  BY DEF Name
<1> HIDE DEF Name
<1>3. Len(cs) \in Nat /\ cs \in [1 .. Len(cs) -> ToSet(cs)]
  BY <1>1
<1>4. cs \in [1 .. Len(cs) -> Name]
  BY <1>2, <1>3
<1> QED
  BY <1>1, <1>3, <1>4

LEMMA DragInit == Init => DragInv
BY ColumnsNamed DEF Init, DragInv

\* What pointer_end does to the order.
LEMMA DropKeeps ==
    ASSUME DragInv, drag # None
    PROVE  LET m == move_column_order(order, drag.from, drag.drop)
           IN  m \in Seq(Name) /\ IsInjective(m)
<1>1. CASE drag.drop \in {drag.from, drag.from + 1}
  BY <1>1 DEF move_column_order, DragInv
<1>2. CASE drag.drop \notin {drag.from, drag.from + 1}
  BY <1>2, MoveLands DEF DragInv
<1> QED
  BY <1>1, <1>2

\* Searches and writes leave the layout of the columns and drags alone.
LEMMA LayoutSteps ==
    ASSUME [Next]_vars
    PROVE  \/ UNCHANGED <<nav, order, drag, cols, widths, live>>
           \/ \E d \in Dest : Navigate(d)
           \/ ArriveOther \/ ArriveSame \/ ArriveError
           \/ \E i \in 1 .. Len(order) + 1 : on_grip_pointer_down(i) \/ on_grip_pointer_move(i)
           \/ on_grip_pointer_end \/ on_resize_pointer_end
           \/ \E w \in Width : on_resize_pointer_move(w)
<1> USE DEF layout, Idle, UI
<1>1. CASE on_refresh \/ on_date_enter
  BY <1>1 DEF on_refresh, on_date_enter
<1>2. CASE \E p \in ExecPred : on_execute(p)
  BY <1>2 DEF on_execute
<1>3. CASE \E a \in SortAttr : on_sort_click(a)
  BY <1>3 DEF on_sort_click
<1>4. CASE \E q \in QuickInput : on_quick_filter_enter(q) \/ DelayedEnter(q)
  BY <1>4 DEF on_quick_filter_enter, DelayedEnter
<1>5. CASE \E o \in PagerOffset : on_page(o)
  BY <1>5 DEF on_page
<1>6. CASE \E n \in PerPage : on_per_page_change(n)
  BY <1>6 DEF on_per_page_change
<1>7. CASE \E r \in flight : Count(r) \/ Dropped(r) \/ Reclamp(r) \/ Apply(r) \/ Fails(r) \/ Lost(r)
  BY <1>7 DEF Count, Dropped, Reclamp, Apply, Fails, Lost
<1>8. CASE \E r \in Record : Write(r)
  BY <1>8 DEF Write
<1>9. CASE \E c \in ToSet(cols) : on_resize_pointer_down(c)
  BY <1>9 DEF on_resize_pointer_down, Gesture
<1>10. CASE \E w \in Width : on_resize_pointer_move(w)
  BY <1>10
<1>11. CASE UNCHANGED vars
  BY <1>11 DEF vars
<1> QED
  BY <1>1, <1>2, <1>3, <1>4, <1>5, <1>6, <1>7, <1>8, <1>9, <1>10, <1>11 DEF Next

LEMMA DragStep == DragInv /\ [Next]_vars => DragInv'
<1> SUFFICES ASSUME DragInv, [Next]_vars PROVE DragInv'
  OBVIOUS
<1>1. ASSUME UNCHANGED <<nav, order, drag>> PROVE DragInv'
  BY <1>1 DEF DragInv
<1>2. CASE \E d \in Dest : Navigate(d)
  BY <1>2 DEF Navigate, layout, DragInv
<1>3. CASE ArriveOther
  BY <1>3, ColumnsNamed DEF ArriveOther, LayoutEffect, DragInv
<1>4. CASE ArriveSame
  BY <1>4, ColumnsNamed DEF ArriveSame, LayoutEffect, DragInv
<1>5. CASE ArriveError
  BY <1>5 DEF ArriveError, DragInv
<1>6. ASSUME NEW i \in 1 .. Len(order) + 1, on_grip_pointer_down(i) PROVE DragInv'
  BY <1>6 DEF on_grip_pointer_down, Gesture, DragInv
<1>7. ASSUME NEW i \in 1 .. Len(order) + 1, on_grip_pointer_move(i) PROVE DragInv'
  BY <1>7 DEF on_grip_pointer_move, Gesture, DragInv
<1>8. CASE on_grip_pointer_end
  BY <1>8, DropKeeps DEF on_grip_pointer_end, Gesture, LayoutEffect, DragInv
<1>9. CASE on_resize_pointer_end
  BY <1>9 DEF on_resize_pointer_end, Gesture, LayoutEffect, DragInv
<1>10. CASE UNCHANGED <<nav, order, drag, cols, widths, live>>
  BY <1>1, <1>10
<1>11. CASE \E w \in Width : on_resize_pointer_move(w)
  BY <1>1, <1>11 DEF on_resize_pointer_move, Gesture
<1> QED
  BY <1>2, <1>3, <1>4, <1>5, <1>6, <1>7, <1>8, <1>9, <1>10, <1>11, LayoutSteps

\* A drop lands where it was aimed; nothing else reorders the columns of a list.
LEMMA ReorderStep ==
    ASSUME DragInv, [Next]_vars, order' # order, cols' = cols, dest' = dest
    PROVE  LET x == drag.name
               i == At(order', x)
           IN  /\ Without(order', x) = Without(order, x)
               /\ IF drag.drop > Len(order) THEN i = Len(order')
                  ELSE i < Len(order') /\ order'[i + 1] = order[drag.drop]
<1>1. on_grip_pointer_end
  <2>1. ~ ArriveOther
    BY DEF ArriveOther
  <2>2. ~ ArriveSame
    BY DEF ArriveSame
  <2>3. ~ ArriveError /\ ~ on_resize_pointer_end /\ ~ \E w \in Width : on_resize_pointer_move(w)
    BY DEF ArriveError, on_resize_pointer_end, on_resize_pointer_move
  <2>4. ~ \E i \in 1 .. Len(order) + 1 : on_grip_pointer_down(i) \/ on_grip_pointer_move(i)
    BY DEF on_grip_pointer_down, on_grip_pointer_move
  <2>5. ~ \E d \in Dest : Navigate(d)
    BY DEF Navigate, layout
  <2> QED
    BY <2>1, <2>2, <2>3, <2>4, <2>5, LayoutSteps
<1>2. /\ order' = move_column_order(order, drag.from, drag.drop)
      /\ drag # None
  BY <1>1 DEF on_grip_pointer_end
<1>3. drag.drop \notin {drag.from, drag.from + 1}
  BY <1>2 DEF move_column_order
<1>4. /\ order \in Seq(Name) /\ IsInjective(order) /\ drag.name = order[drag.from]
      /\ drag.from \in 1 .. Len(order) /\ drag.drop \in 1 .. Len(order) + 1
  BY <1>2 DEF DragInv
<1> QED
  BY <1>2, <1>3, <1>4, MoveLands

\* A drop puts the grabbed column right before the one it was dropped on and keeps
\* the order of the others, for lists of any columns and whatever arrives meanwhile.
THEOREM DropsLand == Spec => ReorderLands
<1>1. Init => DragInv
  BY DragInit
<1>2. DragInv /\ [Next]_vars => DragInv'
  BY DragStep
<1>3. DragInv /\ [Next]_vars =>
        [order' # order /\ cols' = cols /\ dest' = dest =>
         LET x == drag.name
             i == At(order', x)
         IN  /\ Without(order', x) = Without(order, x)
             /\ IF drag.drop > Len(order) THEN i = Len(order')
                ELSE i < Len(order') /\ order'[i + 1] = order[drag.drop]]_vars
  BY ReorderStep
<1> QED
  BY <1>1, <1>2, <1>3, PTL DEF Spec, ReorderLands

----------------------------------------------------------------------------
\* The layout fits the columns

\* As many columns as there are names.
LEMMA ColumnsCounted ==
    ASSUME NEW S, NEW o \in Seq(S), IsInjective(o)
    PROVE  IsFiniteSet(ToSet(o)) /\ Cardinality(ToSet(o)) = Len(o) /\ o \in Seq(ToSet(o))
<1>1. Len(o) \in Nat /\ DOMAIN o = 1 .. Len(o) /\ ToSet(o) = {o[i] : i \in 1 .. Len(o)}
  BY DEF ToSet
<1>2. o \in Bijection(1 .. Len(o), ToSet(o))
  BY <1>1 DEF IsInjective, Bijection, Injection, Surjection
<1>3. IsFiniteSet(1 .. Len(o)) /\ Cardinality(1 .. Len(o)) = Len(o)
  <2>1. ASSUME NEW n \in Nat PROVE IsFiniteSet(1 .. n) /\ Cardinality(1 .. n) = n
    <3>1. 1 \in Int /\ n \in Int
      OBVIOUS
    <3>2. IsFiniteSet(1 .. n) /\ Cardinality(1 .. n) = IF 1 > n THEN 0 ELSE n - 1 + 1
      BY <3>1, FS_Interval, Zenon
    <3> QED BY <3>2
  <2> QED BY <1>1, <2>1
<1>4. ExistsBijection(1 .. Len(o), ToSet(o))
  BY <1>2 DEF ExistsBijection
<1>5. IsFiniteSet(ToSet(o)) /\ Cardinality(ToSet(o)) = Len(o)
  BY <1>3, <1>4, FS_Bijection
<1>6. o \in Seq(ToSet(o))
  BY <1>1
<1> QED BY <1>5, <1>6

\* The order is the loaded columns rearranged, and each of them has a width.
LayoutInv ==
    /\ DragInv
    /\ cols \in Seq(Name) /\ IsInjective(cols) /\ ToSet(order) = ToSet(cols)
    /\ DOMAIN widths = ToSet(cols) /\ DOMAIN live = ToSet(cols)

\* A drop loses no column.
LEMMA DropRearranges ==
    ASSUME LayoutInv, drag # None
    PROVE  ToSet(move_column_order(order, drag.from, drag.drop)) = ToSet(order)
<1> DEFINE m == move_column_order(order, drag.from, drag.drop)
<1>1. /\ IsFiniteSet(ToSet(order)) /\ Cardinality(ToSet(order)) = Len(order)
      /\ order \in Seq(ToSet(order)) /\ IsInjective(order)
  BY ColumnsCounted DEF LayoutInv, DragInv
<1>2. CASE drag.drop \in {drag.from, drag.from + 1}
  BY <1>2 DEF move_column_order
<1>3. CASE drag.drop \notin {drag.from, drag.from + 1}
  <2>1. m \in Seq(ToSet(order)) /\ IsInjective(m) /\ Len(m) = Len(order)
    BY <1>1, <1>3, MoveLands DEF LayoutInv, DragInv
  <2> HIDE DEF m
  <2>2. Cardinality(ToSet(m)) = Len(m) /\ ToSet(m) \subseteq ToSet(order)
    <3>1. Len(m) \in Nat /\ DOMAIN m = 1 .. Len(m) /\ \A i \in 1 .. Len(m) : m[i] \in ToSet(order)
      BY <2>1
    <3>2. ToSet(m) \subseteq ToSet(order)
      BY <3>1 DEF ToSet
    <3> QED BY <2>1, <3>2, ColumnsCounted
  <2>3. ToSet(m) = ToSet(order)
    BY <1>1, <2>1, <2>2, FS_Subset
  <2> QED BY <2>3 DEF m
<1> QED BY <1>2, <1>3

LEMMA LayoutInit == Init => LayoutInv
<1> SUFFICES ASSUME Init PROVE LayoutInv
  OBVIOUS
<1>1. PICK d \in Dest : \E cs \in Columns[d] :
          cols = cs /\ order = cs /\ widths = seed_widths(cs) /\ live = seed_widths(cs)
  BY DEF Init
<1>0. PICK cs \in Columns[d] :
          cols = cs /\ order = cs /\ widths = seed_widths(cs) /\ live = seed_widths(cs)
  BY <1>1
<1>2. cs \in Seq(Name) /\ IsInjective(cs)
  BY ColumnsNamed
<1> QED BY <1>0, <1>2, DragInit DEF LayoutInv, seed_widths

LEMMA LayoutStep == LayoutInv /\ [Next]_vars => LayoutInv'
<1> SUFFICES ASSUME LayoutInv, [Next]_vars PROVE LayoutInv'
  OBVIOUS
<1>1. DragInv'
  BY DragStep DEF LayoutInv
<1>2. ASSUME NEW d \in Dest, NEW cs \in Columns[d], cols' = cs, order' = cs,
             widths' = seed_widths(cs), live' = seed_widths(cs)
      PROVE  LayoutInv'
  BY <1>1, <1>2, ColumnsNamed DEF LayoutInv, seed_widths
<1>3. ASSUME UNCHANGED <<order, cols>>, DOMAIN widths' = DOMAIN widths, DOMAIN live' \in {DOMAIN live, DOMAIN widths}
      PROVE  LayoutInv'
  BY <1>1, <1>3 DEF LayoutInv
<1>4. CASE UNCHANGED <<nav, order, drag, cols, widths, live>>
  BY <1>3, <1>4
<1>5. CASE \E d \in Dest : Navigate(d)
  BY <1>3, <1>5 DEF Navigate, layout
<1>6. CASE ArriveOther
  BY <1>2, <1>6 DEF ArriveOther, LayoutEffect, LayoutInv, DragInv
<1>7. CASE ArriveSame
  <2>1. nav \in Dest /\ dest = nav
    BY <1>7 DEF ArriveSame, LayoutInv, DragInv
  <2>2. PICK cs \in Columns[dest] :
          /\ cols' = cs
          /\ IF ToSet(cs) = ToSet(cols)
             THEN LayoutEffect(widths) /\ UNCHANGED <<order, widths>>
             ELSE order' = cs /\ widths' = seed_widths(cs) /\ LayoutEffect(seed_widths(cs))
    BY <1>7 DEF ArriveSame
  <2>3. CASE ToSet(cs) = ToSet(cols)
    BY <1>1, <2>1, <2>2, <2>3, ColumnsNamed DEF LayoutInv, LayoutEffect
  <2>4. CASE ToSet(cs) # ToSet(cols)
    BY <1>2, <2>1, <2>2, <2>4 DEF LayoutEffect
  <2> QED BY <2>3, <2>4
<1>8. CASE ArriveError
  BY <1>3, <1>8 DEF ArriveError
<1>9. ASSUME NEW i \in 1 .. Len(order) + 1, on_grip_pointer_down(i) \/ on_grip_pointer_move(i)
      PROVE  LayoutInv'
  BY <1>3, <1>9 DEF on_grip_pointer_down, on_grip_pointer_move, Gesture
<1>10. CASE on_grip_pointer_end
  <2>1. /\ order' = move_column_order(order, drag.from, drag.drop) /\ drag # None
        /\ cols' = cols /\ widths' = widths /\ live' \in {live, widths}
    BY <1>10 DEF on_grip_pointer_end, Gesture, LayoutEffect
  <2> QED BY <1>1, <2>1, DropRearranges DEF LayoutInv
<1>11. CASE on_resize_pointer_end
  BY <1>3, <1>11 DEF on_resize_pointer_end, Gesture, LayoutEffect
<1>12. CASE \E w \in Width : on_resize_pointer_move(w)
  BY <1>3, <1>12 DEF on_resize_pointer_move, Gesture
<1> QED BY <1>4, <1>5, <1>6, <1>7, <1>8, <1>9, <1>10, <1>11, <1>12, LayoutSteps

Flags ==
    /\ dest \in Dest \cup {NoDest} /\ timer \in Dest \cup {NoDest}
    /\ clamp \in BOOLEAN /\ busy \in BOOLEAN /\ failed \in BOOLEAN
    /\ muddled \in BOOLEAN /\ lost \in BOOLEAN

LEMMA FlagsStep == DragInv /\ Flags /\ [Next]_vars => Flags'
<1> SUFFICES ASSUME DragInv, Flags, [Next]_vars PROVE Flags'
  OBVIOUS
<1> USE DEF Flags, page, UI, Idle
<1>1. CASE \E d \in Dest : Navigate(d)
  BY <1>1 DEF Navigate
<1>2. CASE ArriveOther \/ ArriveSame \/ ArriveError
  BY <1>2 DEF ArriveOther, ArriveSame, ArriveError, PathEffect, DragInv
<1>3. ASSUME NEW d, NEW p, NEW so, NEW l, NEW o, NEW fs, Send(d, p, so, l, o, fs)
      PROVE  busy' \in BOOLEAN /\ muddled' \in BOOLEAN
  BY <1>3 DEF Send
<1>4. CASE on_refresh \/ on_date_enter
  BY <1>3, <1>4 DEF on_refresh, on_date_enter
<1>5. CASE \E p \in ExecPred : on_execute(p)
  BY <1>3, <1>5 DEF on_execute
<1>6. CASE \E a \in SortAttr : on_sort_click(a)
  BY <1>3, <1>6 DEF on_sort_click
<1>7. CASE \E q \in QuickInput : on_quick_filter_enter(q) \/ DelayedEnter(q)
  <2>1. ASSUME NEW d, NEW q, QuickFilter(d, q) PROVE busy' \in BOOLEAN /\ muddled' \in BOOLEAN
    BY <1>3, <2>1 DEF QuickFilter
  <2> QED BY <1>7, <2>1 DEF on_quick_filter_enter, DelayedEnter
<1>8. CASE \E o \in PagerOffset : on_page(o)
  BY <1>3, <1>8 DEF on_page
<1>9. CASE \E n \in PerPage : on_per_page_change(n)
  BY <1>3, <1>9 DEF on_per_page_change
<1>10. CASE \E r \in flight : Count(r) \/ Dropped(r) \/ Apply(r) \/ Fails(r) \/ Lost(r)
  BY <1>10 DEF Count, Dropped, Apply, Fails, Lost
<1>11. CASE \E r \in flight : Reclamp(r)
  BY <1>3, <1>11 DEF Reclamp
<1>12. CASE \E r \in Record : Write(r)
  BY <1>12 DEF Write
<1>13. CASE Gesture
  BY <1>13 DEF Gesture
<1>14. CASE UNCHANGED vars
  BY <1>14 DEF vars
<1> QED
  BY <1>1, <1>2, <1>4, <1>5, <1>6, <1>7, <1>8, <1>9, <1>10, <1>11, <1>12, <1>13, <1>14
  DEF Next, on_grip_pointer_down, on_grip_pointer_move, on_grip_pointer_end,
      on_resize_pointer_down, on_resize_pointer_move, on_resize_pointer_end

\* The types of the list page hold; in particular the columns shown are those
\* of the list loaded last, none lost and none twice, and each has its width,
\* whatever was dragged, resized or released meanwhile (column_layout.ts:103).
THEOREM LayoutFitsColumns == Spec => []TypeOK
<1>1. Init => LayoutInv /\ Flags
  BY LayoutInit DEF Init, Flags
<1>2. LayoutInv /\ Flags /\ [Next]_vars => LayoutInv' /\ Flags'
  BY LayoutStep, FlagsStep DEF LayoutInv
<1>3. ListInv /\ LayoutInv /\ Flags => TypeOK
  <2> SUFFICES ASSUME ListInv, LayoutInv, Flags PROVE TypeOK
    OBVIOUS
  <2>1. Len(order) = Len(cols)
    BY ColumnsCounted DEF LayoutInv, DragInv
  <2>2. {clamp, busy, failed, muddled, lost} \subseteq BOOLEAN
    BY DEF Flags
  <2> QED BY <2>1, <2>2 DEF TypeOK, Flags, LayoutInv, DragInv, ListInv, Typed
<1> QED BY <1>1, <1>2, <1>3, ListInvariant, PTL DEF Spec

(***************************************************************************)
(* The filter editor of the page (FilterEditor), for every set of          *)
(* attributes, operators, first filters and limits.                        *)
(*                                                                         *)
(* The whole argument is that every operation on the draft yields a tree   *)
(* whose conditions suit their attributes and in which there is no "not".  *)
(* What commit_node then accepts is what _compile_predicate accepts.  The  *)
(* nesting is bounded by an invariant stronger than the property: an "and" *)
(* at the root has already used the extra level.                           *)
(***************************************************************************)
USE DEF NullFilter

----------------------------------------------------------------------------
\* Nodes and trees

\* The values of a function on a finite set are finitely many.
LEMMA ImageFinite ==
    ASSUME NEW S, IsFiniteSet(S), NEW f, DOMAIN f = S
    PROVE  /\ IsFiniteSet({f[x] : x \in S})
           /\ Cardinality({f[x] : x \in S}) <= Cardinality(S)
<1> DEFINE T == {f[x] : x \in S}
           g == [x \in S |-> f[x]]
<1>1. g \in Surjection(S, T)
  BY DEF Surjection
<1> QED
  BY <1>1, FS_Surjection

LEMMA NullTree == IsTree(NullFilter)
<1>1. DOMAIN NullFilter = {}
  OBVIOUS
<1> QED
  BY <1>1, FS_EmptySet DEF IsTree

\* A node put at a place below another one, or as the root.
LEMMA PutTree ==
    ASSUME NEW t, IsTree(t), NEW p \in Seq(Nat),
           p = <<>> \/ Front(p) \in DOMAIN t,
           NEW n, IsNode(n)
    PROVE  IsTree(Put(t, p, n)) /\ Put(t, p, n)[p] = n
<1>1. DOMAIN Put(t, p, n) = DOMAIN t \cup {p}
  BY DEF Put
<1>2. \A q \in DOMAIN t \cup {p} : Put(t, p, n)[q] = IF q = p THEN n ELSE t[q]
  BY DEF Put
<1>3. IsFiniteSet(DOMAIN t \cup {p})
  BY FS_AddElement DEF IsTree
<1>4. <<>> \in DOMAIN t \cup {p}
  <2>1. t = NullFilter => DOMAIN t = {}
    OBVIOUS
  <2> QED
    BY <2>1 DEF IsTree
<1> QED
  BY <1>1, <1>2, <1>3, <1>4 DEF IsTree

LEMMA GroupNode ==
    ASSUME NEW o \in Logical
    PROVE  IsNode(Group(o)) /\ Group(o).op = o /\ Group(o).attr = NoAttr
BY FilterAssumption DEF IsNode, Group, Fits, Filterable, FilterAssumption, NoAttr

LEMMA EmptyLeaf ==
    IsNode(empty_leaf) /\ empty_leaf.op = NoOp
BY FilterAssumption DEF IsNode, empty_leaf, Leaf, Fits, Filterable, FilterAssumption, NoAttr, NoOp

LEMMA FrontOf ==
    ASSUME NEW p \in Seq(Nat), p # <<>>
    PROVE  /\ Front(p) \in Seq(Nat) /\ Len(Front(p)) = Len(p) - 1 /\ Len(p) \in Nat \ {0}
           /\ \A i \in 1 .. Len(p) - 1 : Front(p)[i] = p[i]
<1>1. Len(p) \in Nat \ {0}
  BY EmptySeq
<1> DEFINE n == Len(p) - 1
<1>2. n \in Nat /\ \A i \in 1 .. n : p[i] \in Nat
  BY <1>1
<1> HIDE DEF n
<1>3. /\ SubSeq(p, 1, n) \in Seq(Nat)
      /\ Len(SubSeq(p, 1, n)) = IF 1 <= n THEN n - 1 + 1 ELSE 0
      /\ \A i \in 1 .. n - 1 + 1 : SubSeq(p, 1, n)[i] = p[1 + i - 1]
  BY <1>2, SubSeqProperties
<1>4. Front(p) = SubSeq(p, 1, n)
  BY DEF Front, n
<1>5. Len(Front(p)) = n /\ \A i \in 1 .. n : Front(p)[i] = p[i]
  BY <1>2, <1>3, <1>4
<1> QED
  BY <1>1, <1>3, <1>4, <1>5 DEF n

LEMMA FrontOfAppend ==
    ASSUME NEW p \in Seq(Nat), NEW k \in Nat
    PROVE  Front(Append(p, k)) = p
<1> DEFINE a == Append(p, k)
<1>1. a \in Seq(Nat) /\ a # <<>> /\ Len(a) = Len(p) + 1 /\ \A i \in 1 .. Len(p) : a[i] = p[i]
  BY AppendProperties
<1> HIDE DEF a
<1>2. Front(a) \in Seq(Nat) /\ Len(Front(a)) = Len(a) - 1
      /\ \A i \in 1 .. Len(a) - 1 : Front(a)[i] = a[i]
  BY <1>1, FrontOf
<1>3. Len(Front(a)) = Len(p) /\ \A i \in 1 .. Len(p) : Front(a)[i] = p[i]
  BY <1>1, <1>2
<1>4. Front(a) = p
  BY <1>2, <1>3, SeqEqual
<1> QED
  BY <1>4 DEF a

LEMMA FrontOfOne ==
    ASSUME NEW k \in Nat
    PROVE  <<k>> \in Seq(Nat) /\ <<k>> # <<>> /\ Front(<<k>>) = <<>> /\ Len(<<k>>) = 1
<1> DEFINE a == <<k>>
<1>1. a \in Seq(Nat) /\ Len(a) = 1 /\ a # <<>>
  OBVIOUS
<1> HIDE DEF a
<1>2. Front(a) \in Seq(Nat) /\ Len(Front(a)) = Len(a) - 1
  BY <1>1, FrontOf
<1>3. Front(a) = <<>>
  BY <1>1, <1>2, EmptySeq
<1> QED
  BY <1>1, <1>3 DEF a

\* The branch at p is removed and q is in one of its younger sibling branches.
Moves(q, p) == Len(q) >= Len(p) /\ IsPrefix(Front(p), q) /\ q[Len(p)] > p[Len(p)]

LEMMA ShiftedEntries ==
    ASSUME NEW p \in Seq(Nat), p # <<>>, NEW k \in Seq(Nat)
    PROVE  /\ Shifted(k, p) \in Seq(Nat)
           /\ Len(Shifted(k, p)) = Len(k)
           /\ \A i \in 1 .. Len(k) :
                Shifted(k, p)[i] = IF Moves(k, p) /\ i = Len(p) THEN k[i] - 1 ELSE k[i]
<1>1. Len(p) \in Nat \ {0} /\ p[Len(p)] \in Nat
  BY FrontOf
<1>2. CASE Moves(k, p)
  <2> DEFINE m == Len(p)
  <2>1. m \in 1 .. Len(k) /\ k[m] - 1 \in Nat
    BY <1>1, <1>2 DEF Moves
  <2>2. Shifted(k, p) = [k EXCEPT ![m] = k[m] - 1]
    BY <1>2 DEF Shifted, Moves
  <2> HIDE DEF m
  <2> QED
    BY <1>2, <2>1, <2>2 DEF m
<1>3. CASE ~ Moves(k, p)
  BY <1>3 DEF Shifted, Moves
<1> QED
  BY <1>2, <1>3

\* Shifting a path goes with taking its parent.
LEMMA ShiftedFront ==
    ASSUME NEW p \in Seq(Nat), p # <<>>, NEW k \in Seq(Nat), k # <<>>
    PROVE  Front(Shifted(k, p)) = Shifted(Front(k), p)
<1> DEFINE m == Len(p)
           s == Shifted(k, p)
           f == Front(k)
           u == Shifted(f, p)
<1>1. m \in Nat \ {0} /\ Len(Front(p)) = m - 1
  BY FrontOf
<1>2. f \in Seq(Nat) /\ Len(f) = Len(k) - 1 /\ Len(k) \in Nat \ {0}
      /\ \A i \in 1 .. Len(k) - 1 : f[i] = k[i]
  BY FrontOf
<1>3. /\ s \in Seq(Nat) /\ Len(s) = Len(k)
      /\ \A i \in 1 .. Len(k) : s[i] = IF Moves(k, p) /\ i = m THEN k[i] - 1 ELSE k[i]
  BY ShiftedEntries
<1>4. /\ u \in Seq(Nat) /\ Len(u) = Len(f)
      /\ \A i \in 1 .. Len(f) : u[i] = IF Moves(f, p) /\ i = m THEN f[i] - 1 ELSE f[i]
  BY <1>2, ShiftedEntries
<1>5. Len(k) > m => (Moves(f, p) <=> Moves(k, p))
  <2> SUFFICES ASSUME Len(k) > m PROVE Moves(f, p) <=> Moves(k, p)
    OBVIOUS
  <2>1. f[m] = k[m] /\ Len(f) >= m /\ Len(k) >= m
    <3>1. m \in 1 .. Len(k) - 1 /\ Len(k) - 1 >= m /\ Len(k) >= m
      BY <1>1, <1>2
    <3> HIDE DEF f, m
    <3> QED
      BY <1>2, <3>1
  <2>2. SubSeq(f, 1, m - 1) = SubSeq(k, 1, m - 1)
    <3>1. SubSeq(f, 1, m - 1) = [i \in 1 .. m - 1 |-> f[i]] /\ SubSeq(k, 1, m - 1) = [i \in 1 .. m - 1 |-> k[i]]
      BY <1>1, <1>2
    <3> QED
      BY <1>1, <1>2, <3>1
  <2>3. IsPrefix(Front(p), f) <=> IsPrefix(Front(p), k)
    <3> DEFINE g == Front(p)
    <3>1. Len(g) = m - 1 /\ Len(g) <= Len(f) /\ Len(g) <= Len(k)
      BY <1>1, <1>2, <2>1
    <3> HIDE DEF g, f, m
    <3>2. SubSeq(f, 1, Len(g)) = SubSeq(k, 1, Len(g))
      BY <2>2, <3>1
    <3>3. IsPrefix(g, f) <=> IsPrefix(g, k)
      BY <3>1, <3>2 DEF IsPrefix
    <3> QED
      BY <3>3 DEF g
  <2> QED
    BY <2>1, <2>3 DEF Moves
<1> HIDE DEF s, u, f, m
<1>6. Front(s) \in Seq(Nat) /\ Len(Front(s)) = Len(s) - 1
      /\ \A i \in 1 .. Len(s) - 1 : Front(s)[i] = s[i]
  <2>1. s # <<>>
    BY <1>2, <1>3
  <2> QED
    BY <1>3, <2>1, FrontOf
<1>7. ASSUME NEW i \in 1 .. Len(k) - 1 PROVE Front(s)[i] = u[i]
  <2>1. i # m \/ Len(k) > m
    BY <1>1, <1>2
  <2>2. i \in 1 .. Len(k) /\ i \in 1 .. Len(f) /\ i \in 1 .. Len(s) - 1
    BY <1>2, <1>3
  <2>3. /\ s[i] = IF Moves(k, p) /\ i = m THEN k[i] - 1 ELSE k[i]
        /\ u[i] = IF Moves(f, p) /\ i = m THEN f[i] - 1 ELSE f[i]
        /\ f[i] = k[i] /\ Front(s)[i] = s[i]
    BY <1>2, <1>3, <1>4, <1>6, <2>2
  <2> QED
    BY <1>5, <2>1, <2>3
<1>8. Len(Front(s)) = Len(u) /\ Len(u) = Len(k) - 1
  BY <1>2, <1>3, <1>4, <1>6
<1>9. Front(s) = u
  BY <1>4, <1>6, <1>7, <1>8, SeqEqual
<1> QED
  BY <1>9 DEF s, u, f

\* Removing a node leaves nodes of the tree, and the root unless it was the root.
LEMMA RemoveTree ==
    ASSUME NEW t, IsTree(t), NEW p \in DOMAIN t
    PROVE  /\ IsTree(remove_editor_node(t, p))
           /\ \A q \in DOMAIN remove_editor_node(t, p) :
                  \E k \in DOMAIN t : remove_editor_node(t, p)[q] = t[k]
<1>1. CASE p = <<>>
  BY <1>1, NullTree DEF remove_editor_node
<1>2. CASE p # <<>>
  <2> DEFINE kept == {q \in DOMAIN t : ~ IsPrefix(p, q)}
             S == {Shifted(k, p) : k \in kept}
             new == [q \in S |-> t[CHOOSE k \in kept : Shifted(k, p) = q]]
  <2>1. remove_editor_node(t, p) = new
    BY <1>2 DEF remove_editor_node
  <2>2. \A q \in S : (CHOOSE k \in kept : Shifted(k, p) = q) \in kept
    OBVIOUS
  <2>3. \A q \in S : \E k \in DOMAIN t : new[q] = t[k]
    BY <2>2
  <2>4. p \in Seq(Nat) /\ Len(p) \in Nat \ {0}
    BY <1>2, EmptySeq DEF IsTree
  <2>5. <<>> \in S
    <3>1. <<>> \in DOMAIN t
      BY DEF IsTree
    <3>2. ~ IsPrefix(p, <<>>)
      BY <2>4 DEF IsPrefix
    <3>3. Shifted(<<>>, p) = <<>>
      BY <2>4 DEF Shifted
    <3> QED
      BY <3>1, <3>2, <3>3
  <2>6. \A q \in S : q \in Seq(Nat)
    BY <2>4, ShiftedEntries DEF IsTree
  <2>7. IsFiniteSet(S)
    <3>1. IsFiniteSet(kept)
      BY FS_Subset DEF IsTree
    <3> QED
      <4> DEFINE f == [k \in kept |-> Shifted(k, p)]
      <4>1. S = {f[k] : k \in kept}
        OBVIOUS
      <4>2. DOMAIN f = kept
        OBVIOUS
      <4> HIDE DEF f, S, kept
      <4> QED
        BY <3>1, <4>1, <4>2, ImageFinite
  <2>8. \A q \in S \ {<<>>} : Front(q) \in S
    <3> SUFFICES ASSUME NEW k \in kept, Shifted(k, p) # <<>>
                 PROVE  Front(Shifted(k, p)) \in S
      OBVIOUS
    <3>1. k \in Seq(Nat) /\ p \in Seq(Nat)
      BY <2>4 DEF IsTree
    <3>2. k # <<>>
      BY <1>2, <3>1, ShiftedEntries, EmptySeq
    <3>3. Front(k) \in DOMAIN t
      BY <3>2 DEF IsTree
    <3>4. ~ IsPrefix(p, Front(k))
      <4>1. /\ Front(k) \in Seq(Nat) /\ Len(Front(k)) = Len(k) - 1 /\ Len(k) \in Nat \ {0}
            /\ \A i \in 1 .. Len(k) - 1 : Front(k)[i] = k[i]
        BY <3>1, <3>2, FrontOf
      <4> SUFFICES ASSUME IsPrefix(p, Front(k)) PROVE IsPrefix(p, k)
        OBVIOUS
      <4>2. Len(p) <= Len(k) - 1 /\ SubSeq(p, 1, Len(p)) = SubSeq(Front(k), 1, Len(p))
        BY <4>1 DEF IsPrefix
      <4>3. SubSeq(Front(k), 1, Len(p)) = SubSeq(k, 1, Len(p))
        <5> DEFINE f == Front(k)
        <5>1. SubSeq(f, 1, Len(p)) = [i \in 1 .. Len(p) |-> f[i]] /\ SubSeq(k, 1, Len(p)) = [i \in 1 .. Len(p) |-> k[i]]
          BY <2>4, <3>1, <4>1, <4>2
        <5>2. \A i \in 1 .. Len(p) : f[i] = k[i]
          BY <2>4, <4>1, <4>2
        <5> QED
          BY <5>1, <5>2
      <4> QED
        BY <2>4, <4>1, <4>2, <4>3 DEF IsPrefix
    <3>5. Front(Shifted(k, p)) = Shifted(Front(k), p)
      BY <1>2, <3>1, <3>2, ShiftedFront
    <3> QED
      BY <3>3, <3>4, <3>5
  <2> HIDE DEF S, kept
  <2>9. DOMAIN new = S
    OBVIOUS
  <2>10. \A q \in S : IsNode(new[q])
    BY <2>3 DEF IsTree
  <2> HIDE DEF new
  <2>11. IsTree(new)
    BY <2>5, <2>6, <2>7, <2>8, <2>9, <2>10 DEF IsTree
  <2> QED
    BY <2>1, <2>3, <2>9, <2>11
<1> QED
  BY <1>1, <1>2

----------------------------------------------------------------------------
\* Edits of the draft

Shown(t) == IsTree(t) /\ \A p \in DOMAIN t : t[p].op # "not"

LEMMA PutShown ==
    ASSUME NEW t, Shown(t), NEW p \in Seq(Nat), p = <<>> \/ Front(p) \in DOMAIN t,
           NEW n, IsNode(n), n.op # "not"
    PROVE  Shown(Put(t, p, n))
<1>1. IsTree(Put(t, p, n))
  BY PutTree DEF Shown
<1>2. \A q \in DOMAIN Put(t, p, n) : q \in DOMAIN t \cup {p} /\ Put(t, p, n)[q] = IF q = p THEN n ELSE t[q]
  BY DEF Put
<1> QED
  BY <1>1, <1>2 DEF Shown

LEMMA RemoveShown ==
    ASSUME NEW t, Shown(t), NEW p \in DOMAIN t
    PROVE  Shown(remove_editor_node(t, p))
BY RemoveTree DEF Shown

LEMMA KidPath ==
    ASSUME NEW t, IsTree(t), NEW p \in DOMAIN t, NEW k \in Nat
    PROVE  /\ p \in Seq(Nat) /\ (p = <<>> \/ Front(p) \in DOMAIN t)
           /\ Append(p, k) \in Seq(Nat) /\ Front(Append(p, k)) = p
BY FrontOfAppend DEF IsTree

LEMMA KidsCounted ==
    ASSUME NEW t, IsTree(t), NEW p
    PROVE  Cardinality(Kids(t, p)) \in Nat
<1>1. Kids(t, p) \subseteq DOMAIN t
  BY DEF Kids
<1>2. IsFiniteSet(Kids(t, p))
  BY <1>1, FS_Subset DEF IsTree
<1> QED
  BY <1>2, FS_CardinalityType

LEMMA AppendShown ==
    ASSUME NEW t, Shown(t), NEW p \in DOMAIN t
    PROVE  Shown(append_group_child(t, p))
<1>1. Cardinality(Kids(t, p)) + 1 \in Nat
  BY KidsCounted DEF Shown
<1> HIDE DEF append_group_child
<1>2. /\ Append(p, Cardinality(Kids(t, p)) + 1) \in Seq(Nat)
      /\ Front(Append(p, Cardinality(Kids(t, p)) + 1)) \in DOMAIN t
  BY <1>1, KidPath DEF Shown
<1>3. IsNode(empty_leaf) /\ empty_leaf.op # "not"
  BY EmptyLeaf DEF NoOp
<1> QED
  BY <1>2, <1>3, PutShown DEF append_group_child

\* What the operator control offers for a condition suits its attribute.
LEMMA LeafNode ==
    ASSUME NEW a \in Attr \cup {NoAttr}, NEW o \in LeafOp \cup {NoOp}, NEW v,
           a \in Filterable =>
               /\ o \in leaf_ops_for_type(Type[a]) \cup {NoOp}
               /\ v = NoVal \/ v.kind = quick_filter_control_kind(Type[a])
    PROVE  IsNode(Leaf(a, o, v)) /\ Leaf(a, o, v).op # "not"
<1>1. DOMAIN Leaf(a, o, v) = {"op", "attr", "val"} /\ Leaf(a, o, v).op = o
      /\ Leaf(a, o, v).attr = a /\ Leaf(a, o, v).val = v
  BY DEF Leaf
<1>2. o # "not"
  BY FilterAssumption DEF FilterAssumption, NoOp, NullChecks, OrderedOps, PatternOps
<1> QED
  BY <1>1, <1>2 DEF IsNode, Fits

LEMMA OperatorShown ==
    ASSUME NEW t, Shown(t), NEW p \in DOMAIN t,
           NEW o \in eligible_ops_for_row(t, p)
    PROVE  Shown(apply_operator_change(t, p, o))
<1> DEFINE n == t[p]
<1>1. IsNode(n) /\ n.op # "not" /\ IsTree(t)
  BY DEF Shown, IsTree
<1>2. /\ p \in Seq(Nat) /\ (p = <<>> \/ Front(p) \in DOMAIN t)
      /\ Append(p, 1) \in Seq(Nat) /\ Front(Append(p, 1)) = p
  BY <1>1, KidPath
<1>3. CASE o \in Logical
  <2>1. IsNode(Group(o)) /\ Group(o).op # "not"
    BY <1>3, GroupNode DEF Logical
  <2>2. Shown(Put(t, p, Group(o)))
    BY <1>2, <2>1, PutShown
  <2>3. p \in DOMAIN Put(t, p, Group(o))
    BY DEF Put
  <2>4. Shown(Put(Put(t, p, Group(o)), Append(p, 1), n))
    BY <1>1, <1>2, <2>2, <2>3, PutShown
  <2> QED
    BY <1>3, <2>2, <2>4 DEF apply_operator_change, wrap_leaf_as_group
<1>4. CASE o \notin Logical /\ IsGroup(n)
  <2>1. CASE Kids(t, p) # {}
    BY <1>4, <2>1 DEF apply_operator_change
  <2>2. CASE Kids(t, p) = {}
    <3>1. o \in LeafOp
      BY <1>4, <2>2 DEF eligible_ops_for_row, leaf_ops_for_type
    <3>2. NoAttr \notin Filterable
      BY FilterAssumption DEF FilterAssumption, Filterable
    <3>3. IsNode(Leaf(NoAttr, o, NoVal)) /\ Leaf(NoAttr, o, NoVal).op # "not"
      BY <3>1, <3>2, LeafNode
    <3> QED
      BY <1>2, <1>4, <2>2, <3>3, PutShown DEF apply_operator_change
  <2> QED
    BY <2>1, <2>2
<1>5. CASE o \notin Logical /\ ~ IsGroup(n)
  <2>1. /\ o \in LeafOp
        /\ n.attr \in Filterable => o \in leaf_ops_for_type(Type[n.attr])
    BY <1>5 DEF eligible_ops_for_row, leaf_ops_for_type, RowType, Filterable,
                quick_filter_control_kind, TextFamily
  <2> DEFINE v == IF op_requires_value(o) /\ op_requires_value(n.op) THEN n.val ELSE NoVal
  <2>2. n.attr \in Filterable => v = NoVal \/ v.kind = quick_filter_control_kind(Type[n.attr])
    BY <1>1 DEF IsNode, Fits
  <2>3. n.attr \in Attr \cup {NoAttr}
    BY <1>1 DEF IsNode
  <2> HIDE DEF v
  <2>4. IsNode(Leaf(n.attr, o, v)) /\ Leaf(n.attr, o, v).op # "not"
    BY <2>1, <2>2, <2>3, LeafNode
  <2>5. apply_operator_change(t, p, o) = Put(t, p, Leaf(n.attr, o, v))
    BY <1>5 DEF apply_operator_change, v
  <2> QED
    BY <1>2, <2>4, <2>5, PutShown
<1> QED
  BY <1>3, <1>4, <1>5

LEMMA FieldShown ==
    ASSUME NEW t, Shown(t), NEW p \in DOMAIN t, ~ IsGroup(t[p]),
           NEW a \in Filterable \cup {NoAttr}
    PROVE  Shown(field_change(t, p, a))
<1> DEFINE n == t[p]
           o == IF a # NoAttr /\ n.op # NoOp /\ n.op \notin leaf_ops_for_type(RowType(a)) THEN NoOp ELSE n.op
           v == IF should_clear_value_on_field_change(RowType(n.attr), RowType(a)) THEN NoVal ELSE n.val
<1>1. IsNode(n) /\ n.op # "not" /\ p \in Seq(Nat) /\ (p = <<>> \/ Front(p) \in DOMAIN t)
  BY KidPath DEF Shown, IsTree
<1>2. n.op \in LeafOp \cup {NoOp}
  BY <1>1 DEF IsNode, IsGroup
<1>3. a \in Attr \cup {NoAttr}
  BY DEF Filterable
<1>4. a \in Filterable => o \in leaf_ops_for_type(Type[a]) \cup {NoOp}
  BY FilterAssumption DEF RowType, FilterAssumption, Filterable
<1>5. o \in LeafOp \cup {NoOp}
  BY <1>2
<1>6. a \in Filterable => v = NoVal \/ v.kind = quick_filter_control_kind(Type[a])
  <2> SUFFICES ASSUME a \in Filterable, ~ should_clear_value_on_field_change(RowType(n.attr), RowType(a)),
                      n.val # NoVal
               PROVE  n.val.kind = quick_filter_control_kind(Type[a])
    OBVIOUS
  <2>1. quick_filter_control_kind(RowType(n.attr)) = quick_filter_control_kind(Type[a])
    BY DEF should_clear_value_on_field_change, RowType
  <2>2. quick_filter_control_kind(Type[a]) # "none"
    BY DEF Filterable
  <2>3. quick_filter_control_kind("unknown") = "none"
    BY DEF quick_filter_control_kind, TextFamily
  <2>4. n.attr \in Filterable
    BY <2>1, <2>2, <2>3 DEF RowType
  <2> QED
    BY <1>1, <2>1, <2>4 DEF IsNode, Fits, RowType
<1> HIDE DEF o, v
<1>7. IsNode(Leaf(a, o, v)) /\ Leaf(a, o, v).op # "not"
  BY <1>3, <1>4, <1>5, <1>6, LeafNode
<1>8. field_change(t, p, a) = Put(t, p, Leaf(a, o, v))
  BY DEF field_change, o, v
<1> QED
  BY <1>1, <1>7, <1>8, PutShown

LEMMA ValueShown ==
    ASSUME NEW t, Shown(t), NEW p \in DOMAIN t, t[p].attr \in Filterable, NEW q
    PROVE  Shown(Put(t, p, [t[p] EXCEPT !.val = [kind |-> quick_filter_control_kind(Type[t[p].attr]), quality |-> q]]))
<1> DEFINE n == t[p]
           v == [kind |-> quick_filter_control_kind(Type[n.attr]), quality |-> q]
           m == [n EXCEPT !.val = v]
<1>1. IsNode(n) /\ n.op # "not" /\ p \in Seq(Nat) /\ (p = <<>> \/ Front(p) \in DOMAIN t)
  BY KidPath DEF Shown, IsTree
<1>2. v.kind = quick_filter_control_kind(Type[n.attr])
  OBVIOUS
<1> HIDE DEF v
<1>3. DOMAIN m = {"op", "attr", "val"} /\ m.op = n.op /\ m.attr = n.attr /\ m.val = v
  BY <1>1 DEF IsNode
<1> HIDE DEF m
<1>4. IsNode(m) /\ m.op # "not"
  BY <1>1, <1>2, <1>3 DEF IsNode, Fits
<1> QED
  BY <1>1, <1>4, PutShown DEF m, v

----------------------------------------------------------------------------
\* Filters that are sent

\* and_predicates of a tree and a condition is a tree, and a "not" in it is one
\* of the two.
LEMMA AndTree ==
    ASSUME NEW t, IsTree(t), NEW n, IsNode(n)
    PROVE  IsTree(and_predicate(t, n))
<1>1. CASE t = NullFilter
  BY <1>1, NullTree, PutTree, EmptySeq DEF and_predicate
<1>2. CASE t # NullFilter /\ t[<<>>].op = "and"
  <2> DEFINE k == Cardinality(Kids(t, <<>>)) + 1
  <2>1. k \in Nat
    BY KidsCounted
  <2> HIDE DEF k
  <2>2. <<k>> \in Seq(Nat) /\ Front(<<k>>) = <<>> /\ <<>> \in DOMAIN t
    BY <1>2, <2>1, FrontOfOne DEF IsTree
  <2>3. and_predicate(t, n) = Put(t, <<k>>, n)
    BY <1>2 DEF and_predicate, k
  <2> QED
    BY <2>2, <2>3, PutTree
<1>3. CASE t # NullFilter /\ t[<<>>].op # "and"
  <2> DEFINE S == {<<1>> \o p : p \in DOMAIN t}
             w == [q \in {<<>>} \cup S |-> IF q = <<>> THEN Group("and") ELSE t[Tail(q)]]
  <2>1. ASSUME NEW p \in DOMAIN t
        PROVE  /\ <<1>> \o p \in Seq(Nat) /\ <<1>> \o p # <<>> /\ Tail(<<1>> \o p) = p
               /\ Front(<<1>> \o p) \in {<<>>} \cup S
    <3>1. p \in Seq(Nat)
      BY DEF IsTree
    <3> DEFINE a == <<1>> \o p
    <3>2. a \in Seq(Nat) /\ Len(a) = Len(p) + 1 /\ a # <<>> /\ \A i \in 1 .. Len(p) : a[i + 1] = p[i]
      BY <3>1
    <3>3. Tail(a) = p
      BY <3>1
    <3>4. a[1] = 1
      BY <3>1
    <3>5. CASE p = <<>>
      <4>1. a = <<1>>
        BY <3>5
      <4>2. Front(<<1>>) = <<>>
        BY FrontOfOne
      <4>3. Front(a) = <<>>
        BY <4>1, <4>2
      <4> HIDE DEF S
      <4> QED
        BY <3>2, <3>3, <4>3
    <3>6. CASE p # <<>>
      <4> DEFINE f == Front(p)
                 b == <<1>> \o f
      <4>1. f \in DOMAIN t /\ f \in Seq(Nat) /\ Len(f) = Len(p) - 1 /\ Len(p) \in Nat \ {0}
            /\ \A i \in 1 .. Len(p) - 1 : f[i] = p[i]
        BY <3>1, <3>6, FrontOf DEF IsTree
      <4>2. b \in Seq(Nat) /\ Len(b) = Len(f) + 1 /\ b[1] = 1 /\ \A i \in 1 .. Len(f) : b[i + 1] = f[i]
        BY <4>1
      <4> HIDE DEF f, b, a
      <4>3. Front(a) \in Seq(Nat) /\ Len(Front(a)) = Len(a) - 1
            /\ \A i \in 1 .. Len(a) - 1 : Front(a)[i] = a[i]
        BY <3>2, FrontOf
      <4>4. ASSUME NEW i \in 1 .. Len(p) PROVE Front(a)[i] = b[i]
        <5>1. Front(a)[i] = a[i]
          BY <3>1, <3>2, <4>3
        <5>2. CASE i = 1
          BY <3>4, <4>2, <5>1, <5>2
        <5>3. CASE i # 1
          <6>1. i - 1 \in 1 .. Len(p) - 1 /\ i - 1 \in 1 .. Len(f) /\ i - 1 \in 1 .. Len(p) /\ (i - 1) + 1 = i
            BY <3>1, <4>1, <5>3
          <6>2. a[(i - 1) + 1] = p[i - 1] /\ b[(i - 1) + 1] = f[i - 1] /\ f[i - 1] = p[i - 1]
            BY <3>2, <4>1, <4>2, <6>1
          <6> QED
            BY <5>1, <6>1, <6>2
        <5> QED
          BY <5>2, <5>3
      <4>5. Len(Front(a)) = Len(b) /\ Len(b) = Len(p)
        BY <3>1, <3>2, <4>1, <4>2, <4>3
      <4>6. Front(a) = b
        BY <4>2, <4>3, <4>4, <4>5, SeqEqual
      <4>7. b \in S
        BY <4>1 DEF b
      <4> QED
        BY <3>2, <3>3, <4>6, <4>7 DEF a
    <3> QED
      BY <3>5, <3>6
  <2>2. DOMAIN w = {<<>>} \cup S
    OBVIOUS
  <2>3. IsNode(Group("and"))
    BY GroupNode DEF Logical
  <2>4. \A q \in S : q \in Seq(Nat) /\ q # <<>> /\ Tail(q) \in DOMAIN t /\ Front(q) \in {<<>>} \cup S
    BY <2>1
  <2>5. IsFiniteSet({<<>>} \cup S)
    <3> DEFINE f == [p \in DOMAIN t |-> <<1>> \o p]
    <3>1. S = {f[p] : p \in DOMAIN t} /\ DOMAIN f = DOMAIN t
      OBVIOUS
    <3>2. IsFiniteSet(DOMAIN t)
      BY DEF IsTree
    <3> HIDE DEF f, S
    <3>3. IsFiniteSet(S)
      BY <3>1, <3>2, ImageFinite
    <3> QED
      BY <3>3, FS_AddElement
  <2>6. \A q \in {<<>>} \cup S : q \in Seq(Nat) /\ IsNode(w[q])
    BY <2>3, <2>4, EmptySeq DEF IsTree
  <2> HIDE DEF S, w
  <2>7. IsTree(w)
    BY <2>2, <2>4, <2>5, <2>6 DEF IsTree
  <2>8. <<2>> \in Seq(Nat) /\ Front(<<2>>) = <<>>
    BY FrontOfOne
  <2>9. and_predicate(t, n) = Put(w, <<2>>, n)
    BY <1>3 DEF and_predicate, w, S
  <2> QED
    BY <2>2, <2>7, <2>8, <2>9, PutTree
<1> QED
  BY <1>1, <1>2, <1>3

\* What Execute sends is the draft without the values that no operator asks for.
LEMMA CommitTree ==
    ASSUME NEW t, IsTree(t)
    PROVE  /\ IsTree(commit_editor_root(t).pred)
           /\ DOMAIN commit_editor_root(t).pred = DOMAIN t
           /\ \A p \in DOMAIN t :
                /\ commit_editor_root(t).pred[p].op = t[p].op
                /\ commit_editor_root(t).pred[p].attr = t[p].attr
                /\ op_requires_value(t[p].op) => commit_editor_root(t).pred[p].val = t[p].val
<1> DEFINE c == [p \in DOMAIN t |-> IF op_requires_value(t[p].op) THEN t[p] ELSE [t[p] EXCEPT !.val = NoVal]]
<1>1. commit_editor_root(t).pred = c
  BY DEF commit_editor_root
<1>2. DOMAIN c = DOMAIN t
  OBVIOUS
<1>3. ASSUME NEW p \in DOMAIN t
      PROVE  /\ c[p].op = t[p].op /\ c[p].attr = t[p].attr /\ IsNode(c[p])
             /\ op_requires_value(t[p].op) => c[p].val = t[p].val
  <2>1. IsNode(t[p])
    BY DEF IsTree
  <2>2. CASE op_requires_value(t[p].op)
    BY <2>1, <2>2
  <2>3. CASE ~ op_requires_value(t[p].op)
    <3> DEFINE m == [t[p] EXCEPT !.val = NoVal]
    <3>1. c[p] = m
      BY <2>3
    <3>2. DOMAIN m = {"op", "attr", "val"} /\ m.op = t[p].op /\ m.attr = t[p].attr /\ m.val = NoVal
      BY <2>1 DEF IsNode
    <3> HIDE DEF m, c
    <3> QED
      BY <2>1, <2>3, <3>1, <3>2 DEF IsNode, Fits
  <2> QED
    BY <2>2, <2>3
<1>4. t = NullFilter => c = NullFilter
  OBVIOUS
<1> HIDE DEF c
<1>5. IsTree(c)
  BY <1>2, <1>3, <1>4 DEF IsTree
<1> QED
  BY <1>1, <1>2, <1>3, <1>5

\* A draft that can be sent compiles, up to limits and values.
LEMMA CommitValid ==
    ASSUME NEW t, Shown(t), commit_editor_root(t).ok,
           NEW p \in DOMAIN t
    PROVE  LET c == commit_editor_root(t).pred
           IN  c[p].attr \in Filterable \cup {NoAttr} =>
                   _compile_predicate(c, p) \in {"ok", "limit", "value"}
<1> DEFINE c == commit_editor_root(t).pred
           n == c[p]
<1> SUFFICES ASSUME n.attr \in Filterable \cup {NoAttr}
             PROVE  _compile_predicate(c, p) \in {"ok", "limit", "value"}
  OBVIOUS
<1>1. Complete(t, p)
  BY DEF commit_editor_root
<1>2. /\ IsTree(c) /\ DOMAIN c = DOMAIN t /\ n.op = t[p].op /\ n.attr = t[p].attr
      /\ op_requires_value(n.op) => n.val = t[p].val
  BY CommitTree DEF Shown
<1>3. IsNode(n) /\ n.op # "not"
  BY <1>2 DEF Shown, IsTree
<1>4. Kids(c, p) = Kids(t, p)
  BY <1>2 DEF Kids
<1> HIDE DEF c
<1>5. CASE IsGroup(n)
  <2>1. Kids(c, p) # {}
    BY <1>1, <1>2, <1>4, <1>5 DEF Complete, IsGroup
  <2> QED
    BY <1>5, <2>1 DEF _compile_predicate, _compile_logical_list
<1>6. CASE ~ IsGroup(n)
  <2>1. /\ n.attr # NoAttr /\ n.op # NoOp
        /\ op_requires_value(n.op) => n.val # NoVal
    BY <1>1, <1>2, <1>6 DEF Complete, IsGroup
  <2>2. n.attr \in Filterable /\ n.attr \in Attr
    BY <2>1 DEF Filterable
  <2>3. n.op \in leaf_ops_for_type(Type[n.attr])
    BY <1>3, <2>1, <2>2 DEF IsNode, Fits
  <2>4. _compile_leaf(n) \in {"ok", "value"}
    <3>1. CASE n.op \in NullChecks
      BY <2>2, <3>1 DEF _compile_leaf, _require_attribute
    <3>2. CASE n.op \notin NullChecks
      <4>1. n.val # NoVal /\ n.val.kind = quick_filter_control_kind(Type[n.attr])
        BY <1>3, <2>1, <2>2, <3>2 DEF IsNode, Fits, op_requires_value
      <4>2. /\ n.op \in OrderedOps => Type[n.attr] \in OrderedTypes
            /\ n.op \in PatternOps => Type[n.attr] \in PatternTypes
        BY <2>3, <3>2 DEF leaf_ops_for_type, OrderedOps, PatternOps, NullChecks
      <4>3. _coerce_value(n) \in {"ok", "value"}
        BY <4>1 DEF _coerce_value
      <4> QED
        BY <2>2, <3>2, <4>1, <4>2, <4>3 DEF _compile_leaf, _require_attribute
    <3> QED
      BY <3>1, <3>2
  <2> QED
    BY <1>3, <1>6, <2>4 DEF _compile_predicate
<1> QED
  BY <1>5, <1>6

----------------------------------------------------------------------------
\* Nesting

Deepest(t, l) ==
    IF t[<<>>].op = "and" THEN IF l = 0 THEN 2 ELSE l + 1 ELSE IF l = 0 THEN 1 ELSE l

\* No path of t is as long as the depth that level l allows it.
Nests(t, l) == l \in Nat /\ \A p \in DOMAIN t : Len(p) < Deepest(t, l)

LEMMA LeastNumber ==
    ASSUME NEW T, T \subseteq Nat, T # {}
    PROVE  \E n \in T : \A m \in T : n <= m
<1> DEFINE R == OpToRel(<, Nat)
<1>1. IsWellFoundedOn(R, Nat)
  BY NatLessThanWellFounded
<1>2. \A x, y \in T : <<y, x>> \in R <=> y < x
  BY DEF OpToRel
<1> HIDE DEF R
<1>3. PICK x \in T : \A y \in T : ~ (<<y, x>> \in R)
  BY <1>1, WFMin
<1>4. \A y \in T : ~ (y < x)
  BY <1>2, <1>3
<1>5. \A y \in T : x <= y
  BY <1>4
<1> QED
  BY <1>5

\* A tree has a node at every level above the one of any of its nodes.
LEMMA LevelsFilled ==
    ASSUME NEW t, IsTree(t), NEW p \in DOMAIN t
    PROVE  \A n \in 0 .. Len(p) : \E q \in DOMAIN t : Len(q) = n
<1> DEFINE Empty == {k \in 0 .. Len(p) : \A q \in DOMAIN t : Len(q) # Len(p) - k}
<1>1. Len(p) \in Nat
  BY DEF IsTree
<1>2. Empty = {}
  <2> SUFFICES ASSUME Empty # {} PROVE FALSE
    OBVIOUS
  <2>1. PICK k \in Empty : \A m \in Empty : k <= m
    <3>1. Empty \subseteq Nat
      BY <1>1
    <3> HIDE DEF Empty
    <3> QED
      BY <3>1, LeastNumber
  <2>2. k # 0 /\ k \in 1 .. Len(p)
    BY <1>1, <2>1
  <2>3. k - 1 \notin Empty /\ k - 1 \in 0 .. Len(p)
    <3>1. k \in Int /\ k - 1 < k /\ k - 1 \in 0 .. Len(p)
      BY <1>1, <2>2
    <3> HIDE DEF Empty
    <3>2. k - 1 \in Empty => k <= k - 1
      BY <2>1
    <3> QED
      BY <3>1, <3>2
  <2>4. PICK q \in DOMAIN t : Len(q) = Len(p) - (k - 1)
    BY <2>3
  <2>5. q \in Seq(Nat) /\ q # <<>>
    BY <1>1, <2>2, <2>4 DEF IsTree
  <2>6. Front(q) \in DOMAIN t /\ Len(Front(q)) = Len(p) - k
    <3>1. Front(q) \in DOMAIN t
      BY <2>5 DEF IsTree
    <3>2. Len(Front(q)) = Len(q) - 1
      BY <2>5, FrontOf
    <3> QED
      BY <1>1, <2>2, <2>4, <3>1, <3>2
  <2> QED
    BY <2>1, <2>6
<1> SUFFICES ASSUME NEW n \in 0 .. Len(p) PROVE \E q \in DOMAIN t : Len(q) = n
  OBVIOUS
<1>3. Len(p) - n \in 0 .. Len(p) /\ Len(p) - (Len(p) - n) = n
  BY <1>1
<1>4. Len(p) - n \notin Empty
  BY <1>2
<1> QED
  BY <1>3, <1>4

LEMMA DepthNumber ==
    ASSUME NEW t, IsTree(t)
    PROVE  /\ Depth(t) \in Nat /\ Depth(t) = Cardinality({Len(p) : p \in DOMAIN t})
           /\ IsFiniteSet({Len(p) : p \in DOMAIN t})
<1> DEFINE L == {Len(p) : p \in DOMAIN t}
           f == [p \in DOMAIN t |-> Len(p)]
<1>1. L = {f[p] : p \in DOMAIN t} /\ DOMAIN f = DOMAIN t
  OBVIOUS
<1>2. IsFiniteSet(DOMAIN t)
  BY DEF IsTree
<1>3. Depth(t) = Cardinality(L)
  BY DEF Depth
<1> HIDE DEF f, L
<1>4. IsFiniteSet(L)
  BY <1>1, <1>2, ImageFinite
<1>5. Cardinality(L) \in Nat
  BY <1>4, FS_CardinalityType
<1> QED
  BY <1>3, <1>4, <1>5 DEF L

\* A tree fits into its own depth.
LEMMA NestsInDepth ==
    ASSUME NEW t, IsTree(t)
    PROVE  Nests(t, Depth(t))
<1>1. Depth(t) \in Nat
  BY DepthNumber
<1>2. ASSUME NEW p \in DOMAIN t PROVE Len(p) < Depth(t)
  <2> DEFINE L == {Len(q) : q \in DOMAIN t}
  <2>1. Len(p) \in Nat
    BY DEF IsTree
  <2>2. 0 .. Len(p) \subseteq L
    BY LevelsFilled
  <2>3. Cardinality(0 .. Len(p)) = Len(p) + 1
    BY <2>1, FS_Interval
  <2>4. IsFiniteSet(L) /\ Depth(t) = Cardinality(L)
    BY DepthNumber
  <2> HIDE DEF L
  <2>5. Cardinality(0 .. Len(p)) <= Cardinality(L)
    BY <2>2, <2>4, FS_Subset
  <2> QED
    BY <1>1, <2>1, <2>3, <2>4, <2>5
<1>3. ASSUME NEW p \in DOMAIN t PROVE Len(p) < Deepest(t, Depth(t))
  <2>1. Len(p) \in Nat
    BY <1>3 DEF IsTree
  <2> QED
    BY <1>1, <1>2, <2>1 DEF Deepest
<1> QED
  BY <1>1, <1>3 DEF Nests

\* and_predicates nests at most one level deeper, and only once: its result is
\* an "and", which takes further conditions beside the ones it has.
LEMMA AndNests ==
    ASSUME NEW t, IsTree(t), NEW l, Nests(t, l), NEW n
    PROVE  Nests(and_predicate(t, n), l)
<1> DEFINE r == and_predicate(t, n)
<1>0. l \in Nat /\ \A p \in DOMAIN t : Len(p) < Deepest(t, l)
  BY DEF Nests
<1>1. CASE t = NullFilter
  <2>1. r = Put(NullFilter, <<>>, n)
    BY <1>1 DEF and_predicate
  <2>2. DOMAIN r = {<<>>}
    BY <2>1 DEF Put
  <2> HIDE DEF r
  <2>3. Len(<<>>) = 0 /\ 0 < Deepest(r, l)
    BY <1>0 DEF Deepest
  <2> QED
    BY <1>0, <2>2, <2>3 DEF Nests, r
<1>2. CASE t # NullFilter /\ t[<<>>].op = "and"
  <2> DEFINE k == Cardinality(Kids(t, <<>>)) + 1
  <2>1. k \in Nat
    BY KidsCounted
  <2>2. r = Put(t, <<k>>, n)
    BY <1>2 DEF and_predicate
  <2> HIDE DEF k, r
  <2>3. DOMAIN r = DOMAIN t \cup {<<k>>} /\ <<>> \in DOMAIN t
    BY <1>2, <2>2 DEF Put, IsTree
  <2>4. r[<<>>].op = "and"
    <3>1. <<k>> # <<>>
      BY <2>1, FrontOfOne
    <3>2. r[<<>>] = t[<<>>]
      BY <2>2, <2>3, <3>1 DEF Put
    <3> QED
      BY <1>2, <3>2
  <2>5. Deepest(r, l) = Deepest(t, l) /\ 1 < Deepest(r, l)
    BY <1>0, <1>2, <2>4 DEF Deepest
  <2>6. Len(<<k>>) = 1
    BY <2>1, FrontOfOne
  <2>7. \A p \in DOMAIN r : Len(p) < Deepest(r, l)
    BY <1>0, <2>3, <2>5, <2>6
  <2> QED
    BY <1>0, <2>7 DEF Nests, r
<1>3. CASE t # NullFilter /\ t[<<>>].op # "and"
  <2> DEFINE S == {<<1>> \o p : p \in DOMAIN t}
             w == [q \in {<<>>} \cup S |-> IF q = <<>> THEN Group("and") ELSE t[Tail(q)]]
  <2>1. r = Put(w, <<2>>, n)
    BY <1>3 DEF and_predicate
  <2>2. DOMAIN w = {<<>>} \cup S /\ w[<<>>] = Group("and")
    OBVIOUS
  <2> HIDE DEF w, r
  <2>3. DOMAIN r = {<<>>, <<2>>} \cup S
    BY <2>1, <2>2 DEF Put
  <2>4. <<2>> # <<>> /\ Len(<<2>>) = 1
    BY FrontOfOne
  <2>5. r[<<>>].op = "and"
    <3>1. r[<<>>] = Group("and")
      BY <2>1, <2>2, <2>4 DEF Put
    <3> QED
      BY <3>1 DEF Group
  <2>6. Deepest(r, l) = Deepest(t, l) + 1 /\ 1 < Deepest(r, l)
    BY <1>0, <1>3, <2>5 DEF Deepest
  <2>7. \A q \in S : Len(q) < Deepest(r, l)
    <3> SUFFICES ASSUME NEW p \in DOMAIN t PROVE Len(<<1>> \o p) < Deepest(r, l)
      OBVIOUS
    <3>1. p \in Seq(Nat) /\ Len(p) < Deepest(t, l)
      BY <1>0 DEF IsTree
    <3>2. Len(<<1>> \o p) = Len(p) + 1 /\ Len(p) \in Nat
      BY <3>1
    <3>3. Deepest(t, l) \in Nat
      BY <1>0 DEF Deepest
    <3> QED
      BY <2>6, <3>1, <3>2, <3>3
  <2>8. Len(<<>>) = 0 /\ 0 < Deepest(r, l)
    BY <1>0, <2>5 DEF Deepest
  <2> QED
    BY <1>0, <2>3, <2>4, <2>6, <2>7, <2>8 DEF Nests, r
<1> QED
  BY <1>1, <1>2, <1>3

\* A tree whose paths are short is not deep.
LEMMA NestsBounds ==
    ASSUME NEW t, IsTree(t), NEW l, Nests(t, l)
    PROVE  Depth(t) <= IF l = 0 THEN 2 ELSE l + 1
<1> DEFINE b == IF l = 0 THEN 2 ELSE l + 1
           L == {Len(q) : q \in DOMAIN t}
<1>1. l \in Nat /\ b \in Nat
  BY DEF Nests
<1>2. L \subseteq 0 .. b - 1
  <2> SUFFICES ASSUME NEW p \in DOMAIN t PROVE Len(p) \in 0 .. b - 1
    OBVIOUS
  <2>1. Len(p) \in Nat /\ Len(p) < Deepest(t, l)
    BY DEF Nests, IsTree
  <2>2. Deepest(t, l) <= b /\ Deepest(t, l) \in Nat
    BY <1>1 DEF Deepest
  <2> QED
    BY <1>1, <2>1, <2>2
<1>3. Depth(t) = Cardinality(L)
  BY DepthNumber
<1> HIDE DEF L, b
<1>4. IsFiniteSet(0 .. b - 1) /\ Cardinality(0 .. b - 1) = b
  <2>1. 0 \in Int /\ b - 1 \in Int /\ (0 > b - 1 <=> b = 0)
    BY <1>1
  <2> QED
    BY <1>1, <2>1, FS_Interval
<1>5. Cardinality(L) <= b
  BY <1>2, <1>4, FS_Subset
<1> QED
  BY <1>3, <1>5 DEF b

----------------------------------------------------------------------------
\* The invariant

\* The filters everywhere are trees, the draft is one the editor can show, and
\* what is in effect, referred to or on its way there nests no deeper than its
\* level allows.
Levelled(r) == IsTree(r.pred) /\ Nests(r.pred, r.level)
EditorInv ==
    /\ IsTree(home)
    /\ IsTree(eff) /\ Nests(eff, level)
    /\ Levelled(ref)
    /\ Shown(draft)
    /\ \A r \in asked : Levelled(r)
    /\ ExecutedIsValid
    /\ FreshUnlessEdited

LEMMA EditorInit ==
    ASSUME FilterInit PROVE EditorInv
<1>1. IsTree(home) /\ eff = home /\ level = Depth(home) /\ ref = Own
  BY FilterAssumption DEF FilterInit, FilterAssumption
<1>2. Nests(eff, level) /\ Levelled(ref)
  BY <1>1, NestsInDepth DEF Levelled, Own
<1>3. Shown(draft) /\ ExecutedIsValid
  BY NullTree DEF FilterInit, Shown, ExecutedIsValid
<1>4. asked = {} /\ FreshUnlessEdited
  BY DEF FilterInit, FreshUnlessEdited
<1> QED
  BY <1>1, <1>2, <1>3, <1>4 DEF EditorInv

\* What sync_draft_from_effective loads can be shown.
LEMMA SyncShown ==
    ASSUME NEW t, IsTree(t), Sync(t)
    PROVE  Shown(draft')
BY NullTree DEF Sync, predicate_contains_not, Shown

\* An edit leaves everything but the draft alone.
LEMMA EditKeeps ==
    ASSUME EditorInv, NEW t, Shown(t), Edit(t)
    PROVE  EditorInv'
<1>1. draft' = t /\ edited' = TRUE /\ UNCHANGED <<open, blocked, list, asked, sent>>
  BY DEF Edit
<1>0. UNCHANGED <<home, eff, ref, level>>
  BY <1>1 DEF list
<1>2. ExecutedIsValid'
  BY <1>1 DEF EditorInv, ExecutedIsValid
<1>3. FreshUnlessEdited'
  BY <1>1 DEF FreshUnlessEdited
<1>4. Shown(draft')
  BY <1>1
<1> QED
  BY <1>0, <1>1, <1>2, <1>3, <1>4 DEF EditorInv

LEMMA EditorStep ==
    ASSUME EditorInv, [FilterNext]_filterVars PROVE EditorInv'
<1> USE DEF EditorInv
<1>1. ASSUME UNCHANGED <<home, eff, ref, level, asked, sent>>, Shown(draft'), FreshUnlessEdited'
      PROVE  EditorInv'
  BY <1>1 DEF ExecutedIsValid
<1>2. CASE on_toggle
  <2>0. Shown(NullFilter)
    BY NullTree DEF Shown
  <2>1. Shown(draft')
    <3>1. CASE open
      BY <1>2, <2>0, <3>1 DEF on_toggle, Close
    <3>2. CASE ~ open
      BY <1>2, <3>2, SyncShown DEF on_toggle
    <3> QED BY <3>1, <3>2
  <2>2. UNCHANGED <<home, eff, ref, level, asked, sent>>
    BY <1>2 DEF on_toggle, list
  <2>3. FreshUnlessEdited'
    BY <1>2, <2>2 DEF on_toggle, Close, Sync, FreshUnlessEdited
  <2> QED
    BY <1>1, <2>1, <2>2, <2>3
<1>3. CASE on_close
  BY <1>1, <1>3, NullTree DEF on_close, Close, Shown, list, FreshUnlessEdited
<1>4. CASE on_reset
  <2>1. UNCHANGED <<home, eff, ref, level, asked, sent>> /\ Shown(draft')
    BY <1>4, SyncShown DEF on_reset, list
  <2>2. FreshUnlessEdited'
    BY <1>4 DEF on_reset, list, Sync, FreshUnlessEdited
  <2> QED
    BY <1>1, <2>1, <2>2
<1>5. CASE on_add_root
  <2>1. IsNode(empty_leaf) /\ empty_leaf.op # "not"
    BY EmptyLeaf DEF NoOp
  <2>2. Shown(NullFilter)
    BY NullTree DEF Shown
  <2>3. Shown(Put(NullFilter, <<>>, empty_leaf))
    BY <2>1, <2>2, PutShown, EmptySeq
  <2> QED
    BY <1>5, <2>3, EditKeeps DEF on_add_root
<1>6. ASSUME NEW p \in DOMAIN draft, on_remove(p) PROVE EditorInv'
  BY <1>6, RemoveShown, EditKeeps DEF on_remove
<1>7. ASSUME NEW p \in DOMAIN draft, on_append(p) PROVE EditorInv'
  BY <1>7, AppendShown, EditKeeps DEF on_append
<1>8. ASSUME NEW p \in DOMAIN draft, on_operator(p) PROVE EditorInv'
  BY <1>8, OperatorShown, EditKeeps DEF on_operator
<1>9. ASSUME NEW p \in DOMAIN draft, on_field(p) PROVE EditorInv'
  BY <1>9, FieldShown, EditKeeps DEF on_field
<1>10. ASSUME NEW p \in DOMAIN draft, on_value(p) PROVE EditorInv'
  <2>1. draft[p].attr \in Filterable
    BY <1>10 DEF on_value
  <2>2. PICK q : Edit(Put(draft, p, [draft[p] EXCEPT !.val =
                    [kind |-> quick_filter_control_kind(Type[draft[p].attr]), quality |-> q]]))
    BY <1>10 DEF on_value
  <2> QED
    BY <2>1, <2>2, ValueShown, EditKeeps
<1>11. ASSUME NEW p, NEW l, NEW pg, Submit(p, l, pg), IsTree(p), Nests(p, l)
      PROVE  /\ UNCHANGED <<home, eff, ref, level>>
             /\ \A q \in asked' : Levelled(q)
  <2> DEFINE r == [id |-> CHOOSE i \in Free : TRUE, pred |-> p, level |-> l, page |-> pg]
  <2>1. asked' = asked \cup {r} /\ UNCHANGED <<home, eff, ref, level>>
    BY <1>11 DEF Submit, list
  <2>2. Levelled(r)
    BY <1>11 DEF Levelled
  <2> HIDE DEF r
  <2> QED
    BY <2>1, <2>2
<1>12. CASE on_execute_click
  <2> DEFINE c == commit_editor_root(draft)
  <2>1. /\ c.ok /\ sent' = c.pred /\ Submit(sent', Depth(sent'), "first") /\ open' = FALSE
        /\ Shown(draft')
    BY <1>12, NullTree DEF on_execute_click, Close, Shown
  <2>2. IsTree(c.pred) /\ DOMAIN c.pred = DOMAIN draft
    BY <2>1, CommitTree DEF Shown
  <2>3. \A p \in DOMAIN draft : c.pred[p].attr \in Filterable \cup {NoAttr} =>
            _compile_predicate(c.pred, p) \in {"ok", "limit", "value"}
    BY <2>1, CommitValid
  <2> HIDE DEF c
  <2>4. ExecutedIsValid'
    BY <2>1, <2>2, <2>3 DEF ExecutedIsValid
  <2>5. Submit(c.pred, Depth(c.pred), "first")
    BY <2>1
  <2>6. /\ UNCHANGED <<home, eff, ref, level>>
        /\ \A q \in asked' : Levelled(q)
    BY <1>11, <2>2, <2>5, NestsInDepth
  <2>7. FreshUnlessEdited'
    BY <2>1 DEF FreshUnlessEdited
  <2> QED
    BY <2>1, <2>4, <2>6, <2>7
<1>13. ASSUME NEW p, NEW pg, PageSearch(p, pg), IsTree(p), Nests(p, ref.level) PROVE EditorInv'
  <2>1. Submit(p, ref.level, pg) /\ UNCHANGED <<open, draft, blocked, edited, sent>>
    BY <1>13 DEF PageSearch, editor
  <2>2. /\ UNCHANGED <<home, eff, ref, level>>
        /\ \A q \in asked' : Levelled(q)
    BY <1>11, <1>13, <2>1
  <2>3. ExecutedIsValid' /\ FreshUnlessEdited'
    BY <2>1, <2>2 DEF ExecutedIsValid, FreshUnlessEdited
  <2> QED
    BY <2>1, <2>2, <2>3
<1>14. ASSUME NEW n \in Addition, on_quick_enter(n) PROVE EditorInv'
  <2>1. IsNode(n)
    BY FilterAssumption DEF FilterAssumption
  <2>2. IsTree(and_predicate(ref.pred, n)) /\ Nests(and_predicate(ref.pred, n), ref.level)
    BY <2>1, AndTree, AndNests DEF Levelled
  <2> QED
    BY <1>13, <1>14, <2>2 DEF on_quick_enter
<1>15. CASE on_search_again
  BY <1>13, <1>15 DEF on_search_again, Levelled
<1>16. Levelled(Own) /\ \A t, l : IsTree(t) /\ Nests(t, l) => Levelled([pred |-> t, level |-> l])
  BY NestsInDepth DEF Own, Levelled
<1>17. ASSUME NEW r \in asked, Applied(r) PROVE EditorInv'
  <2>1. PICK same \in SameObject(r.pred) :
          /\ ref' = IF r.pred = NullFilter /\ ~ same THEN Own
                    ELSE [pred |-> r.pred, level |-> r.level]
          /\ IF open /\ ~ same THEN Sync(r.pred) ELSE UNCHANGED <<draft, blocked, edited>>
    BY <1>17 DEF Applied
  <2>2. /\ asked' = asked \ {r} /\ UNCHANGED <<home, open>> /\ sent' = NullFilter
        /\ eff' = r.pred /\ level' = r.level
    BY <1>17 DEF Applied
  <2>3. IsTree(r.pred) /\ Nests(r.pred, r.level)
    BY DEF Levelled
  <2>4. Levelled(ref')
    BY <1>16, <2>1, <2>3
  <2>5. ExecutedIsValid'
    BY <2>2 DEF ExecutedIsValid, NullFilter
  <2>6. Shown(draft')
    BY <2>1, <2>3, SyncShown
  <2>7. FreshUnlessEdited'
    <3>1. same => r.pred = eff
      BY DEF SameObject
    <3> QED
      BY <2>1, <2>2, <3>1 DEF Sync, FreshUnlessEdited
  <2>8. \A q \in asked' : Levelled(q)
    BY <2>2
  <2> QED
    BY <2>2, <2>3, <2>4, <2>5, <2>6, <2>7, <2>8
<1>18. ASSUME NEW r \in asked, PastEnd(r) PROVE EditorInv'
  <2>1. /\ ref' = [pred |-> r.pred, level |-> r.level]
        /\ UNCHANGED <<home, eff, level, open, draft, blocked, edited, asked, sent>>
    BY <1>18 DEF PastEnd, editor
  <2>2. Levelled(ref')
    BY <1>16, <2>1 DEF Levelled
  <2>3. ExecutedIsValid' /\ FreshUnlessEdited'
    BY <2>1 DEF ExecutedIsValid, FreshUnlessEdited
  <2> QED
    BY <2>1, <2>2, <2>3
<1>19. ASSUME NEW r \in asked, Failed(r) PROVE EditorInv'
  <2>1. /\ asked' \subseteq asked /\ sent' = NullFilter
        /\ UNCHANGED <<home, eff, ref, level, open, draft, blocked, edited>>
    BY <1>19 DEF Failed, list, editor
  <2>2. ExecutedIsValid' /\ FreshUnlessEdited'
    BY <2>1 DEF ExecutedIsValid, FreshUnlessEdited, NullFilter
  <2> QED
    BY <2>1, <2>2
<1>20. ASSUME NEW r \in asked, Unanswered(r) PROVE EditorInv'
  <2>1. /\ asked' \subseteq asked
        /\ UNCHANGED <<home, eff, ref, level, open, draft, blocked, edited, sent>>
    BY <1>20 DEF Unanswered, list, editor
  <2>2. ExecutedIsValid' /\ FreshUnlessEdited'
    BY <2>1 DEF ExecutedIsValid, FreshUnlessEdited
  <2> QED
    BY <2>1, <2>2
<1>21. CASE SamePath
  <2>1. /\ ref' = IF eff = NullFilter THEN Own ELSE [pred |-> eff, level |-> level]
        /\ UNCHANGED <<home, eff, level, open, draft, blocked, edited, asked, sent>>
    BY <1>21 DEF SamePath, editor
  <2>2. Levelled(ref')
    BY <1>16, <2>1
  <2>3. ExecutedIsValid' /\ FreshUnlessEdited'
    BY <2>1 DEF ExecutedIsValid, FreshUnlessEdited
  <2> QED
    BY <2>1, <2>2, <2>3
<1>22. CASE UNCHANGED filterVars
  BY <1>1, <1>22 DEF filterVars, editor, list, FreshUnlessEdited
<1> QED
  BY <1>2, <1>3, <1>4, <1>5, <1>6, <1>7, <1>8, <1>9, <1>10, <1>12, <1>14, <1>15, <1>17, <1>18,
     <1>19, <1>20, <1>21, <1>22 DEF FilterNext

\* The inductive invariant of the filter editor, from the assumption that
\* FilterEditor makes on its constants: the filters that the navigation and the
\* quick filter bring are trees with conditions that suit their attributes.
THEOREM EditorInvariant ==
    FilterSpec => []EditorInv
<1>1. FilterInit => EditorInv
  BY EditorInit
<1>2. EditorInv /\ [FilterNext]_filterVars => EditorInv'
  BY EditorStep
<1> QED
  BY <1>1, <1>2, PTL DEF FilterSpec

\* Whatever sequence of edits led to it, what Execute sends is refused by
\* _compile_predicate only for what the browser cannot tell.
THEOREM ExecutedFiltersAreValid ==
    FilterSpec => []ExecutedIsValid
<1>1. EditorInv => ExecutedIsValid
  BY DEF EditorInv
<1> QED
  BY <1>1, EditorInvariant, PTL

\* An open editor that was not edited shows the filter in effect, however the
\* answers of searches come in.
THEOREM EditorIsFresh ==
    FilterSpec => []FreshUnlessEdited
<1>1. EditorInv => FreshUnlessEdited
  BY DEF EditorInv
<1> QED
  BY <1>1, EditorInvariant, PTL

\* Any number of quick filters nests a filter at most one level deeper, two when
\* there was none, than the one they started from, which after an empty filter is
\* the list's own (effective_ref).
THEOREM QuickFiltersStayFlat ==
    FilterSpec => []NestingBounded
<1>1. EditorInv => NestingBounded
  BY NestsBounds DEF EditorInv, NestingBounded
<1> QED
  BY <1>1, EditorInvariant, PTL

=============================================================================
