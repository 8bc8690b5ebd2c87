------------------------ MODULE SettingsCacheProofs ------------------------
(***************************************************************************)
(* How long a cached copy of system_config can be wrong, for any number of *)
(* processes, readers and writers, any TTLs and any delays.                *)
(***************************************************************************)
EXTENDS SettingsCache, TLAPS

Cached == Entry \cup {NoEntry}

LEMMA MinusType == \A a, b \in 0 .. Horizon : Minus(a, b) \in 0 .. Horizon
BY TimesAssumption DEF Minus

LEMMA TickType == \A a \in 0 .. Horizon : /\ Minus(a, 1) \in 0 .. Horizon
                                          /\ Sooner(a + 1, Horizon) \in 0 .. Horizon
BY TimesAssumption DEF Minus, Sooner

LEMMA TtlType == \A t \in Ttls : t \in Nat /\ t > 0 /\ t \in 0 .. Horizon
<1> SUFFICES ASSUME NEW t \in Ttls
             PROVE  t \in Nat /\ t > 0 /\ t \in 0 .. Horizon
  OBVIOUS
<1>1. t \in 1 .. Horizon
  BY TimesAssumption, Zenon
<1> QED
  BY <1>1, TimesAssumption

LEMMA CachedFields ==
    ASSUME NEW e \in Cached
    PROVE  /\ e.ver \in 0 .. MaxVer /\ e.left \in 0 .. Horizon
           /\ e.ttl \in 0 .. Horizon
           /\ e # NoEntry => e \in Entry /\ e.ver \in Version /\ e.ttl \in Ttls
<1>1. CASE e = NoEntry
  BY <1>1, TimesAssumption DEF NoEntry
<1>2. CASE e \in Entry
  <2>1. e.ver \in Version /\ e.ttl \in Ttls /\ e.left \in 0 .. Horizon
    BY <1>2 DEF Entry
  <2>2. e.ver \in 0 .. MaxVer
    BY <2>1, TimesAssumption DEF Version
  <2>3. e.ttl \in 0 .. Horizon
    BY <2>1, TtlType, Zenon
  <2> QED
    BY <1>2, <2>1, <2>2, <2>3
<1> QED
  BY <1>1, <1>2 DEF Cached

\* Changing when an entry expires leaves an entry.
LEMMA LeftType ==
    ASSUME NEW e \in Cached, NEW n \in 0 .. Horizon,
           e = NoEntry => n = 0
    PROVE  /\ [e EXCEPT !.left = n] \in Cached
           /\ [e EXCEPT !.left = n].left = n
           /\ [e EXCEPT !.left = n].ver = e.ver
           /\ [e EXCEPT !.left = n].ttl = e.ttl
           /\ [e EXCEPT !.left = n].src = e.src
BY DEF Cached, Entry, NoEntry

LEMMA ExpiredType ==
    ASSUME NEW e \in Cached
    PROVE  expired(e) \in Cached /\ expired(e).left = 0 /\ expired(e).ver = e.ver
BY LeftType, TimesAssumption DEF expired

LEMMA FallbackType ==
    ASSUME TypeOK, NEW r \in Reader, MayFallBack(r)
    PROVE  /\ fallbackEntry(r) \in Entry
           /\ fallbackEntry(r).ver = prev[r].ver
           /\ fallbackEntry(r).src = "fallback"
<1>1. prev[r] \in Entry
  BY DEF TypeOK, MayFallBack
<1>2. Minus(Backoff, age[r]) \in 0 .. Horizon
  <2>1. Backoff \in 0 .. Horizon
    BY TimesAssumption
  <2>2. age[r] \in 0 .. Horizon
    BY DEF TypeOK
  <2> QED
    BY <2>1, <2>2, MinusType, Zenon
<1>3. prev[r].ver \in Version /\ prev[r].ttl \in Ttls
  BY <1>1 DEF Entry
<1> DEFINE n == Minus(Backoff, age[r])
<1> HIDE DEF n
<1>4. [ver |-> prev[r].ver, ttl |-> prev[r].ttl, left |-> n, src |-> "fallback"] \in Entry
  BY <1>2, <1>3 DEF Entry, n
<1>5. fallbackEntry(r) =
        [ver |-> prev[r].ver, ttl |-> prev[r].ttl, left |-> n, src |-> "fallback"]
  BY DEF fallbackEntry, n
<1> QED
  BY <1>4, <1>5

LEMMA LoadedType ==
    ASSUME TypeOK, NEW r \in Reader, rpc[r] = "fill"
    PROVE  /\ loadedEntry(r) \in Entry
           /\ loadedEntry(r).ver = val[r].ver
           /\ loadedEntry(r).ttl = val[r].ttl
           /\ loadedEntry(r).left = Minus(val[r].ttl, age[r])
<1>1. val[r] \in Row /\ age[r] \in 0 .. Horizon
  BY DEF TypeOK
<1>2. val[r].ttl \in 0 .. Horizon
  <2>1. val[r].ttl \in Ttls
    BY <1>1 DEF Row
  <2> QED
    BY <2>1, TtlType, Zenon
<1>3. Minus(val[r].ttl, age[r]) \in 0 .. Horizon
  BY <1>1, <1>2, MinusType, Zenon
<1>4. val[r].ver \in Version /\ val[r].ttl \in Ttls
  BY <1>1 DEF Row
<1> DEFINE n == Minus(val[r].ttl, age[r])
<1> HIDE DEF n
<1>5. [ver |-> val[r].ver, ttl |-> val[r].ttl, left |-> n, src |-> "load"] \in Entry
  BY <1>3, <1>4 DEF Entry, n
<1>6. loadedEntry(r) =
        [ver |-> val[r].ver, ttl |-> val[r].ttl, left |-> n, src |-> "load"]
  BY DEF loadedEntry, n
<1>7. loadedEntry(r).left = n
  BY <1>6
<1> QED
  BY <1>5, <1>6, <1>7 DEF n

LEMMA TypeInit == Init => TypeOK
BY TimesAssumption, HomeAssumption
   DEF Init, TypeOK, Row, Entry, NoEntry, NoRow, Version

LEMMA TypeStep == TypeOK /\ [Next]_vars => TypeOK'
<1> SUFFICES ASSUME TypeOK, [Next]_vars
             PROVE  TypeOK'
  OBVIOUS
<1>t. /\ row \in Row /\ since \in [Version -> 0 .. Horizon]
      /\ entry \in [Proc -> Cached] /\ prev \in [Reader -> Cached]
      /\ hold \in [Invalidators -> Cached]
  BY DEF TypeOK, Cached
<1>n. NoEntry \in Cached
  BY DEF Cached
<1>h. Home \in [Reader \cup Writer -> Proc]
  BY HomeAssumption
<1>1. CASE Tick
  <2>1. \A p \in Proc : [entry[p] EXCEPT !.left = Minus(@, 1)] \in Cached
    <3> SUFFICES ASSUME NEW p \in Proc
                 PROVE  [entry[p] EXCEPT !.left = Minus(entry[p].left, 1)] \in Cached
      OBVIOUS
    <3>1. entry[p] \in Cached /\ entry[p].left \in 0 .. Horizon
      BY <1>t, CachedFields
    <3>2. entry[p] = NoEntry => Minus(entry[p].left, 1) = 0
      BY DEF NoEntry, Minus
    <3> QED
      BY <3>1, <3>2, TickType, LeftType
  <2>2. entry' \in [Proc -> Cached]
    BY <1>1, <2>1 DEF Tick
  <2>3. age' \in [Reader -> 0 .. Horizon]
    BY <1>1, TickType, TimesAssumption DEF Tick, TypeOK
  <2>4. since' \in [Version -> 0 .. Horizon]
    BY <1>1, TickType DEF Tick, TypeOK
  <2> QED
    BY <1>1, <2>2, <2>3, <2>4 DEF Tick, TypeOK, Cached, writerVars
<1>2. ASSUME NEW p \in Proc, ProcStep(p)
      PROVE  TypeOK'
  <2>1. CASE Subscribe(p) \/ SubscribeFails(p) \/ Lose(p)
    BY <2>1 DEF Subscribe, SubscribeFails, Lose, TypeOK, rowVars, readerVars,
                writerVars
  <2>2. CASE Restart(p)
    <3> DEFINE gone(x) == x = p \/ (x # p /\ x \in Reader \cup Writer /\ Home[x] = p)
    <3> HIDE DEF gone
    <3>1. /\ entry' = [entry EXCEPT ![p] = NoEntry]
          /\ sub' = [sub EXCEPT ![p] = "none"]
          /\ pend' = [pend EXCEPT ![p] = 0]
          /\ rpc' = [r \in Reader |-> IF gone(r) THEN "idle" ELSE rpc[r]]
          /\ prev' = [r \in Reader |-> IF gone(r) THEN NoEntry ELSE prev[r]]
          /\ age' = [r \in Reader |-> IF gone(r) THEN 0 ELSE age[r]]
          /\ val' = [r \in Reader |-> IF gone(r) THEN NoRow ELSE val[r]]
          /\ wpc' = [w \in Writer |-> IF gone(w) THEN "idle" ELSE wpc[w]]
          /\ before' = [w \in Writer |-> IF gone(w) THEN NoRow ELSE before[w]]
          /\ hold' = [x \in Invalidators |-> IF gone(x) THEN NoEntry ELSE hold[x]]
          /\ row' = row /\ since' = since
      BY <2>2 DEF Restart, rowVars, gone
    <3>2. /\ row' \in Row /\ since' \in [Version -> 0 .. Horizon]
          /\ entry' \in [Proc -> Cached]
          /\ sub' \in [Proc -> {"none", "on", "failed"}]
          /\ pend' \in [Proc -> Nat]
      BY <3>1, <1>t, <1>n DEF TypeOK
    <3>3. /\ rpc' \in [Reader -> {"idle", "load", "fill"}]
          /\ prev' \in [Reader -> Cached]
          /\ val' \in [Reader -> Row \cup {NoRow}]
          /\ \A r \in Reader : rpc'[r] = "fill" => val'[r] \in Row
      BY <3>1, <1>t, <1>n DEF TypeOK
    <3>4. age' \in [Reader -> 0 .. Horizon]
      BY <3>1, TimesAssumption DEF TypeOK
    <3>5. /\ wpc' \in [Writer -> {"idle", "notify", "store", "publish", "audit"}]
          /\ before' \in [Writer -> Row \cup {NoRow}]
          /\ \A w \in Writer : wpc'[w] # "idle" => before'[w] \in Row
      BY <3>1 DEF TypeOK
    <3>6. hold' \in [Invalidators -> Cached]
      BY <3>1, <1>t, <1>n
    <3> QED
      BY <3>2, <3>3, <3>4, <3>5, <3>6 DEF TypeOK, Cached
  <2>3. CASE DeliverAuth(p) \/ DeliverSsr(p) \/ DeliverApi(p)
    <3>1. Receive(p)
      BY <2>3 DEF DeliverAuth, DeliverSsr, DeliverApi
    <3>2. pend' \in [Proc -> Nat]
      BY <3>1 DEF Receive, TypeOK
    <3>3. entry[p] \in Cached /\ expired(entry[p]) \in Cached
      BY <1>t, ExpiredType
    <3>4. entry' \in [Proc -> Cached] /\ hold' \in [Invalidators -> Cached]
      BY <2>3, <3>3, <1>t, <1>n
         DEF DeliverAuth, DeliverSsr, DeliverApi, Invalidators
    <3> QED
      BY <3>1, <3>2, <3>4 DEF Receive, TypeOK, Cached, rowVars, readerVars,
                              writerVars
  <2>4. CASE InvalidateStore(p)
    <3>1. p \in Invalidators
      BY <2>4 DEF InvalidateStore, Invalidators
    <3>2. hold[p] \in Cached /\ expired(hold[p]) \in Cached
      BY <3>1, <1>t, ExpiredType
    <3>3. entry' \in [Proc -> Cached] /\ hold' \in [Invalidators -> Cached]
      BY <2>4, <3>2, <1>t, <1>n DEF InvalidateStore
    <3> QED
      BY <2>4, <3>3 DEF InvalidateStore, TypeOK, Cached, rowVars, readerVars,
                        writerVars
  <2> QED
    BY <1>2, <2>1, <2>2, <2>3, <2>4 DEF ProcStep
<1>3. ASSUME NEW r \in Reader, ReaderStep(r)
      PROVE  TypeOK'
  <2>p. Home[r] \in Proc
    BY <1>h
  <2>0. Returns(r) => /\ rpc' \in [Reader -> {"idle", "load", "fill"}]
                      /\ prev' \in [Reader -> Cached]
                      /\ age' \in [Reader -> 0 .. Horizon]
                      /\ val' \in [Reader -> Row \cup {NoRow}]
                      /\ \A q \in Reader : rpc'[q] = "fill" => val'[q] \in Row
    BY <1>t, <1>n, TimesAssumption DEF Returns, TypeOK
  <2>1. CASE GetMiss(r)
    BY <2>1, <2>p, TimesAssumption
       DEF GetMiss, TypeOK, rowVars, writerVars
  <2>2. CASE Load(r)
    BY <2>2 DEF Load, TypeOK, rowVars, writerVars
  <2>3. CASE Fill(r)
    <3>1. entry' \in [Proc -> Cached]
      BY <2>3, <1>t, LoadedType DEF Fill, Cached
    <3> QED
      BY <2>3, <2>0, <3>1 DEF Fill, TypeOK, Cached, rowVars, writerVars
  <2>4. CASE LoadFails(r)
    <3>1. entry' \in [Proc -> Cached]
      BY <2>4, <1>t, FallbackType DEF LoadFails, Cached
    <3> QED
      BY <2>4, <2>0, <3>1 DEF LoadFails, TypeOK, Cached, rowVars, writerVars
  <2>5. CASE LoadThrows(r)
    BY <2>5, <2>0 DEF LoadThrows, TypeOK, Cached, rowVars, writerVars
  <2> QED
    BY <1>3, <2>1, <2>2, <2>3, <2>4, <2>5 DEF ReaderStep
<1>4. ASSUME NEW w \in Writer, WriterStep(w)
      PROVE  TypeOK'
  <2>p. Home[w] \in Proc /\ w \in Invalidators
    BY <1>h DEF Invalidators
  <2>c. \A t \in Ttls : Commit(t) => row' \in Row /\ since' = since
                                     /\ row.ver + 1 \in Version
    BY <1>t, TimesAssumption DEF Commit, Row, Version
  <2>1. CASE Update(w)
    <3>1. row' \in Row /\ since' = since /\ row.ver + 1 \in Version
      BY <2>1, <2>c DEF Update
    <3>2. before' \in [Writer -> Row \cup {NoRow}]
      BY <2>1, <1>t DEF Update, TypeOK
    <3>3. \A x \in Writer : wpc'[x] # "idle" => before'[x] \in Row
      BY <2>1, <1>t, <3>1 DEF Update, TypeOK
    <3> QED
      BY <2>1, <3>1, <3>2, <3>3 DEF Update, TypeOK, readerVars
  <2>2. CASE NotifyRead(w)
    <3>1. hold' \in [Invalidators -> Cached]
      BY <2>2, <2>p, <1>t DEF NotifyRead
    <3> QED
      BY <2>2, <3>1 DEF NotifyRead, TypeOK, Cached, rowVars, readerVars
  <2>3. CASE NotifyStore(w)
    <3>1. hold[w] \in Cached /\ expired(hold[w]) \in Cached
      BY <2>p, <1>t, ExpiredType
    <3>2. entry' \in [Proc -> Cached] /\ hold' \in [Invalidators -> Cached]
      BY <2>3, <3>1, <1>t, <1>n DEF NotifyStore
    <3> QED
      BY <2>3, <3>2 DEF NotifyStore, TypeOK, Cached, rowVars, readerVars
  <2>4. CASE Publish(w)
    BY <2>4 DEF Publish, TypeOK, rowVars, readerVars
  <2>5. CASE PublishFails(w)
    BY <2>5 DEF PublishFails, TypeOK, rowVars, readerVars
  <2>6. PatchEnds(w) => /\ wpc' \in [Writer -> {"idle", "notify", "store", "publish",
                                                "audit"}]
                        /\ before' \in [Writer -> Row \cup {NoRow}]
                        /\ \A x \in Writer : wpc'[x] # "idle" => before'[x] \in Row
    BY TimesAssumption DEF PatchEnds, TypeOK
  <2>7. CASE Audited(w)
    BY <2>7, <2>6 DEF Audited, TypeOK, rowVars, readerVars
  <2>8. CASE Compensate(w)
    <3>1. before[w].ttl \in Ttls
      BY <2>8 DEF Compensate, TypeOK, Row
    <3>2. row' \in Row /\ since' = since
      BY <2>8, <3>1, <2>c DEF Compensate
    <3> QED
      BY <2>8, <2>6, <3>2 DEF Compensate, TypeOK, readerVars
  <2> QED
    BY <1>4, <2>1, <2>2, <2>3, <2>4, <2>5, <2>7, <2>8 DEF WriterStep
<1>5. CASE UNCHANGED vars
  BY <1>5 DEF vars, TypeOK, rowVars, readerVars, writerVars
<1> QED
  BY <1>1, <1>2, <1>3, <1>4, <1>5 DEF Next

----------------------------------------------------------------------------
\* The parts of IInv, entry by entry and reader by reader.
Bounded(e)  == e.src = "load" /\ e.left > 0 /\ e.ver < row.ver
                   => e.left + since[e.ver] <= e.ttl
Within(e)   == e.src = "load" => e.left <= e.ttl
EntryOK(e)  == e \in Cached /\ Bounded(e) /\ Within(e) /\ e.ver <= row.ver
FlightOK(r) == /\ val[r].ver <= row.ver /\ prev[r].ver <= row.ver
               /\ rpc[r] = "fill" /\ val[r].ver < row.ver
                      => since[val[r].ver] <= age[r]
HoldOK(x)   == hold[x].ver <= row.ver

LEMMA Parts ==
    TypeOK => (IInv <=> /\ \A p \in Proc : EntryOK(entry[p])
                        /\ \A r \in Reader : FlightOK(r)
                        /\ \A x \in Invalidators : HoldOK(x)
                        /\ SinceStarts)
<1> SUFFICES ASSUME TypeOK
             PROVE  IInv <=> /\ \A p \in Proc : EntryOK(entry[p])
                             /\ \A r \in Reader : FlightOK(r)
                             /\ \A x \in Invalidators : HoldOK(x)
                             /\ SinceStarts
  OBVIOUS
<1>1. \A p \in Proc : entry[p] \in Cached
  BY DEF TypeOK, Cached
<1> QED
  BY <1>1, Zenon DEF IInv, StaleBounded, FlightBounded, CopiesPast, LeftWithinTtl,
                     EntryOK, FlightOK, HoldOK, Bounded, Within

LEMMA PartsNext ==
    ASSUME TypeOK', \A p \in Proc : EntryOK(entry[p])',
           \A r \in Reader : FlightOK(r)',
           \A x \in Invalidators : HoldOK(x)', SinceStarts'
    PROVE  IInv'
BY Zenon DEF IInv, StaleBounded, FlightBounded, CopiesPast, LeftWithinTtl,
             EntryOK, FlightOK, HoldOK, Bounded, Within

\* An expired entry, and no entry, are always in order.
LEMMA ExpiredOK ==
    ASSUME TypeOK, NEW e \in Cached, e.ver <= row.ver
    PROVE  EntryOK(expired(e))
<1>1. expired(e) \in Cached /\ expired(e).left = 0 /\ expired(e).ver = e.ver
  BY ExpiredType
<1>2. expired(e).ttl \in 0 .. Horizon
  BY <1>1, CachedFields
<1> QED
  BY <1>1, <1>2 DEF EntryOK, Bounded, Within

LEMMA NoEntryOK == TypeOK => EntryOK(NoEntry)
<1> SUFFICES ASSUME TypeOK PROVE EntryOK(NoEntry)
  OBVIOUS
<1>1. row.ver \in Nat
  BY TimesAssumption DEF TypeOK, Row, Version
<1> QED
  BY <1>1 DEF EntryOK, Bounded, Within, NoEntry, Cached

LEMMA InvInit == Init => IInv
<1> SUFFICES ASSUME Init PROVE IInv
  OBVIOUS
<1>1. TypeOK
  BY TypeInit
<1>2. \A p \in Proc : EntryOK(entry[p])
  BY <1>1, NoEntryOK DEF Init
<1>3. row.ver = 1
  BY DEF Init
<1>4. \A r \in Reader : FlightOK(r)
  BY <1>3 DEF Init, FlightOK, NoRow, NoEntry
<1>5. \A x \in Invalidators : HoldOK(x)
  BY <1>3 DEF Init, HoldOK, NoEntry
<1>6. SinceStarts
  BY DEF Init, SinceStarts
<1> QED
  BY <1>1, <1>2, <1>4, <1>5, <1>6, Parts

\* A write supersedes a version: its copies have all of their TTL at most.
LEMMA CommitStep ==
    ASSUME IInv, TypeOK', NEW t \in Ttls, Commit(t)
    PROVE  /\ \A e : EntryOK(e) => EntryOK(e)'
           /\ \A r \in Reader : UNCHANGED readerVars => FlightOK(r)'
           /\ \A x \in Invalidators : hold' = hold => HoldOK(x)'
           /\ SinceStarts'
<1>1. TypeOK /\ SinceStarts
  BY DEF IInv
<1>2. /\ row.ver \in Version /\ row'.ver = row.ver + 1 /\ since' = since
      /\ row.ver \in Nat
  BY <1>1, TimesAssumption DEF Commit, TypeOK, Row, Version
<1>3. ASSUME NEW e, EntryOK(e)
      PROVE  EntryOK(e)'
  <2>1. e \in Cached /\ e.ver \in 0 .. MaxVer /\ e.left \in 0 .. Horizon
        /\ e.ttl \in 0 .. Horizon /\ (e # NoEntry => e.ver \in Version)
    BY <1>3, CachedFields DEF EntryOK
  <2>2. CASE e = NoEntry
    BY <2>2, <1>2 DEF EntryOK, Bounded, Within, NoEntry, Cached
  <2>3. CASE e # NoEntry /\ e.ver < row.ver
    <3>1. Bounded(e)'
      BY <1>2, <1>3, <2>3 DEF EntryOK, Bounded
    <3>2. e.ver <= row'.ver
      BY <1>2, <2>1, <2>3
    <3> QED
      BY <1>3, <3>1, <3>2 DEF EntryOK, Within
  <2>4. CASE e # NoEntry /\ e.ver = row.ver
    <3>1. since[e.ver] = 0
      BY <1>1, <1>2, <2>4 DEF SinceStarts
    <3>2. Bounded(e)'
      BY <1>2, <1>3, <2>1, <3>1 DEF EntryOK, Bounded, Within
    <3>3. e.ver <= row'.ver
      BY <1>2, <2>4
    <3> QED
      BY <1>3, <3>2, <3>3 DEF EntryOK, Within
  <2> QED
    BY <1>2, <1>3, <2>1, <2>2, <2>3, <2>4 DEF EntryOK
<1>4. ASSUME NEW r \in Reader, UNCHANGED readerVars
      PROVE  FlightOK(r)'
  <2>1. FlightOK(r)
    BY Parts, <1>1
  <2>2. /\ val' = val /\ prev' = prev /\ rpc' = rpc /\ age' = age
        /\ age[r] \in 0 .. Horizon
        /\ rpc[r] = "fill" => val[r].ver \in Version
    BY <1>1, <1>4 DEF readerVars, TypeOK, Row
  <2>3. val[r].ver \in 0 .. MaxVer /\ prev[r].ver \in 0 .. MaxVer
    <3>1. prev[r] \in Cached /\ val[r] \in Row \cup {NoRow}
      BY <1>1 DEF TypeOK, Cached
    <3>2. val[r].ver \in Version \cup {0}
      BY <3>1 DEF Row, NoRow
    <3> QED
      BY <3>1, <3>2, CachedFields, TimesAssumption DEF Version
  <2>4. val[r].ver <= row'.ver /\ prev[r].ver <= row'.ver
    BY <1>2, <2>1, <2>3 DEF FlightOK
  <2>5. rpc[r] = "fill" /\ val[r].ver < row'.ver => since[val[r].ver] <= age[r]
    <3>1. CASE val[r].ver < row.ver
      BY <2>1, <3>1 DEF FlightOK
    <3>2. CASE val[r].ver = row.ver
      BY <3>2, <1>1, <1>2, <2>2 DEF SinceStarts
    <3> QED
      BY <3>1, <3>2, <2>1, <2>3, <1>2 DEF FlightOK
  <2> QED
    BY <2>2, <2>4, <2>5, <1>2 DEF FlightOK
<1>5. ASSUME NEW x \in Invalidators, hold' = hold
      PROVE  HoldOK(x)'
  <2>1. HoldOK(x) /\ hold[x] \in Cached
    BY Parts, <1>1 DEF TypeOK, Cached
  <2> QED
    BY <2>1, <1>2, <1>5, CachedFields DEF HoldOK
<1>6. SinceStarts'
  BY <1>1, <1>2 DEF SinceStarts, Version
<1> QED
  BY <1>3, <1>4, <1>5, <1>6

\* A second passes: what an entry has left shrinks as its age grows.
LEMMA TickStep == IInv /\ TypeOK' /\ Tick => IInv'
<1> SUFFICES ASSUME IInv, TypeOK', Tick
             PROVE  IInv'
  OBVIOUS
<1>1. TypeOK /\ SinceStarts
  BY DEF IInv
<1>2. /\ row' = row /\ val' = val /\ prev' = prev /\ rpc' = rpc /\ hold' = hold
      /\ row.ver \in Version
  BY <1>1 DEF Tick, TypeOK, Row
<1>3. \A v \in Version :
        /\ since[v] \in 0 .. Horizon
        /\ since'[v] = IF v < row.ver THEN Sooner(since[v] + 1, Horizon) ELSE since[v]
  BY <1>1 DEF Tick, TypeOK
<1>4. ASSUME NEW p \in Proc
      PROVE  EntryOK(entry[p])'
  <2> DEFINE e == entry[p]
             n == Minus(e.left, 1)
  <2>1. EntryOK(e)
    BY <1>1, Parts
  <2>2. /\ e \in Cached /\ e.ver \in 0 .. MaxVer /\ e.left \in 0 .. Horizon
        /\ e.ttl \in 0 .. Horizon /\ (e # NoEntry => e.ver \in Version)
    BY <2>1, CachedFields DEF EntryOK
  <2>3. n \in 0 .. Horizon /\ (e = NoEntry => n = 0) /\ n <= e.left
        /\ (n > 0 => n = e.left - 1)
    BY <2>2, TickType DEF Minus, NoEntry
  <2>4. entry'[p] = [e EXCEPT !.left = n]
    BY DEF Tick
  <2> HIDE DEF n
  <2>5. /\ entry'[p] \in Cached /\ entry'[p].left = n /\ entry'[p].ver = e.ver
        /\ entry'[p].ttl = e.ttl /\ entry'[p].src = e.src
    BY <2>2, <2>3, <2>4, LeftType
  <2> HIDE DEF e
  <2>6. Within(entry[p])'
    BY <2>1, <2>2, <2>3, <2>5 DEF EntryOK, Within
  <2>7. Bounded(entry[p])'
    <3> SUFFICES ASSUME e.src = "load", n > 0, e.ver < row.ver
                 PROVE  n + since'[e.ver] <= e.ttl
      BY <2>5, <1>2 DEF Bounded
    <3>1. e # NoEntry
      BY <2>3
    <3>2. e.left + since[e.ver] <= e.ttl
      BY <2>1, <2>2, <2>3 DEF EntryOK, Bounded
    <3>3. e.ver \in Version
      BY <3>1, <2>2
    <3>4. since[e.ver] \in 0 .. Horizon /\ since'[e.ver] = Sooner(since[e.ver] + 1, Horizon)
      BY <3>3, <1>3
    <3>5. since'[e.ver] <= since[e.ver] + 1 /\ since'[e.ver] \in 0 .. Horizon
      BY <3>4, TickType, TimesAssumption DEF Sooner
    <3> QED
      BY <3>2, <3>4, <3>5, <2>2, <2>3
  <2>8. entry'[p].ver <= row'.ver
    BY <2>1, <2>5, <1>2 DEF EntryOK
  <2> QED
    BY <2>5, <2>6, <2>7, <2>8 DEF EntryOK
<1>5. ASSUME NEW r \in Reader
      PROVE  FlightOK(r)'
  <2>1. FlightOK(r)
    BY <1>1, Parts
  <2>2. CASE rpc[r] = "fill" /\ val[r].ver < row.ver
    <3>1. val[r].ver \in Version
      BY <2>2, <1>1 DEF TypeOK, Row
    <3>2. age[r] \in 0 .. Horizon /\ age'[r] = Sooner(age[r] + 1, Horizon)
      BY <1>1, <2>2 DEF Tick, TypeOK
    <3>3. /\ since[val[r].ver] \in 0 .. Horizon
          /\ since'[val[r].ver] = Sooner(since[val[r].ver] + 1, Horizon)
      BY <1>3, <2>2, <3>1
    <3>4. since[val[r].ver] <= age[r]
      BY <2>1, <2>2 DEF FlightOK
    <3>5. since'[val[r].ver] <= age'[r]
      BY <3>2, <3>3, <3>4, TimesAssumption DEF Sooner
    <3> QED
      BY <2>1, <3>5, <1>2 DEF FlightOK
  <2> QED
    BY <2>1, <2>2, <1>2 DEF FlightOK
<1>6. \A x \in Invalidators : HoldOK(x)'
  BY <1>1, <1>2, Parts DEF HoldOK
<1>7. SinceStarts'
  BY <1>1, <1>2, <1>3 DEF SinceStarts, Version
<1> QED
  BY <1>4, <1>5, <1>6, <1>7, PartsNext

\* The row stays: each new entry, reader and captured entry is in order.
LEMMA QuietStep ==
    ASSUME IInv, TypeOK', UNCHANGED rowVars,
           \A p \in Proc : entry'[p] = entry[p] \/ EntryOK(entry'[p]),
           \A r \in Reader :
               \/ /\ rpc'[r] = rpc[r] /\ val'[r] = val[r] /\ prev'[r] = prev[r]
                  /\ age'[r] = age[r]
               \/ FlightOK(r)',
           \A x \in Invalidators : hold'[x] = hold[x] \/ HoldOK(x)'
    PROVE  IInv'
<1>1. TypeOK /\ SinceStarts /\ row' = row /\ since' = since
  BY DEF IInv, rowVars
<1>2. /\ \A p \in Proc : EntryOK(entry[p])
      /\ \A r \in Reader : FlightOK(r)
      /\ \A x \in Invalidators : HoldOK(x)
  BY <1>1, Parts
<1>3. \A e : EntryOK(e) => EntryOK(e)'
  BY <1>1 DEF EntryOK, Bounded, Within
<1>4. \A p \in Proc : EntryOK(entry'[p])
  BY <1>2
<1>5. \A p \in Proc : EntryOK(entry[p])'
  BY <1>1, <1>4 DEF EntryOK, Bounded, Within
<1>6. \A r \in Reader : FlightOK(r)'
  BY <1>1, <1>2 DEF FlightOK
<1>7. \A x \in Invalidators : HoldOK(x)'
  BY <1>1, <1>2 DEF HoldOK
<1>8. SinceStarts'
  BY <1>1 DEF SinceStarts
<1> QED
  BY <1>5, <1>6, <1>7, <1>8, PartsNext

LEMMA InvStep == IInv /\ [Next]_vars => IInv'
<1> SUFFICES ASSUME IInv, [Next]_vars
             PROVE  IInv'
  OBVIOUS
<1>a. TypeOK /\ TypeOK'
  BY TypeStep DEF IInv
<1>b. /\ \A p \in Proc : EntryOK(entry[p])
      /\ \A r \in Reader : FlightOK(r)
      /\ \A x \in Invalidators : HoldOK(x)
  BY <1>a, Parts
<1>c. row.ver \in Version /\ row.ver \in Nat
  BY <1>a, TimesAssumption DEF TypeOK, Row, Version
<1>d. /\ entry \in [Proc -> Cached] /\ hold \in [Invalidators -> Cached]
      /\ Home \in [Reader \cup Writer -> Proc]
  BY <1>a, HomeAssumption DEF TypeOK, Cached
<1>e. EntryOK(NoEntry) /\ NoEntry.ver <= row.ver
  BY <1>a, <1>c, NoEntryOK DEF NoEntry
<1>f. \A r \in Reader : Returns(r) /\ UNCHANGED rowVars =>
        \A q \in Reader :
            \/ /\ rpc'[q] = rpc[q] /\ val'[q] = val[q] /\ prev'[q] = prev[q]
               /\ age'[q] = age[q]
            \/ FlightOK(q)'
  <2> SUFFICES ASSUME NEW r \in Reader, Returns(r), row' = row, since' = since,
                      NEW q \in Reader
               PROVE  \/ /\ rpc'[q] = rpc[q] /\ val'[q] = val[q] /\ prev'[q] = prev[q]
                         /\ age'[q] = age[q]
                      \/ FlightOK(q)'
    BY DEF rowVars
  <2>1. CASE q = r
    BY <2>1, <1>a, <1>c DEF Returns, TypeOK, FlightOK, NoRow, NoEntry
  <2>2. CASE q # r
    BY <2>2, <1>a DEF Returns, TypeOK
  <2> QED
    BY <2>1, <2>2
<1>1. CASE Tick
  BY <1>1, <1>a, TickStep
<1>2. ASSUME NEW p \in Proc, ProcStep(p)
      PROVE  IInv'
  <2>1. CASE Subscribe(p) \/ SubscribeFails(p) \/ Lose(p)
    BY <2>1, <1>a, QuietStep
       DEF Subscribe, SubscribeFails, Lose, readerVars, rowVars
  <2>2. CASE Restart(p)
    <3>1. UNCHANGED rowVars
      BY <2>2 DEF Restart
    <3>2. \A q \in Proc : entry'[q] = entry[q] \/ EntryOK(entry'[q])
      BY <2>2, <1>d, <1>e DEF Restart
    <3>3. \A r \in Reader :
               \/ /\ rpc'[r] = rpc[r] /\ val'[r] = val[r] /\ prev'[r] = prev[r]
                  /\ age'[r] = age[r]
               \/ rpc'[r] = "idle" /\ val'[r] = NoRow /\ prev'[r] = NoEntry
      BY <2>2 DEF Restart
    <3>4. \A r \in Reader :
               \/ /\ rpc'[r] = rpc[r] /\ val'[r] = val[r] /\ prev'[r] = prev[r]
                  /\ age'[r] = age[r]
               \/ FlightOK(r)'
      BY <3>1, <3>3, <1>c DEF FlightOK, NoRow, NoEntry, rowVars
    <3>5. \A x \in Invalidators : hold'[x] = hold[x] \/ hold'[x] = NoEntry
      BY <2>2 DEF Restart
    <3>6. \A x \in Invalidators : hold'[x] = hold[x] \/ HoldOK(x)'
      BY <3>1, <3>5, <1>e DEF HoldOK, rowVars
    <3> QED
      BY <3>1, <3>2, <3>4, <3>6, <1>a, QuietStep
  <2>3. CASE DeliverAuth(p) \/ DeliverSsr(p) \/ DeliverApi(p)
    <3>1. Receive(p)
      BY <2>3 DEF DeliverAuth, DeliverSsr, DeliverApi
    <3>2. EntryOK(expired(entry[p]))
      BY <1>a, <1>b, ExpiredOK DEF EntryOK
    <3>3. \A q \in Proc : entry'[q] = entry[q] \/ EntryOK(entry'[q])
      BY <2>3, <3>2, <1>d, <1>e DEF DeliverAuth, DeliverSsr, DeliverApi
    <3>4. \A x \in Invalidators : hold'[x] = hold[x] \/ hold'[x] = entry[p]
      BY <2>3, <1>d DEF DeliverAuth, DeliverSsr, DeliverApi
    <3>5. \A x \in Invalidators : hold'[x] = hold[x] \/ HoldOK(x)'
      BY <3>1, <3>4, <1>b DEF HoldOK, EntryOK, Receive, rowVars
    <3> QED
      BY <3>1, <3>3, <3>5, <1>a, QuietStep DEF Receive, readerVars, rowVars
  <2>4. CASE InvalidateStore(p)
    <3>1. p \in Invalidators
      BY <2>4 DEF InvalidateStore, Invalidators
    <3>2. EntryOK(expired(hold[p]))
      BY <3>1, <1>a, <1>b, <1>d, ExpiredOK DEF HoldOK
    <3>3. \A q \in Proc : entry'[q] = entry[q] \/ EntryOK(entry'[q])
      BY <2>4, <3>2, <1>d DEF InvalidateStore
    <3>4. \A x \in Invalidators : hold'[x] = hold[x] \/ HoldOK(x)'
      BY <2>4, <1>d, <1>e DEF InvalidateStore, HoldOK, rowVars
    <3> QED
      BY <2>4, <3>3, <3>4, <1>a, QuietStep DEF InvalidateStore, readerVars, rowVars
  <2> QED
    BY <1>2, <2>1, <2>2, <2>3, <2>4 DEF ProcStep
<1>3. ASSUME NEW r \in Reader, ReaderStep(r)
      PROVE  IInv'
  <2>p. Home[r] \in Proc
    BY <1>d
  <2>1. CASE GetMiss(r)
    <3>1. /\ row' = row /\ since' = since
          /\ rpc'[r] = "load" /\ val'[r] = val[r] /\ prev'[r] = entry[Home[r]]
          /\ \A q \in Reader \ {r} :
                /\ rpc'[q] = rpc[q] /\ val'[q] = val[q] /\ prev'[q] = prev[q]
                /\ age'[q] = age[q]
      BY <2>1, <1>a DEF GetMiss, TypeOK, rowVars
    <3>2. FlightOK(r)'
      BY <3>1, <2>p, <1>b DEF FlightOK, EntryOK
    <3> QED
      BY <2>1, <3>1, <3>2, <1>a, QuietStep DEF GetMiss
  <2>2. CASE Load(r)
    <3>1. /\ row' = row /\ since' = since
          /\ val'[r] = row /\ prev'[r] = prev[r]
          /\ \A q \in Reader \ {r} :
                /\ rpc'[q] = rpc[q] /\ val'[q] = val[q] /\ prev'[q] = prev[q]
                /\ age'[q] = age[q]
      BY <2>2, <1>a DEF Load, TypeOK, rowVars
    <3>2. FlightOK(r)'
      BY <3>1, <1>b, <1>c DEF FlightOK
    <3> QED
      BY <2>2, <3>1, <3>2, <1>a, QuietStep DEF Load
  <2>3. CASE Fill(r)
    <3> DEFINE e == loadedEntry(r)
               n == Minus(val[r].ttl, age[r])
    <3>1. /\ e \in Cached /\ e.ver = val[r].ver /\ e.ttl = val[r].ttl /\ e.left = n
      BY <2>3, <1>a, LoadedType DEF Fill, Cached
    <3>2. /\ e.ttl \in 0 .. Horizon /\ age[r] \in 0 .. Horizon
          /\ e.left \in 0 .. Horizon /\ val[r].ver \in Version
      BY <3>1, <2>3, <1>a, CachedFields DEF Fill, TypeOK, Row
    <3>3. n <= e.ttl /\ (n > 0 => n + age[r] = e.ttl)
      BY <3>1, <3>2 DEF Minus
    <3>4. FlightOK(r)
      BY <1>b
    <3>5. since[val[r].ver] \in 0 .. Horizon
      BY <3>2, <1>a DEF TypeOK
    <3> HIDE DEF e, n
    <3>6. Bounded(e) /\ Within(e) /\ e.ver <= row.ver
      BY <2>3, <3>1, <3>2, <3>3, <3>4, <3>5 DEF Fill, Bounded, Within, FlightOK
    <3>7. EntryOK(e)
      BY <3>1, <3>6 DEF EntryOK
    <3>8. \A p \in Proc : entry'[p] = entry[p] \/ EntryOK(entry'[p])
      BY <2>3, <3>7, <1>d DEF Fill, e
    <3> QED
      BY <2>3, <3>8, <1>a, <1>f, QuietStep DEF Fill
  <2>4. CASE LoadFails(r)
    <3> DEFINE e == fallbackEntry(r)
    <3>1. e \in Cached /\ e.ver = prev[r].ver /\ e.src = "fallback"
      BY <2>4, <1>a, FallbackType DEF LoadFails, Cached
    <3>2. FlightOK(r)
      BY <1>b
    <3> HIDE DEF e
    <3>3. EntryOK(e)
      BY <3>1, <3>2 DEF EntryOK, Bounded, Within, FlightOK
    <3>4. \A p \in Proc : entry'[p] = entry[p] \/ EntryOK(entry'[p])
      BY <2>4, <3>3, <1>d DEF LoadFails, e
    <3> QED
      BY <2>4, <3>4, <1>a, <1>f, QuietStep DEF LoadFails
  <2>5. CASE LoadThrows(r)
    BY <2>5, <1>a, <1>f, QuietStep DEF LoadThrows
  <2> QED
    BY <1>3, <2>1, <2>2, <2>3, <2>4, <2>5 DEF ReaderStep
<1>4. ASSUME NEW w \in Writer, WriterStep(w)
      PROVE  IInv'
  <2>p. Home[w] \in Proc /\ w \in Invalidators
    BY <1>d DEF Invalidators
  <2>1. ASSUME NEW t \in Ttls, Commit(t), UNCHANGED <<entry, readerVars, hold>>
        PROVE  IInv'
    <3>1. \A e : EntryOK(e) => EntryOK(e)'
      BY <2>1, <1>a, CommitStep
    <3>2. \A p \in Proc : EntryOK(entry[p])'
      BY <3>1, <2>1, <1>b DEF EntryOK, Bounded, Within
    <3>3. \A r \in Reader : FlightOK(r)'
      BY <2>1, <1>a, CommitStep
    <3>4. \A x \in Invalidators : HoldOK(x)'
      BY <2>1, <1>a, CommitStep
    <3>5. SinceStarts'
      BY <2>1, <1>a, CommitStep
    <3> QED
      BY <3>2, <3>3, <3>4, <3>5, <1>a, PartsNext
  <2>2. CASE Update(w)
    BY <2>1, <2>2 DEF Update
  <2>3. CASE NotifyRead(w)
    <3>1. \A x \in Invalidators : hold'[x] = hold[x] \/ hold'[x] = entry[Home[w]]
      BY <2>3, <1>d DEF NotifyRead
    <3>2. \A x \in Invalidators : hold'[x] = hold[x] \/ HoldOK(x)'
      BY <2>3, <3>1, <2>p, <1>b DEF NotifyRead, HoldOK, EntryOK, rowVars
    <3> QED
      BY <2>3, <3>2, <1>a, QuietStep DEF NotifyRead, readerVars
  <2>4. CASE NotifyStore(w)
    <3>1. EntryOK(expired(hold[w]))
      BY <2>p, <1>a, <1>b, <1>d, ExpiredOK DEF HoldOK
    <3>2. \A q \in Proc : entry'[q] = entry[q] \/ EntryOK(entry'[q])
      BY <2>4, <3>1, <1>d DEF NotifyStore
    <3>3. \A x \in Invalidators : hold'[x] = hold[x] \/ HoldOK(x)'
      BY <2>4, <1>d, <1>e DEF NotifyStore, HoldOK, rowVars
    <3> QED
      BY <2>4, <3>2, <3>3, <1>a, QuietStep DEF NotifyStore, readerVars
  <2>5. CASE Publish(w) \/ PublishFails(w) \/ Audited(w)
    BY <2>5, <1>a, QuietStep DEF Publish, PublishFails, Audited, readerVars
  <2>6. CASE Compensate(w)
    <3>1. before[w].ttl \in Ttls
      BY <2>6, <1>a DEF Compensate, TypeOK, Row
    <3> QED
      BY <2>1, <2>6, <3>1 DEF Compensate
  <2> QED
    BY <1>4, <2>2, <2>3, <2>4, <2>5, <2>6 DEF WriterStep
<1>5. CASE UNCHANGED vars
  BY <1>5, <1>a, QuietStep DEF vars, readerVars
<1> QED
  BY <1>1, <1>2, <1>3, <1>4, <1>5 DEF Next

\* Copies of the settings stay within their TTL, results within their get and
\* every variable within its type, in every reachable state.
THEOREM CacheInvariant == Spec => []IInv
BY InvInit, InvStep, PTL DEF Spec

\* A copy that get() loaded is served for at most its TTL after the row has
\* changed, whatever the bus does and however long the load took: the expiry is
\* taken from the time before the load (system_config.ts:195, cache.py:42).
THEOREM StalenessIsBounded == Spec => []StaleBounded
<1>1. IInv => StaleBounded
  BY DEF IInv
<1> QED
  BY <1>1, CacheInvariant, PTL

\* Every variable keeps to its type: no process ever holds a copy of settings
\* that were never read (the test of previous == null, system_config.ts:267).
THEOREM CacheTypes == Spec => []TypeOK
BY TypeInit, TypeStep, PTL DEF Spec
============================================================================
