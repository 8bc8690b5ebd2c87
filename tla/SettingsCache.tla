--------------------------- MODULE SettingsCache ---------------------------
(***************************************************************************)
(* The system_config row and the copies of it that processes keep: the     *)
(* auth service (system_config.ts, coherence.ts), the API                  *)
(* (system_config/cache.py, coherence/) and the SSR server                 *)
(* (system_config_cache.server.ts).  The API writes the row, then tells    *)
(* the others over Redis pub/sub, which keeps nothing for a subscriber     *)
(* that is away.                                                           *)
(*                                                                         *)
(* A value of the row is its version and its TTL.  Points in time are      *)
(* kept as distances, so no clock has to be bounded: `left' until an entry *)
(* expires, the age of a get, the time since a version was superseded.     *)
(***************************************************************************)
EXTENDS Integers, FiniteSets

CONSTANTS
    Auth, Api, Ssr,   \* processes of the three kinds
    Reader,           \* threads or requests that call get
    Writer,           \* PATCH requests of system_config
    Home,             \* the process of each reader and writer
    Ttls,             \* values of system_config_cache_ttl_seconds
    Backoff,          \* SETTINGS_RELOAD_BACKOFF_MS, _RELOAD_BACKOFF_SECONDS
    Horizon,          \* times are told apart up to here
    MaxVer            \* bound of the number of versions of the row

Proc == Auth \cup Api \cup Ssr

ASSUME KindsAssumption ==
    Auth \cap Api = {} /\ Auth \cap Ssr = {} /\ Api \cap Ssr = {}
ASSUME HomeAssumption ==
    /\ Home \in [Reader \cup Writer -> Proc]
    /\ Reader \cap Writer = {}
    /\ Api \cap (Reader \cup Writer) = {}
    /\ \A w \in Writer : Home[w] \in Api
ASSUME TimesAssumption ==
    /\ Horizon \in Nat \ {0}
    /\ Ttls \subseteq 1 .. Horizon /\ Ttls # {}
    /\ Backoff \in 1 .. Horizon
    /\ MaxVer \in Nat \ {0}

VARIABLES
    row,      \* the committed row
    entry,    \* the cached entry of each process
    sub,      \* its subscription: "none", "on", "failed"
    pend,     \* number of invalidations under way to each process
    rpc,      \* readers: "idle", "load" (query sent), "fill" (result on its way)
    prev,     \* the entry a get found
    age,      \* the time since its `now'
    val,      \* the row it has read
    wpc,      \* what a PATCH does next
    before,   \* the row a PATCH found
    hold,     \* the entry an invalidate() of the API has read
    \* history
    since     \* for each superseded version, the time since then

rowVars    == <<row, since>>
readerVars == <<rpc, prev, age, val>>
writerVars == <<wpc, before>>
vars == <<rowVars, entry, sub, pend, readerVars, writerVars, hold>>

Version == 1 .. MaxVer
NoEntry == [ver |-> 0, ttl |-> 0, left |-> 0, src |-> "none"]
NoRow   == [ver |-> 0, ttl |-> 0]
Row     == [ver : Version, ttl : Ttls]
Entry   == [ver : Version, ttl : Ttls, left : 0 .. Horizon,
            src : {"load", "fallback"}]

Sooner(a, b)  == IF a < b THEN a ELSE b
Minus(a, b)   == IF a > b THEN a - b ELSE 0
\* The actors that run the API's invalidate(): PATCHes and the subscriber thread.
Invalidators  == Writer \cup Api

----------------------------------------------------------------------------
\* Expiries are taken from `now', which get() reads before it awaits the row.

\* Mutated form: the TTL runs from the moment the row arrives.
loadedEntryLate(r) ==
    [ver |-> val[r].ver, ttl |-> val[r].ttl, left |-> val[r].ttl, src |-> "load"]

loadedEntry(r) ==
    [ver |-> val[r].ver, ttl |-> val[r].ttl,
     left |-> Minus(val[r].ttl, age[r]), src |-> "load"]

\* A failed reload puts back the entry the get found.
fallbackEntry(r) ==
    [ver |-> prev[r].ver, ttl |-> prev[r].ttl,
     left |-> Minus(Backoff, age[r]), src |-> "fallback"]

MayFallBack(r) == Home[r] \notin Ssr /\ prev[r] # NoEntry

expired(e) == [e EXCEPT !.left = 0]

\* Mutated form: an entry once loaded is trusted until it is invalidated.
StaleIfInvalidated(e) == e = NoEntry

Stale(e) == e = NoEntry \/ e.left = 0

Init ==
    /\ row \in [ver : {1}, ttl : Ttls]
    /\ since = [v \in Version |-> 0]
    /\ entry = [p \in Proc |-> NoEntry]
    /\ sub = [p \in Proc |-> "none"]
    /\ pend = [p \in Proc |-> 0]
    /\ rpc = [r \in Reader |-> "idle"]
    /\ prev = [r \in Reader |-> NoEntry]
    /\ age = [r \in Reader |-> 0]
    /\ val = [r \in Reader |-> NoRow]
    /\ wpc = [w \in Writer |-> "idle"]
    /\ before = [w \in Writer |-> NoRow]
    /\ hold = [x \in Invalidators |-> NoEntry]

\* A second passes.
Tick ==
    /\ entry' = [p \in Proc |-> [entry[p] EXCEPT !.left = Minus(@, 1)]]
    /\ age' = [r \in Reader |-> IF rpc[r] = "idle" THEN 0
                                ELSE Sooner(age[r] + 1, Horizon)]
    /\ since' = [v \in Version |-> IF v < row.ver THEN Sooner(since[v] + 1, Horizon)
                                   ELSE since[v]]
    /\ UNCHANGED <<row, sub, pend, rpc, prev, val, writerVars, hold>>

----------------------------------------------------------------------------
\* Processes

\* The API subscribes before it serves; the auth service after its first load;
\* the SSR server with its first page.
Subscribe(p) ==
    /\ sub[p] = "none"
    /\ p \in Auth => entry[p] # NoEntry
    /\ sub' = [sub EXCEPT ![p] = "on"]
    /\ UNCHANGED <<rowVars, entry, pend, readerVars, writerVars, hold>>

\* ensure_system_config_subscriber keeps the promise, a rejected one too. The
\* other services do not start without a subscription (Restart).
SubscribeFails(p) ==
    /\ p \in Ssr /\ sub[p] = "none"
    /\ sub' = [sub EXCEPT ![p] = "failed"]
    /\ UNCHANGED <<rowVars, entry, pend, readerVars, writerVars, hold>>

Serves(p) == p \in Ssr \/ sub[p] = "on"

\* A process dies, between any two steps, and starts anew.
Restart(p) ==
    LET gone(x) == x = p \/ (x # p /\ x \in Reader \cup Writer /\ Home[x] = p) IN
    /\ entry' = [entry EXCEPT ![p] = NoEntry]
    /\ sub' = [sub EXCEPT ![p] = "none"]
    /\ pend' = [pend EXCEPT ![p] = 0]
    /\ rpc' = [r \in Reader |-> IF gone(r) THEN "idle" ELSE rpc[r]]
    /\ prev' = [r \in Reader |-> IF gone(r) THEN NoEntry ELSE prev[r]]
    /\ age' = [r \in Reader |-> IF gone(r) THEN 0 ELSE age[r]]
    /\ val' = [r \in Reader |-> IF gone(r) THEN NoRow ELSE val[r]]
    /\ wpc' = [w \in Writer |-> IF gone(w) THEN "idle" ELSE wpc[w]]
    /\ before' = [w \in Writer |-> IF gone(w) THEN NoRow ELSE before[w]]
    /\ hold' = [x \in Invalidators |-> IF gone(x) THEN NoEntry ELSE hold[x]]
    /\ UNCHANGED rowVars

----------------------------------------------------------------------------
\* get()

\* No fresh entry: the row is asked for. The auth service makes its first get
\* alone, before it listens.
GetMiss(r) ==
    /\ rpc[r] = "idle"
    /\ Stale(entry[Home[r]])
    /\ \/ Serves(Home[r])
       \/ Home[r] \in Auth /\ \A q \in Reader : Home[q] = Home[r] => rpc[q] = "idle"
    /\ rpc' = [rpc EXCEPT ![r] = "load"]
    /\ prev' = [prev EXCEPT ![r] = entry[Home[r]]]
    /\ age' = [age EXCEPT ![r] = 0]
    /\ UNCHANGED <<rowVars, entry, sub, pend, val, writerVars, hold>>

\* The database answers the SELECT.
Load(r) ==
    /\ rpc[r] = "load"
    /\ rpc' = [rpc EXCEPT ![r] = "fill"]
    /\ val' = [val EXCEPT ![r] = row]
    /\ UNCHANGED <<rowVars, entry, sub, pend, prev, age, writerVars, hold>>

Returns(r) ==
    /\ rpc' = [rpc EXCEPT ![r] = "idle"]
    /\ prev' = [prev EXCEPT ![r] = NoEntry]
    /\ age' = [age EXCEPT ![r] = 0]
    /\ val' = [val EXCEPT ![r] = NoRow]

\* The answer arrives: whatever the entry is by now, it is replaced.
Fill(r) ==
    /\ rpc[r] = "fill"
    /\ entry' = [entry EXCEPT ![Home[r]] = loadedEntry(r)]
    /\ Returns(r)
    /\ UNCHANGED <<rowVars, sub, pend, writerVars, hold>>

\* The read fails on either way and there is something to fall back on.
LoadFails(r) ==
    /\ rpc[r] # "idle"
    /\ MayFallBack(r)
    /\ entry' = [entry EXCEPT ![Home[r]] = fallbackEntry(r)]
    /\ Returns(r)
    /\ UNCHANGED <<rowVars, sub, pend, writerVars, hold>>

\* The read fails and get throws: nothing to fall back on, or
\* settings_from_row finds a session setting out of range.
LoadThrows(r) ==
    /\ rpc[r] # "idle"
    /\ ~MayFallBack(r) \/ (Home[r] \in Auth /\ rpc[r] = "fill")
    /\ Returns(r)
    /\ UNCHANGED <<rowVars, entry, sub, pend, writerVars, hold>>

----------------------------------------------------------------------------
\* Invalidation

\* A message reaches a process.
Receive(p) ==
    /\ pend[p] > 0
    /\ pend' = [pend EXCEPT ![p] = @ - 1]
    /\ UNCHANGED <<rowVars, sub, readerVars, writerVars>>

\* The auth service expires its entry, if it has one,
DeliverAuth(p) ==
    /\ p \in Auth
    /\ Receive(p)
    /\ entry' = [entry EXCEPT ![p] = expired(@)]
    /\ UNCHANGED hold

\* the SSR server drops it,
DeliverSsr(p) ==
    /\ p \in Ssr
    /\ Receive(p)
    /\ entry' = [entry EXCEPT ![p] = NoEntry]
    /\ UNCHANGED hold

\* and the API's subscriber thread first reads it.
DeliverApi(p) ==
    /\ p \in Api /\ hold[p] = NoEntry
    /\ Receive(p)
    /\ hold' = [hold EXCEPT ![p] = entry[p]]
    /\ UNCHANGED entry

\* invalidate() of the API stores what it has read, expired.
InvalidateStore(p) ==
    /\ p \in Api /\ hold[p] # NoEntry
    /\ entry' = [entry EXCEPT ![p] = expired(hold[p])]
    /\ hold' = [hold EXCEPT ![p] = NoEntry]
    /\ UNCHANGED <<rowVars, sub, pend, readerVars, writerVars>>

\* At most once: a message may be lost with the connection.
Lose(p) ==
    /\ pend[p] > 0
    /\ pend' = [pend EXCEPT ![p] = @ - 1]
    /\ UNCHANGED <<rowVars, entry, sub, readerVars, writerVars, hold>>

----------------------------------------------------------------------------
\* PATCH /system_config

Commit(ttl) ==
    /\ row.ver < MaxVer
    /\ row' = [ver |-> row.ver + 1, ttl |-> ttl]
    /\ UNCHANGED since

\* store.update commits.
Update(w) ==
    /\ wpc[w] = "idle" /\ Serves(Home[w])
    /\ \E ttl \in Ttls : Commit(ttl)
    /\ before' = [before EXCEPT ![w] = row]
    /\ wpc' = [wpc EXCEPT ![w] = "notify"]
    /\ UNCHANGED <<entry, sub, pend, readerVars, hold>>

\* notify_system_config_changed: target.invalidate() reads the entry ...
NotifyRead(w) ==
    /\ wpc[w] = "notify"
    /\ hold' = [hold EXCEPT ![w] = entry[Home[w]]]
    /\ wpc' = [wpc EXCEPT ![w] = "store"]
    /\ UNCHANGED <<rowVars, entry, sub, pend, readerVars, before>>

\* ... and stores it expired, if there was one;
NotifyStore(w) ==
    /\ wpc[w] = "store"
    /\ entry' = IF hold[w] = NoEntry THEN entry
                ELSE [entry EXCEPT ![Home[w]] = expired(hold[w])]
    /\ hold' = [hold EXCEPT ![w] = NoEntry]
    /\ wpc' = [wpc EXCEPT ![w] = "publish"]
    /\ UNCHANGED <<rowVars, sub, pend, readerVars, before>>

\* then the message goes to whoever is subscribed.
Publish(w) ==
    /\ wpc[w] = "publish"
    /\ pend' = [p \in Proc |-> IF sub[p] = "on" THEN pend[p] + 1 ELSE pend[p]]
    /\ wpc' = [wpc EXCEPT ![w] = "audit"]
    /\ UNCHANGED <<rowVars, entry, sub, readerVars, before, hold>>

\* Redis is not reachable: logged, and the PATCH goes on.
PublishFails(w) ==
    /\ wpc[w] = "publish"
    /\ wpc' = [wpc EXCEPT ![w] = "audit"]
    /\ UNCHANGED <<rowVars, entry, sub, pend, readerVars, before, hold>>

PatchEnds(w) ==
    /\ wpc' = [wpc EXCEPT ![w] = "idle"]
    /\ before' = [before EXCEPT ![w] = NoRow]

\* The event is written, or neither it nor the row that was can be.
Audited(w) ==
    /\ wpc[w] = "audit"
    /\ PatchEnds(w)
    /\ UNCHANGED <<rowVars, entry, sub, pend, readerVars, hold>>

\* The event cannot be written: the former row is written back. No one is told.
Compensate(w) ==
    /\ wpc[w] = "audit"
    /\ Commit(before[w].ttl)
    /\ PatchEnds(w)
    /\ UNCHANGED <<entry, sub, pend, readerVars, hold>>

----------------------------------------------------------------------------
ProcStep(p) ==
    \/ Subscribe(p) \/ SubscribeFails(p) \/ Restart(p)
    \/ DeliverAuth(p) \/ DeliverSsr(p) \/ DeliverApi(p)
    \/ InvalidateStore(p) \/ Lose(p)

ReaderStep(r) ==
    \/ GetMiss(r) \/ Load(r) \/ Fill(r) \/ LoadFails(r) \/ LoadThrows(r)

WriterStep(w) ==
    \/ Update(w) \/ NotifyRead(w) \/ NotifyStore(w) \/ Publish(w)
    \/ PublishFails(w) \/ Audited(w) \/ Compensate(w)

Next ==
    \/ Tick
    \/ \E p \in Proc : ProcStep(p)
    \/ \E r \in Reader : ReaderStep(r)
    \/ \E w \in Writer : WriterStep(w)

Spec == Init /\ [][Next]_vars

\* Time passes, started processes subscribe, requests keep asking for settings,
\* queries end, a thread that is in invalidate() goes on; of infinitely many
\* reads of the row some succeed.
Fairness ==
    /\ WF_vars(Tick)
    /\ \A p \in Proc : SF_vars(Subscribe(p)) /\ WF_vars(InvalidateStore(p))
    /\ \A r \in Reader :
        SF_vars(GetMiss(r)) /\ SF_vars(Load(r)) /\ SF_vars(Fill(r))
    /\ \A w \in Writer :
        WF_vars(NotifyRead(w) \/ NotifyStore(w) \/ Publish(w) \/ PublishFails(w)
                \/ Audited(w) \/ Compensate(w))

FairSpec == Spec /\ Fairness

----------------------------------------------------------------------------
TypeOK ==
    /\ row \in Row
    /\ since \in [Version -> 0 .. Horizon]
    /\ entry \in [Proc -> Entry \cup {NoEntry}]
    /\ sub \in [Proc -> {"none", "on", "failed"}]
    /\ pend \in [Proc -> Nat]
    /\ rpc \in [Reader -> {"idle", "load", "fill"}]
    /\ prev \in [Reader -> Entry \cup {NoEntry}]
    /\ age \in [Reader -> 0 .. Horizon]
    /\ val \in [Reader -> Row \cup {NoRow}]
    /\ \A r \in Reader : rpc[r] = "fill" => val[r] \in Row
    /\ wpc \in [Writer -> {"idle", "notify", "store", "publish", "audit"}]
    /\ before \in [Writer -> Row \cup {NoRow}]
    /\ \A w \in Writer : wpc[w] # "idle" => before[w] \in Row
    /\ hold \in [Invalidators -> Entry \cup {NoEntry}]

\* An entry that was loaded from the row is served for at most its TTL after
\* the row has changed, however many messages are lost, late or never sent and
\* however slowly the load went ("peer caches may stay stale until TTL",
\* coherence/system_config.py:62).
StaleBounded ==
    \A p \in Proc :
        LET e == entry[p] IN
        e.src = "load" /\ e.left > 0 /\ e.ver < row.ver
            => e.left + since[e.ver] <= e.ttl

\* The row a get has read was current at some moment of that get.
FlightBounded ==
    \A r \in Reader :
        rpc[r] = "fill" /\ val[r].ver < row.ver => since[val[r].ver] <= age[r]

\* No copy is of a version that was not written yet, and expiries lie within
\* the TTL.
CopiesPast ==
    /\ \A p \in Proc : entry[p].ver <= row.ver
    /\ \A r \in Reader : val[r].ver <= row.ver /\ prev[r].ver <= row.ver
    /\ \A x \in Invalidators : hold[x].ver <= row.ver
LeftWithinTtl ==
    \A p \in Proc : entry[p].src = "load" => entry[p].left <= entry[p].ttl
SinceStarts == \A v \in Version : v >= row.ver => since[v] = 0

\* StaleBounded with what it rests on: a result on its way is as old as the get
\* that waits for it, at most.
IInv ==
    TypeOK /\ StaleBounded /\ FlightBounded /\ CopiesPast /\ LeftWithinTtl
    /\ SinceStarts

FailuresEnd == <>[][\A r \in Reader : ~LoadFails(r)]_vars

\* When the writes have ended and the row can be read again, every cache comes
\* to hold the row as it is and keeps to it, messages or no messages: no late
\* fill, invalidate() or fallback brings an old version back for good.
Settles ==
    FailuresEnd => <>[](\A p \in Proc : entry[p] # NoEntry => entry[p].ver = row.ver)

\* A failed reload keeps the last known good settings, as
\* docs/local-development.md:124 and cache.py:26 have it: the entry it leaves is
\* not older than the one that was there.
KeepsLastGood ==
    [][\A p \in Proc :
        entry'[p].src = "fallback" /\ entry'[p] # entry[p] /\ entry[p] # NoEntry
            => entry'[p].ver >= entry[p].ver]_vars
============================================================================
