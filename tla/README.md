# A TLA+ model of Untangled

Untangled is an ITSM application of three services around PostgreSQL and Redis:
the **auth** service (Node, `auth/`) that owns passwords, sessions and tokens,
the **API** (FastAPI, `backend/`) that serves records under `/api/v2`, and the
**web** server (React Router SSR and its browser code, `frontend/`). This
directory holds TLA+ modules translated from that code, TLC configurations that
check them on small instances, and TLAPS proofs of their most important
properties for every value of their constants.

`PROJECT.json` is the index: components, runs, the source lines behind every
definition, a mutated definition for every checked property, hazards and
theorems.

    tlc -config MCRefreshSafety.cfg MCRefreshSessions     # a run
    tlapm RefreshSessionsProofs.tla                       # the proofs

## Inventory

| Component | State | Operations | What is hard about it |
|---|---|---|---|
| Session store and refresh rotation (`auth/src/sessions.ts`, `refresh_pipeline.ts`, `logout_pipeline.ts`, `session_cleanup.ts`, session part of `change_password*.ts`) | `user_session`, `used_refresh_token` | login, refresh, logout, change of password, periodic cleanup | transactions of several statements under READ COMMITTED, lock waits and deadlocks, a `now` taken before a wait, a COMMIT whose answer is lost, foreign keys against the cleanup |
| Login pipeline and hash slots (`login_pipeline.ts`, `hash_slots.ts`, `users.ts`, `expiry.ts`) | the user row, slots in use | login, change of password | a row loaded before the hash and written after it, a slot to be given back on every path, a row lock that logins wait for |
| Rate limiter (`rate_limit.ts`, `rate_limit_redis.ts`) | contexts in Redis, a byte count, a purge lease | evaluate, record a failure, purge | WATCH/MULTI/EXEC conflicts between processes, lost replies, crashes with a lease held, a byte budget |
| Settings caches and bus (`system_config.ts`, `coherence.ts`, `system_config/cache.py`, `coherence/*.py`, `system_config_cache.server.ts`) | the `system_config` row, one copy per process | get, invalidate, PATCH, publish, deliver | loads that overlap writes and invalidations, at-most-once messages, slow failures, restarts, threads in the API |
| Authorisation (`rbac/`, `seed/rbac.py`) | roles, grants, `authz_version`, Redis entries | flatten, cache, decide, seed, edit | two reads of one request around a commit; depth bounds of the role graph |
| Records (`records/v2_router_factory.py`, `persistence/store.py`) | rows, the audit log | create, read, update, delete | read-merge-write, compensation after a failed audit event, handlers that die |
| Browser session (`frontend/app/auth/`) | cookies, tabs | load, authenticated fetch, refresh attempts, login, logout | tabs that share one cookie jar, refresh at once and retry |
| Predicate search (`persistence/search.py`) | none | validate, limit, count, select | nesting limits, types and values of conditions, two statements per search |
| List and detail editors (`frontend/app/list`, `detail`, `routes`) | rows shown, filter, sort, pager, columns, drafts, undo | searches, clicks, gestures, edits, saves | answers that overtake each other and navigation; long sequences of legal edits |
| Schema migration (`schema/`) | the schema, `schema_versions`, restore points | diff, plan, apply, record | order of a plan, two migrators, a failure after the restore point: not modelled |
| JWT and header parsing; audit files; code generation; rendering | – | – | cryptography, file I/O, batch text generation or pure presentation: not modelled |

How they interact. A browser holds an access cookie (a short JWT) and a refresh
cookie. Login runs the rate limiter (`evaluate`), the hash slots and the user
row, and inserts a `user_session`; `refresh` exchanges the token of that row;
a change of password locks the user row and may delete all sessions. All of
these read their numbers from the settings cache, whose row is written by the
API and announced over Redis pub/sub. The API trusts the JWT, resolves
permissions through its own Redis cache and writes records. The components
share no memory: they meet in PostgreSQL rows (user, session, settings), in
Redis, and in the settings each one takes at the start of a request. The models
follow these seams: what one component sees of another is a nondeterministic
choice over the outcomes that component can produce (the verdict of the rate
limiter in `LoginPipeline`, the limit `hash_concurrency_limit` that settings
may change at any time, an audit event that can or cannot be written). Where
two parts do meet they are composed: `BrowserRefresh` runs the tabs of a browser
against `TokenChain`, the abstraction that `RefreshSessions` implements;
`RecordPage` runs a page's editor against the threads of `RecordRoutes`;
`ListPage` and `FilterEditor` have the server's half of a search in them.

The properties that make each modelled component correct are listed with its
module below; the hazards they are aimed at, with their source lines, are in
`PROJECT.json`.

## Modules

### RefreshSessions, TokenChain

The sessions of one user. **State**: per session its row (`status`, token
`hmac`, idle and absolute expiry), the `used` tokens with their times, per
request the locals of its handler (`pc` is the next statement), the cleanup's
own position, and the history variables `redeemed` and `ended`. A token is its
place in the session's chain; the HMAC of the code is injective, so only
equality is kept. **Actions**: one SQL statement each, since READ COMMITTED
lets other transactions in between statements; a COMMIT goes with the last
statement of its transaction. `Blocks` says which statement waits for which
transaction (row locks, key-share locks of foreign keys, uncommitted deletes),
`DeadlockAbort` is PostgreSQL's victim, `StatementFails` an error at any
statement, and a lost answer to a COMMIT is an outcome of `RotateCommit`.
`RotateSelect`/`RotateInsert`/`RotateCommit`/`RotateLookup` are
`attempt_rotate`; `RefreshFinish`, `FailHard`, `DeleteUsed`, `DeleteSession` the
tear-downs of the pipelines; `ChangePassword*` the transaction `run_locked`;
`CleanupUsed`, `CleanupSessions` the two deletes of `run_session_cleanup`.

`TokenChain` is what the store promises without any of this: a session is
opened once, only the head of its chain can be redeemed, a redemption spends
the head and mints the next, a closed session stays closed. `RefreshSessions`
is shown to implement it (`RefinesTokenChain`, checked and proved).

Properties: `SingleRedemption`, `NewestIsCurrent`, `EndedIsGone` (after a
reported logout, replay or logout of all, nothing of the session is left),
`IdleWithinTotal`, `RotationStillValid` (what a rotation read is still true when
it commits), `TimesInOrder` (a rotation dates its session by a clock reading from
before it waited for the row; still no idle expiry moves back and tokens are recorded
as used in the order of the chain), `EveryRequestReplies`, `ExpiredIsPurged`.

### LoginPipeline

Logins and changes of password on one account. **State**: the user row,
the user's session rows by the password they rest on, `used` slots and their
`limit`, and per request what its handler holds. A password is the number of the
change that installed it; verification is equality. **Actions**: what a handler
does between two awaits; `Throws` is an exception at any of them and runs the
`finally` of the slot. The rate limiter is told of a failure (`LoginRecord`) before the
padding sleep, and the client after it (`LoginDeny`). `Locked` is `SELECT ... FOR UPDATE` of `run_locked`, for
which the plain `UPDATE`s of logins wait.

Properties: `SlotsAccounted`, `ChangeSeesCurrent`, `CountExplained` (lost
updates of the failed count only lose), `VerdictsAudited` (no verdict before its event,
no "denied" before the rate limiter was told, which is told only of logins judged to
fail),
`SessionsOnCurrentPassword`, `LockedKeepsPassword`, `EveryRequestReplies`.

### RateLimit

The limiter of several auth processes on one Redis. **State**: contexts (hash
and zset: failures, lockout, grace), the byte count, the purge lease, and per
login and purge its optimistic transaction (`tx`: key, what it read, whether its
WATCH is still intact). **Actions**: one Redis command each: WATCH and reads,
EXEC with or without conflict, EXEC whose reply is lost, command failures,
reconnects, crashes; `run_exclusive` admits one transaction per process. Bytes
are counted in units of one failure.

Properties: `NoFailureLost`, `LockoutHolds`, `TripAfterGrace` (a burst locks out
once), `BytesExact` (the budget counter equals what is stored),
`ContextsBounded` (each process exceeds the budget by one context at most),
`TasksEnd`.

### SettingsCache

The `system_config` row and its copies in the auth service, the API and the web
server. **State**: the row (version and TTL), per process its entry and
subscription, messages under way, readers inside `get`, writers inside PATCH,
and `hold`: the entry that the API's two-step `invalidate()` has read.
**Actions**: a get that misses (`GetMiss`), the database's answer (`Load`), its
arrival (`Fill`), the two ways to fail (`LoadFails` falls back, `LoadThrows` does
not), the three kinds of delivery, loss, subscription, restart at any point, and
a PATCH step by step with the compensation after a failed audit event. A hit
changes nothing and is no action. Times are distances (`left`, `age`, `since`),
so the clock has no bound.

Properties: `StaleBounded` (a loaded copy is served for at most its TTL after the
row changed, though messages are lost and loads are slow), `Settles`.

### AuthzCache

Who may do what. **State**: the tables `user_role` (`held`), `role_child`
(`child`), `role_permission` (`perms`) with their `version`, the Redis `entry`
of each user, per request where it is and what it has read, per operator the
edge it has checked; `seen` is the history of what the tables would have given a
request at each instant of it. **Actions**: a request reads the version, hits or
misses Redis (which may evict at any time), runs the flatten query, writes back
and decides (`ReadVersion`, `CacheHit`, `CacheMiss`, `Resolve`, `CacheSet`,
`Decide`). The seed's transactions (`SeedRbac`, from `SeedUsers`, `SeedPerms`,
`SeedChildren`, `SeedHeld`), the operator's `CheckEdge` then `InsertEdge`, and
any other `Edit` with its version. The edge check has no caller but the tests so far
(`role_child` has no route): `CheckEdge` and `InsertEdge` are how `store.py` means it to
be used. `RoleTree` and `Effective` are the recursive
query: paths up to the depth bound, failing on a cycle or a path that is too
long.

Properties: `EntryCurrent` (an entry with the current version holds the current
keys), `DecisionWithinRequest` (each decision was right at some instant of its
request), `FlattenRight` and `EdgeCheckSound` (the query and the cycle check
against reachability).

### ListPage

The list page. **State**: the records, the list shown and the one being loaded,
`search` (rows, total, limit, offset, filter; as history the list and the
database they were read from), sort, columns with order and widths, the generation
counter, the searches in `flight`, the header gesture under way, a delayed Enter.
**Actions**: one per handler: `on_refresh`, `on_page`, `on_per_page_change`,
`on_sort_click`, `on_quick_filter_enter`, `on_date_enter` and its timer
(`DelayedEnter`), the pointer handlers of drag and resize, navigation and the
three ways a loader ends; the server's `Count`, and the answer to a search
(`Apply`, `Reclamp` when the start is past the last page, `Dropped` by
the generation check, `Fails`, `Lost`). `Write` is another client.

Properties: `RowsOfThisList`, `ShownIsAsked` (rows, filter, sort marks and pager
agree), `BusyExplained`, `ReorderLands`. Searches that overlap on one page
(`muddled`) are outside the first two: the page applies their answers in arrival
order.

### FilterEditor

The filter editor and the server's validation. **State**: the filter the navigation
gave the list (`home`), the one in effect (`eff`), the one that the page's own searches
go on from (`ref`, the code's `effective_ref`, which falls back to `home` after an empty
filter), the open draft, the searches under way and the busy flag, which the first answer
clears though another search may still be under way. A tree is a function from the paths
of its nodes. **Actions**: opening, closing, reset, adding, wrapping, removing, the three
controls of a condition, `on_execute_click`, quick filters and repeated searches of the
page, and what becomes of a search: an answer, one retry with the last page (`PastEnd`),
a failure, or no answer.
`_compile_predicate` and the operators below it are the server's compiler, of
which the model keeps acceptance and the reason of a refusal.

Properties: `ExecutedIsValid`, `FreshUnlessEdited`, `NestingBounded` (any number of
quick filters adds one level, two to an empty filter, to the filter they started from:
the one executed last, or the list's own after an empty one).

### RecordRoutes, RecordPage

**State** of the routes: the table, ids handed out, the audit log, and the
requests, each with its locals. A cell carries, as history, the request it came
from. **Actions**: one statement or one audit event each: `store_create`,
`fetch_by_locator`, `store_update_read` and `store_update_write`, `store_delete`,
`create_event`, `update_event`, `delete_event` that may fail, and what follows a
failure: `CompensateEvent` and `DropRow` for a create, `RestoreEvent` and a second
read and write for an update. `Die` ends a handler at any point.
`RecordPage` adds **the page**: the editor with its undo stack, saves and loads
under way. Its actions are the handlers (`FieldChange`, `LeaveField`, `Undo`,
`SaveNew`, `SaveDetail`, `on_refresh`, `RefreshNew`, `Revalidate`) and the
arrivals (`CreateAnswered`, `UpdateAnswered`, `LoadLands`).

Properties: `TrailCovers` (no row disappears, and no success is reported, without
its event), `RowsNeverReturn`, `OverwritesOnlyOverlapping` (how far a lost update
reaches), `AnswerHasPatch`, `UndoRestores`. An update overlaps another one whose handler
was not over at its read, or started later (`Overlapped`).

### BrowserRefresh

The tabs of one browser. **State**: `state`, `head`, `spent` of `TokenChain` and
the times tokens were spent at, the `jar` (access, refresh and CSRF cookie), what
each tab shows with its attempts, the request of each tab (with the jar it took
along, then its answer), and refreshes whose tab has gone (`adrift`). **Actions**:
sending, serving and landing are separate, so cookies change in between.
`ServeDocument` with `ServeMe` is the SSR gate, `ServeRefresh` the auth service
over the chain (`Rotates`, `Reuses` within the grace, `Replays`), `RefreshLands` with
`triesAgain` the retry loop of `refresh_fetch.ts`, `DocumentLands` the bootstrap;
`Breaks` and `Abandon` lose an answer or a tab's interest in it.

Properties: `ReplayExplained` (tabs never look like a replay unless an answer was
lost), `JarFollowsHead` (no late answer puts an older token back),
`RequestsBounded` (no endless reloads and redirects).

## Runs

| Run | Instance | What it shows |
|---|---|---|
| `refresh_safety` | 1 session, 2 requests, 3 tokens, clock to 3 | single use, ended sessions leave nothing, times in order, and the refinement of `TokenChain` |
| `refresh_live` | 1 session, 2 requests | no request waits for ever: deadlocks of a rotation with a change of password are broken; an expired session is deleted although foreign keys stop some ticks |
| `login` | 2 requests, limit 1 or 2 | slots, events, counts and sessions stay consistent; every request is answered |
| `rate_purge` | 2 processes on one user's context with 3 or 4 earlier failures, clock past the sample window, lockout and grace | no failure lost, one trip per burst, lockouts kept, exact bytes, with purges and faults |
| `rate_live` | 2 processes, 2 logins of 2 users from one address, room for one context | the overshoot of the budget by each process; logins and purges end |
| `settings_kinds` | one process of each kind, 2 writes or a compensated one | the staleness bound |
| `settings_live` | the threaded API, 2 overlapping gets | caches settle on the current row |
| `authz` | 2 requests, 1 operator, 3 roles, depth 2, 2 releases of the seed, 3 commits | cached keys, decisions, the flatten query and the edge check |
| `list` | 2 lists, 3 records, pages of 1 or 2, at most 4 requests, writes, navigations and gestures (a gesture counts twice) | rows of the list shown and as the chrome says; busy ends; drags land |
| `filter` | 4 attributes, 5 operators, 4 starting filters, 4 edits (a search of the page counts for two), 2 searches under way | executed filters are valid, drafts fresh, nesting bounded |
| `records` | 1 record, 2 fields, 3 values, 3 requests, edits and requests up to a weight of 5 | audit, rows, lost updates, undo |
| `browser` | 2 tabs, 2 sessions, 2 visits, 1 fault, clock to 2, 2 attempts | the jar, replays and bounded requests |

Why the bounds are enough. The interference a property is about needs two
parties on one row, key, entry or cookie and one fault between them; every safety
run has two of each party that matters (two requests on one session, two processes
on one context, two requests for one slot, two tabs with one jar, a page and
another client on one record). Clocks reach every expiry, grace, window and lockout
that the instance defines. Three tokens show a chain whose middle token is replayed;
three versions a compensation on top of a write. A chain of three roles is longer
than the depth of two, and three roles make cycles both inside and at the bound.
Three records and pages of one or two give a last page that is full, partial or
gone. What small numbers cannot show is covered by the proofs where there are some:
these hold for any number of parties and any values of the settings. Bounds that
limit the model and nothing in the code are constants of their own (`MaxTime`,
`MaxMint`, `LoginUntil`, `MaxVer`, `Horizon`, `MaxUse`, `MaxAll`, `MaxFlight`, `MaxRequests`, `MaxEdits`, `MaxWork`, `MaxVisits`, `MaxFaults`).
`BrowserRefresh` assumes that a request and its answer together take no longer than
the reuse grace (`TransitAssumption`): a slower one is what the grace does not cover.
Symmetry is used only in runs without liveness properties, over model values that
nothing distinguishes. Deadlock checking is off in `login`, `rate_*`, `authz`,
`list`, `filter`, `records` and `browser`, whose requests, edits and visits are
bounded and then stop; the other runs check it.

The runs name the properties that say something about the code. Type correctness
and the strengthenings used by proofs are proved instead, as parts of the inductive
invariants or as theorems of their own. The exception is `FilterTypeOK`, which says
that the children of a node are numbered without gaps: children are arrays in the
code, so it is about the encoding of trees only. It holds on the instance above and
can be added to its configuration.

Fairness. Handlers whose statement or command can run do run (weak fairness for
those that nothing can disable; strong where another transaction may take the
lock again and again, because PostgreSQL serves waiters of a row in order). The
deadlock detector runs. The cleanup timer and time itself go on. For the
settings: processes subscribe, requests keep asking, and infinitely many reads
of the row include successful ones; `Settles` assumes besides that reads
eventually stop failing, since overlapping failures can restore an old entry
again and again as long as they occur. No fairness is assumed of arrivals,
messages, publishing or restarts.

## Proofs

54 theorems, all invariance, action or refinement theorems of a `Spec`, from the
assumptions named next to the constants (sets finite where counted, settings
natural numbers, the check constraint `Window > Grace` of `system_config.yaml`,
processes of one kind each, at least one auth process, columns of a list that are
distinct, first filters that are trees, access tokens that live at least a second, at
least one refresh attempt). 35 of them state a property that a run checks: the run
shows it on the instance, the theorem for any number of sessions, requests,
processes, tabs, records and for any settings. The others are the inductive invariants and types.
Each invariant was an invariant of a TLC run before it was proved.

* `RefreshSessionsProofs`: `SingleRedemption` is not inductive. `IInv` adds what
  makes it so: `RotationsExclusive` (the row lock admits one rotation between
  SELECT FOR UPDATE and COMMIT), `OneHead` (the stored token is the newest and
  no token up to it is redeemed twice), `RequestsSound` (what a request holds of
  its session is still there or the session is gone). The refinement theorem
  `ImplementsTokenChain` follows from the same invariant, one step per action.
  `TimesInOrder` needs `DatesKnown` besides: a rotation that still presents the newest
  token has read the clock no earlier than the times its session has now, because the
  token it presents was handed out by the rotation that set them.
* `LoginPipelineProofs`: `Inv` is types, `SlotsAccounted` and the exclusive row
  (`OneChanger`, `ChangeSeesCurrent`); the slot count is a cardinality, moved by
  one with each request that enters or leaves a hash. `PlanInv` says what a
  handler has decided at each place; on it rest `CountInv` (a request about to
  write a count has loaded one that the rejections so far explain, though other
  writes may have come in between), `AuditInv` (a verdict is answered, the rate
  limiter told and a session created after the event) and `SessionInv` (a login goes on only with a
  password that was in force at or after its arrival).
* `RateLimitProofs`: the heart is `WatchSound`: a transaction whose WATCH is
  intact has read the context as it is now. With it an EXEC that commits is an
  atomic update, and kept failures, lockouts and grace follow. `BytesExact` is a
  sum over all contexts, of which a commit changes one term by what it adds to the
  counter. `ContextsBounded` is not inductive; `Reserved` counts the contexts
  together with the creators that have passed the budget check, and `Exclusive`
  (`run_exclusive`) makes these one per process.
* `SettingsCacheProofs`: `StaleBounded` needs `FlightBounded`: a result on its way
  was superseded no longer ago than its get has been waiting. Since the expiry is
  taken from the start of the get, the TTL covers that wait; a write starts the
  time of the version it supersedes at zero, when each copy has its TTL at most.
* `AuthzCacheProofs`: the flatten query and the edge check are proved against
  reachability for every graph and every depth bound. Both are about paths, so an
  induction over their length is needed; it is stated with sets of numbers (a set
  of counterexamples has a least element), which the provers can use.
  `EntryInv` makes `EntryCurrent` inductive: keys on their way to Redis under the
  current version are what the tables give now, since every commit that changes
  them raises the version. `SeenInv` does the same for `DecisionWithinRequest`: what
  a request may still find under the version it has read was right since it began.
* `RecordPageProofs`: `OwnInv` says of each request by itself what it has read
  (`Stage`), logged (`Trailed`), written (`PatchThere`) and is about to write back
  (`MergeFresh`), up to updates that overlap it. A step of one handler is
  shown to leave that of every other intact, so there is one lemma per statement and
  not one per pair. The undo stack carries the drafts it leads back through
  (`EditorOK`); that undoing all of it restores the loaded record is an
  induction over the stack.
* `BrowserRefreshProofs`: the invariant says where the newest token of a live
  session can be: in one answer under way (`Alone`), or else in the jar and its
  copies; the jar is one behind only while that answer travels (`JarClose`), and who
  sends a spent token did so before the next had to be there (`Timely`). With
  `TransitAssumption` such a request arrives within the grace, so it is never
  taken for a replay, unless an answer was lost. `RequestsBounded` needs a rank:
  `Left` is the number of requests a tab will still send by itself, read off its page,
  its request, the attempts made and whether the access token of the jar is valid
  (`Remaining`). Every request sent lowers it by one, but it rises by at most a round
  (`MaxRetries + 3`) when another tab's answer takes the valid token out of the jar.
  Each tab holds at most one such answer (`Spoils`), and no answer turns into one
  without the user or the clock, so `Budget` (sent, left, and a round for each
  spoiler) never grows; a step of the user or of the clock starts the count again.
* `ListPageProofs`, first part: while nothing muddled the page, a search of the current
  generation was sent for this list with the sort of now (`Current`), and a
  counted one carries the count of its own filter; `TotalRight` keeps the count with
  the rows, which is what makes a new page size right without a search. `ReorderLands`
  is an action property from `DragInv` (a drag that was not abandoned still holds the
  column it was started on) and from what removing and inserting do to a sequence of
  distinct columns, entry by entry. From the same facts `LayoutFitsColumns` shows that
  order and widths fit the columns of the list shown whatever gesture a navigation
  interrupts, which `column_layout.ts:103` and the renderer take for granted.
* `ListPageProofs`, second part: the filter editor of the page. Every operation
  on the draft yields a tree whose conditions suit their attributes and that has no
  "not" (`Shown`; removing a branch renumbers its younger siblings, which is
  where most of the work is), so what `commit_node` accepts `_compile_predicate`
  accepts. `NestingBounded` is not inductive: `Nests` lets only a filter whose
  root is an "and" use the extra level, and `Levelled` says it of every filter that may
  come into effect: the list's own, `ref` and the searches under way.

Only model-checked: liveness, which is outside the prover: `EveryRequestReplies`
(twice), `ExpiredIsPurged`, `TasksEnd`, `Settles`. Every other property of the runs
is a theorem.

Some definitions were rewritten, with the same meaning, because the provers cannot
see through the library operator they used: `Window` of `ListPage` ranks rows by
counting the rows before them (`Nth`), its `Without` removes by position, `Put` of
`FilterEditor` is a function expression, and overlapping CASEs became IF
(`_compile_predicate`, `Verdict`). The proofs also corrected four statements: `OverwritesOnlyOverlapping` and
`AnswerHasPatch` name the overlapping updates by `Overlapped`, and `ExecutedIsValid`
covers exactly the conditions the editor offers or leaves empty; `RequestsBounded`
has the bound that the rank gives, which is below the one first guessed.

## Findings

Places where the code does something other than what a comment, a doc or a test
says. Each is a property of the modules that is violated; the configuration next
to it gives TLC's counterexample.

1. `MCRefreshCleanup.cfg`, `CleanupSucceeds` (`session_cleanup.ts:16`): one expired
   session with a used token inside its reuse window makes the cleanup's single
   DELETE fail for every session, tick after tick until the window is over.
2. `MCLoginLock.cfg`, `LockedUntilUnlock` (`login_pipeline.ts:174`): the failed count
   is written from a row loaded before the hash; a login that overlaps the locking
   one takes the lock of record back.
3. `MCLoginCutoff.cfg`, `OldPasswordLoggedOut` (`http.ts:268`): a login verified with
   the old password inserts its session after a change of password has logged out
   all sessions.
4. `MCSettingsLastGood.cfg`, `KeepsLastGood` (`system_config.ts:270`): a failed reload
   restores the entry it captured before its await, over a newer one.
5. `MCListFilter.cfg`, `EffectiveRefCurrent` (`destination_list.tsx:295`): after the
   filter was cleared the reference falls back to the list's baseline
   (`?? loaded.baseline_predicate`), so the next quick filter, sort or page
   searches with a filter that is not the one in effect.
6. `MCRecordsCreate.cfg`, `CreateFailureCompensated` (`v2_router_factory.py:97`): a
   create whose audit event fails keeps its row when the event of the compensating
   delete fails too; `tests/test_audit_api.py:268` has only the first one fail.
7. `MCRecordsFresh.cfg`, `RefreshIsFreshest` (`destination_detail.tsx:152`): a refresh
   asked for during a save may read the row before the update and land after the
   save's answer; its older record then replaces the saved one on the page.

Met on the way, without a property. Settings and sessions: a load that straddles a
write and its invalidation caches the old row for the rest of the TTL, although
`system_config_cache.server.ts:4` says peers' writes flush the cache (`StaleBounded`
is what does hold); the pause after a failed reload is counted from before the
query, so failures slower than 30 s have none; `docs/edge-proxy.md:84` calls an
expired refresh token a soft failure, the code answers it hard; a rotation that waited
for the row longer than the reuse grace records its token as used in the past
(`refresh_pipeline.ts:152`), so an honest retry of it is judged a replay; one failed Redis
connection leaves the web server with a rejected subscription promise for good.

Browser: every first refresh attempt mints a CSRF token (`http.ts:111`,
`refresh_fetch.ts:209`), so two tabs that refresh at once invalidate each other's
and one of them ends at the login page although its session is live; soft retries
have no pause, so all of them may pass before the winner's answer arrives; a
bootstrap whose fetch rejects stays blank; `redirect_unauthorized` clears an access
cookie that expired between the gate and `/me`, or another tab's newer one; a
refresh answered after a logout in another tab puts the old session's cookies back.

Lists and records: an Enter in an empty date field fires a timer that may outlive
its list (`list_context_bar.tsx:511`, against the comment at
`destination_list.tsx:260`); a rejected fetch leaves `busy` or `save_pending` set; a
visit to the path already shown ignores the loader's fresh rows; a second Ctrl+S on
the new form between the answer and the navigation creates a second record; edits
typed during a save are dropped by its answer; an update is audited as done though
its row was deleted meanwhile; the seed drops an operator role's grants when a
permission's id changes, although its docstring says it rewrites the joins
(`seed/rbac.py:128`).

## Not modelled

In modelled components: in-memory twins used by tests; padding of response
times; delay levels and the trip event of the limiter (no state); an account
deleted during a login; changes of settings inside one rate-limit transaction;
Redis eviction and SCAN duplicates in the limiter; sessions that must change their
password first in the browser, and a user deleted or deactivated while a token of his is
valid (`http.ts:582` answers 401, the gate clears the cookie); foreign-key lookups and enrichment of rows; the
wording of answers, events and messages. Whole components: schema migration
(`schema/`), which an operator runs with the services stopped and whose content is
the comparison of catalog texts; cryptography and header parsing (a request that
passes them is an arrival); audit files (a failing emit is an outcome of its
callers); code generation; sample data; rendering.

## Plan

Modelling has reached the components with a protocol of their own, and every safety
property of the runs is proved. What is left needs other means:

1. The liveness properties, once a prover handles fairness and ENABLED. The rank of
   `BrowserRefreshProofs` is what an argument that tabs come to rest would use.
2. `FilterTypeOK`, should the model of trees ever change to one in which gaps can
   appear.
3. The hazards without a property, when the code decides how to handle them: failed
   logins that overwrite each other's count (finding 2), a login that outlives the logout
   of all sessions (finding 3), answers of one page that overtake each other, the rejected
   subscription promise of the web server, two migrators at once.

`BrowserRefresh` takes its chain of tokens from `TokenChain` as `RefreshSessions` is
proved to implement it; a refinement theorem of its own would repeat that.
