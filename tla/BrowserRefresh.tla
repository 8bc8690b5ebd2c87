--------------------------- MODULE BrowserRefresh ---------------------------
(***************************************************************************)
(* The tabs of one browser and their shared cookie jar, against the SSR    *)
(* gate, the API and the auth service.  Sessions and their refresh tokens  *)
(* are the abstract TokenChain, which RefreshSessions implements.          *)
(*                                                                         *)
(* A request takes the jar with it when it is sent, is served later, and   *)
(* its Set-Cookie headers reach the jar together with the answer.  A tab   *)
(* has one request of its own at a time; a request whose tab has left it   *)
(* may still be served.  An access token is <<session, exp>>, a refresh    *)
(* token <<session, number>>, a CSRF token a number, 0 for no cookie.      *)
(* Left out: must-change sessions, and a user who is deleted or            *)
(* deactivated while a token of his is valid.                              *)
(***************************************************************************)
EXTENDS Naturals, FiniteSets

CONSTANTS
    Tab,
    Session,      \* sessions this browser may open, the one it starts in first
    First,        \* the session it starts in
    AccessTtl,    \* session_access_ttl_seconds
    Grace,        \* session_refresh_reuse_grace_seconds
    MaxRetries,   \* session_max_refresh_retries
    RequestTime,  \* the longest a request is under way and being served
    AnswerTime,   \* the longest its answer is under way
    MaxTime, MaxVisits, MaxFaults   \* bounds

\* system_config.ts takes only positive values of the settings
\* session_access_ttl_seconds and session_max_refresh_retries.
ASSUME TransitAssumption ==
    /\ First \in Session
    /\ AccessTtl \in Nat \ {0} /\ Grace \in Nat /\ RequestTime \in Nat /\ AnswerTime \in Nat
    /\ RequestTime + AnswerTime <= Grace

ASSUME BoundAssumption ==
    /\ IsFiniteSet(Tab) /\ MaxRetries \in Nat \ {0}
    /\ MaxTime \in Nat /\ MaxVisits \in Nat /\ MaxFaults \in Nat

VARIABLES
    now,
    state, head, spent,   \* the session store, as TokenChain has it
    used_at,              \* when each spent token was spent
    jar,                  \* the browser's cookies
    tab,                  \* what each tab shows, and its refresh attempts
    net,                  \* the request of each tab
    adrift,               \* refresh requests without a tab, not yet served
    visits, faults,       \* bounded counters
    sent,                 \* requests of each tab since the user last acted, in any
                          \* tab, or the clock moved
    lost,                 \* sessions of which a rotation's answer was lost
    replayed              \* sessions torn down as replayed

chainVars == <<state, head, spent>>
boundVars == <<visits, faults>>
storeVars == <<chainVars, used_at, lost, replayed>>
vars == <<now, storeVars, jar, tab, net, adrift, sent, boundVars>>

Chain == INSTANCE TokenChain

None == <<>>
Keep == {}      \* of a cookie an answer sets: {} for none, {value}
NoAnswer == [status |-> "none", access |-> Keep, refresh |-> Keep, csrf |-> Keep]
NoCookies == [access |-> None, refresh |-> None, csrf |-> 0]
NoRequest == [kind |-> "none", at |-> 0, jar |-> NoCookies, header |-> 0, answer |-> NoAnswer]

Valid(access) == access # None /\ now < access[2]
Expired(access) == access # None /\ ~Valid(access)

Init ==
    /\ now = 0
    /\ state = [s \in Session |-> IF s = First THEN "live" ELSE "none"]
    /\ head = [s \in Session |-> IF s = First THEN 1 ELSE 0]
    /\ spent = {} /\ used_at = <<>> /\ lost = {} /\ replayed = {}
    /\ jar = [access |-> <<First, 0>>, refresh |-> <<First, 1>>, csrf |-> 1]
    /\ tab \in [Tab -> {[page |-> "app", tries |-> 0, csrf |-> 0]}   \* or a form opened before
                        \cup [page : {"login"}, tries : {0}, csrf : {1, 2}]]
    /\ net = [t \in Tab |-> NoRequest]
    /\ sent = [t \in Tab |-> 0]
    /\ adrift = {} /\ visits = 0 /\ faults = 0

-----------------------------------------------------------------------------
(* The servers. *)

Unserved(t, kind) == net[t].kind = kind /\ net[t].answer = NoAnswer

AnswerWith(t, status, access, refresh, csrf) ==
    net' = [net EXCEPT ![t].at = now, ![t].jar = NoCookies, ![t].header = 0,
              ![t].answer = [status |-> status, access |-> access, refresh |-> refresh, csrf |-> csrf]]

Answer(t, status) == AnswerWith(t, status, Keep, Keep, Keep)

\* require_document_access: an expired token gets the bootstrap page, a
\* valid one lets the loader go on to fetch_me.
ServeDocument(t) ==
    /\ Unserved(t, "document")
    /\ \/ net[t].jar.access = None /\ Answer(t, "to_login")
       \/ Expired(net[t].jar.access) /\ Answer(t, "bootstrap")
       \/ Valid(net[t].jar.access) /\ net' = [net EXCEPT ![t].kind = "me", ![t].at = now]
    /\ UNCHANGED <<now, storeVars, jar, tab, adrift, sent, boundVars>>

\* Auth looks at the token and at the user, who stays active here, not at the
\* session.
handle_me(access) == Valid(access)

\* The token may have expired on the way to auth; this seam does not refresh.
redirect_unauthorized(t) == AnswerWith(t, "to_login", {None}, Keep, Keep)

ServeMe(t) ==
    /\ Unserved(t, "me")
    /\ \/ handle_me(net[t].jar.access) /\ Answer(t, "page")
       \/ ~handle_me(net[t].jar.access) /\ redirect_unauthorized(t)
    /\ UNCHANGED <<now, storeVars, jar, tab, adrift, sent, boundVars>>

ServeLoginPage(t) ==
    /\ Unserved(t, "login_page")
    /\ Answer(t, IF Valid(net[t].jar.access) THEN "to_next" ELSE "form")
    /\ UNCHANGED <<now, storeVars, jar, tab, adrift, sent, boundVars>>

\* handle_csrf mints a token for every request: one that is nowhere in use.
CsrfInUse ==
    {jar.csrf} \cup {tab[t].csrf : t \in Tab}
        \cup UNION {{net[t].jar.csrf} \cup net[t].answer.csrf : t \in Tab}

ServeCsrf(t) ==
    /\ Unserved(t, "csrf")
    /\ \E fresh \in 1..(3 * Cardinality(Tab) + 2) :   \* the least one
          /\ fresh \notin CsrfInUse /\ \A k \in 1..(fresh - 1) : k \in CsrfInUse
          /\ AnswerWith(t, "ok", Keep, Keep, {fresh})
    /\ UNCHANGED <<now, storeVars, jar, tab, adrift, sent, boundVars>>

\* An API call: only the access token decides, the session is not looked up.
\* A call that needs a CSRF token takes it from the cookie it is sent with.
ServeCall(t) ==
    /\ Unserved(t, "call") \/ Unserved(t, "retry")
    /\ Answer(t, IF Valid(net[t].jar.access) THEN "ok"
                 ELSE IF Expired(net[t].jar.access) THEN "soft" ELSE "hard")
    /\ UNCHANGED <<now, storeVars, jar, tab, adrift, sent, boundVars>>

withinGraceStrictly(token) == now - used_at[token] < Grace

within_grace(token) == now - used_at[token] <= Grace

CsrfOk(request) == request.jar.csrf # 0 /\ request.header = request.jar.csrf

\* The pair of cookies names a live session and, for Rotates, its newest token.
Presents(request, s) ==
    /\ CsrfOk(request)
    /\ request.jar.access # None /\ request.jar.access[1] = s
    /\ request.jar.refresh # None /\ request.jar.refresh[1] = s
    /\ state[s] = "live"

Rotates(request, s) == Presents(request, s) /\ request.jar.refresh[2] = head[s]
Reuses(request, s) == Presents(request, s) /\ request.jar.refresh \in spent

Rotate(request, s) ==
    /\ Rotates(request, s)
    /\ Chain!Redeem(s)
    /\ used_at' = [token \in spent' |-> IF token \in spent THEN used_at[token] ELSE now]
    /\ UNCHANGED replayed

Replays(request, s) == Reuses(request, s) /\ ~within_grace(request.jar.refresh)

TearDown(request, s) ==
    /\ Replays(request, s)
    /\ Chain!Close({s})
    /\ replayed' = replayed \cup {s}
    /\ UNCHANGED <<used_at, lost>>

accessExpiredLate(access) == access[2] < now

access_expired(access) == access[2] <= now

Refused(request) ==
    IF ~CsrfOk(request) THEN "forbidden" ELSE "hard"

SoftAnswerEchoes(t) == AnswerWith(t, "soft", Keep, {net[t].jar.refresh}, Keep)

SoftAnswer(t) == Answer(t, "soft")

\* run_refresh_pipeline, as handle_refresh answers it.
ServeRefresh(t) ==
    LET request == net[t] IN
    /\ Unserved(t, "refresh")
    /\ \/ \E s \in Session :
            /\ Rotate(request, s) /\ UNCHANGED lost
            /\ AnswerWith(t, "ok",
                 IF access_expired(request.jar.access) THEN {<<s, now + AccessTtl>>} ELSE Keep,
                 {<<s, head[s] + 1>>}, {request.jar.csrf})
       \/ \E s \in Session :
            /\ Reuses(request, s) /\ within_grace(request.jar.refresh)
            /\ SoftAnswer(t) /\ UNCHANGED storeVars
       \/ \E s \in Session : TearDown(request, s) /\ Answer(t, "hard")
       \/ /\ \A s \in Session : ~Rotates(request, s) /\ ~Reuses(request, s)
          /\ Answer(t, Refused(request)) /\ UNCHANGED storeVars
    /\ UNCHANGED <<now, jar, tab, adrift, sent, boundVars>>

\* The store or the audit sink fails: before anything is changed, after the
\* tear-down of a replayed session, or where the session is invalidated, after
\* the rotation too; that step may fail as well.
RefreshFails(t) ==
    LET request == net[t] IN
    /\ Unserved(t, "refresh") /\ CsrfOk(request)
    /\ faults < MaxFaults /\ faults' = faults + 1
    /\ \/ UNCHANGED storeVars
       \/ \E s \in Session : TearDown(request, s)
       \/ \E s \in Session : Rotate(request, s) /\ lost' = lost \cup {s}
       \/ \E s \in Session :
            /\ request.jar.access # None /\ request.jar.access[1] = s
            /\ ~Reuses(request, s) /\ Chain!Close({s})
            /\ UNCHANGED <<used_at, lost, replayed>>
    /\ Answer(t, "error")
    /\ UNCHANGED <<now, jar, tab, adrift, sent, visits>>

\* A request nobody waits for is served all the same.
ServeAdrift ==
    \E request \in adrift :
        /\ \/ \E s \in Session : Rotate(request, s) /\ lost' = lost \cup {s}
           \/ \E s \in Session : TearDown(request, s)
           \/ /\ \A s \in Session : ~Rotates(request, s) /\ ~Replays(request, s)
              /\ UNCHANGED storeVars
        /\ adrift' = adrift \ {request}
        /\ UNCHANGED <<now, jar, tab, net, sent, boundVars>>

\* A right password; LoginPipeline has the other verdicts.
ServeLogin(t) ==
    LET request == net[t] IN
    /\ Unserved(t, "login")
    /\ \/ ~CsrfOk(request) /\ Answer(t, "forbidden") /\ UNCHANGED storeVars
       \/ \E s \in Session :
            /\ CsrfOk(request) /\ Chain!Open(s, 1)
            /\ AnswerWith(t, "ok", {<<s, now + AccessTtl>>}, {<<s, 1>>}, {request.jar.csrf})
            /\ UNCHANGED <<used_at, lost, replayed>>
    /\ UNCHANGED <<now, jar, tab, adrift, sent, boundVars>>

\* The SSR action drops both cookies although auth denies a request without a
\* token, and leaves them when auth fails.  The form takes its CSRF token from
\* the cookie as it is submitted: the two agree.
ServeLogout(t) ==
    LET request == net[t]
        Out == {s \in Session : /\ request.jar.access # None /\ request.jar.access[1] = s
                                /\ state[s] = "live"} IN
    /\ Unserved(t, "logout")
    /\ \/ /\ Chain!Close(Out)
          /\ AnswerWith(t, "signed_out", {None}, {None}, Keep)
          /\ UNCHANGED <<used_at, lost, replayed, faults>>
       \/ /\ faults < MaxFaults /\ faults' = faults + 1
          /\ Chain!Close(Out) \/ UNCHANGED chainVars
          /\ Answer(t, "error") /\ UNCHANGED <<used_at, lost, replayed>>
    /\ UNCHANGED <<now, jar, tab, adrift, sent, visits>>

\* The session expires, or all sessions of the user are invalidated.
SessionEnds(s) ==
    /\ faults < MaxFaults /\ faults' = faults + 1
    /\ Chain!Close({s})
    /\ UNCHANGED <<now, used_at, lost, replayed, jar, tab, net, adrift, sent, visits>>

-----------------------------------------------------------------------------
(* The browser. *)

Or(new, old) == IF new = Keep THEN old ELSE CHOOSE value \in new : TRUE

Request(kind, cookies, header) ==
    [kind |-> kind, at |-> now, jar |-> cookies, header |-> header, answer |-> NoAnswer]

\* The jar with the Set-Cookie headers of the answer.
Stored(answer) ==
    [access |-> Or(answer.access, jar.access), refresh |-> Or(answer.refresh, jar.refresh),
     csrf |-> Or(answer.csrf, jar.csrf)]

Idle(t) == net[t] = NoRequest /\ tab[t].tries = 0

\* The answer reaches its tab, which shows `shows` and goes on with request `next`.
Lands(t, kind, status, shows, next) ==
    /\ net[t].kind = kind /\ net[t].answer.status = status
    /\ jar' = Stored(net[t].answer)
    /\ tab' = [tab EXCEPT ![t] = shows]
    /\ net' = [net EXCEPT ![t] = IF next = "none" THEN NoRequest
                                  ELSE Request(next, jar', IF next = "refresh" THEN jar'.csrf ELSE 0)]
    /\ sent' = [sent EXCEPT ![t] = IF next # "none" THEN @ + 1 ELSE IF shows.tries = 0 THEN 0 ELSE @]
    /\ UNCHANGED <<now, storeVars, adrift, boundVars>>

Showing(t, page) == [page |-> page, tries |-> 0, csrf |-> 0]
Trying(t, tries) == [tab[t] EXCEPT !.tries = tries, !.csrf = 0]

DocumentLands(t) ==
    \/ Lands(t, "document", "to_login", tab[t], "login_page")
    \/ Lands(t, "me", "to_login", tab[t], "login_page")
    \/ Lands(t, "me", "page", Showing(t, "app"), "none")
    \/ Lands(t, "document", "bootstrap", [page |-> "blank", tries |-> 1, csrf |-> 0], "csrf")
    \/ Lands(t, "login_page", "to_next", tab[t], "document")
    \/ Lands(t, "login_page", "form", Showing(t, "login"), "csrf")

\* The token goes into the login form, or into the first POST of a refresh.
CsrfLands(t) ==
    Lands(t, "csrf", "ok", [tab[t] EXCEPT !.csrf = Or(net[t].answer.csrf, 0)], "none")

PostRefresh(t) ==
    /\ net[t] = NoRequest /\ tab[t].tries = 1   \* the later attempts read document.cookie
    /\ net' = [net EXCEPT ![t] = Request("refresh", jar, tab[t].csrf)]
    /\ tab' = [tab EXCEPT ![t] = Trying(t, 1)]
    /\ sent' = [sent EXCEPT ![t] = @ + 1]
    /\ UNCHANGED <<now, storeVars, jar, adrift, boundVars>>

triesAgainAlways(t) == Trying(t, tab[t].tries)

triesAgain(t) == Trying(t, tab[t].tries + 1)

\* run_refresh_attempts, and what its callers do with the result.
RefreshLands(t) ==
    LET done == Trying(t, 0) IN
    \/ tab[t].page = "blank" /\ Lands(t, "refresh", "ok", done, "document")
    \/ tab[t].page # "blank" /\ Lands(t, "refresh", "ok", done, "retry")
    \/ tab[t].tries < MaxRetries /\ Lands(t, "refresh", "soft", triesAgain(t), "refresh")
    \/ tab[t].tries >= MaxRetries /\ Lands(t, "refresh", "soft", done, "login_page")
    \/ \E status \in {"forbidden", "hard", "error"} : Lands(t, "refresh", status, done, "login_page")

\* authenticated_fetch: a retried call is returned whatever its answer is.
CallLands(t) ==
    \/ Lands(t, "call", "ok", tab[t], "none")
    \/ Lands(t, "call", "soft", Trying(t, 1), "csrf")
    \/ Lands(t, "call", "hard", tab[t], "login_page")
    \/ \E status \in {"ok", "soft", "hard"} : Lands(t, "retry", status, tab[t], "none")

LoginLands(t) ==
    \/ Lands(t, "login", "ok", tab[t], "document")
    \/ Lands(t, "login", "forbidden", tab[t], "none")

LogoutLands(t) ==
    \/ Lands(t, "logout", "signed_out", tab[t], "login_page")
    \/ Lands(t, "logout", "error", tab[t], "none")

\* What becomes of a request whose tab no longer waits for it.
Abandon(t) ==
    LET request == net[t]
        Refresh == request.kind = "refresh" IN
    /\ adrift' = IF Refresh /\ request.answer = NoAnswer THEN adrift \cup {request} ELSE adrift
    /\ lost' = IF Refresh THEN lost \cup {token[1] : token \in request.answer.refresh} ELSE lost

\* The connection breaks: the promise is rejected, the page stays as it is.
Breaks(t) ==
    /\ net[t] # NoRequest
    /\ faults < MaxFaults /\ faults' = faults + 1
    /\ Abandon(t)
    /\ tab' = [tab EXCEPT ![t] = Trying(t, 0)]
    /\ net' = [net EXCEPT ![t] = NoRequest]
    /\ sent' = [sent EXCEPT ![t] = 0]
    /\ UNCHANGED <<now, chainVars, used_at, replayed, jar, visits>>

\* The user acts: the counts start again, with the request of this tab
FirstOf(t) == [u \in Tab |-> IF u = t THEN 1 ELSE 0]

Counted == visits < MaxVisits /\ visits' = visits + 1

\* The user opens or reloads a page, also while something is under way.
Visit(t) ==
    /\ Counted
    /\ Abandon(t)
    /\ tab' = [tab EXCEPT ![t] = Trying(t, 0)]
    /\ net' = [net EXCEPT ![t] = Request("document", jar, 0)]
    /\ sent' = FirstOf(t)
    /\ UNCHANGED <<now, chainVars, used_at, replayed, jar, faults>>

Send(t, page, kind, header) ==
    /\ Idle(t) /\ tab[t].page = page
    /\ net' = [net EXCEPT ![t] = Request(kind, jar, header)]
    /\ sent' = FirstOf(t)
    /\ UNCHANGED <<now, storeVars, jar, tab, adrift, faults>>

Call(t) == Counted /\ Send(t, "app", "call", 0)
SubmitLogin(t) == Counted /\ tab[t].csrf # 0 /\ Send(t, "login", "login", tab[t].csrf)
SubmitLogout(t) == Counted /\ Send(t, "app", "logout", jar.csrf)

Tick ==
    /\ now < MaxTime
    /\ \A t \in Tab : net[t] # NoRequest =>
            now - net[t].at < IF net[t].answer = NoAnswer THEN RequestTime ELSE AnswerTime
    /\ \A request \in adrift : now - request.at < RequestTime
    /\ now' = now + 1
    /\ sent' = [t \in Tab |-> 0]
    /\ UNCHANGED <<storeVars, jar, tab, net, adrift, boundVars>>

Next ==
    \/ \E t \in Tab :
        \/ ServeDocument(t) \/ ServeMe(t) \/ ServeLoginPage(t) \/ ServeCsrf(t) \/ ServeCall(t)
        \/ ServeRefresh(t) \/ RefreshFails(t) \/ ServeLogin(t) \/ ServeLogout(t)
        \/ DocumentLands(t) \/ CsrfLands(t) \/ PostRefresh(t) \/ RefreshLands(t)
        \/ CallLands(t) \/ LoginLands(t) \/ LogoutLands(t) \/ Breaks(t)
        \/ Visit(t) \/ Call(t) \/ SubmitLogin(t) \/ SubmitLogout(t)
    \/ \E s \in Session : SessionEnds(s)
    \/ ServeAdrift \/ Tick

Spec == Init /\ [][Next]_vars

-----------------------------------------------------------------------------
TypeOK ==
    /\ now \in 0..MaxTime /\ visits \in 0..MaxVisits /\ faults \in 0..MaxFaults
    /\ \A t \in Tab : tab[t].page \in {"app", "blank", "login"} /\ tab[t].tries \in 0..MaxRetries
    /\ DOMAIN used_at = spent
    /\ lost \subseteq Session /\ replayed \subseteq Session

(***************************************************************************)
(* Tabs that refresh, retry and reload at the same time do not make auth    *)
(* take one of them for a replay (sessions.ts:213): a session is torn down  *)
(* for reuse only if the answer of one of its rotations never reached the   *)
(* jar, as long as a request and an answer together take no longer than the *)
(* reuse grace.                                                             *)
(***************************************************************************)
ReplayExplained == replayed \subseteq lost

(***************************************************************************)
(* The jar does not fall behind: the refresh cookie of a live session is    *)
(* its newest token, unless the answer with the newest one is under way or  *)
(* was lost (http.ts:411).  No answer that arrives late, of a refresh, a    *)
(* login or a logout in another tab, puts an older token of it back.        *)
(***************************************************************************)
JarFollowsHead ==
    \A s \in Session :
        state[s] = "live" /\ jar.refresh # None /\ jar.refresh[1] = s =>
            \/ jar.refresh[2] = head[s]
            \/ s \in lost
            \/ \E t \in Tab : <<s, head[s]>> \in net[t].answer.refresh

(***************************************************************************)
(* No tab goes round in circles: what the user starts ends after a bounded  *)
(* number of requests, unless the clock moves meanwhile.  The attempts of a *)
(* refresh, the reload after it and the redirects between gate and login    *)
(* page come to an end (refresh_fetch.ts:216, refresh_bootstrap.tsx:27,     *)
(* login.tsx:16).  What was under way in another tab, a sign-out say, can   *)
(* start a tab over, once for each of them: it then fetches a page, a CSRF  *)
(* token and the login page again, with all refresh attempts in between.    *)
(***************************************************************************)
RequestsBounded == \A t \in Tab : sent[t] <= (MaxRetries + 3) * Cardinality(Tab) + 1
=============================================================================
