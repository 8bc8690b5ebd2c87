----------------------- MODULE BrowserRefreshProofs -----------------------
(***************************************************************************)
(* Proofs about BrowserRefresh, for any number of tabs and sessions: the   *)
(* cookie jar does not fall behind the session's newest refresh token, no  *)
(* session is torn down as replayed unless an answer was lost, and the     *)
(* tabs come to rest within a bounded number of requests.                  *)
(*                                                                         *)
(* The invariant says where the newest token of a session can be: in the   *)
(* one answer that carries it, or else in copies of the jar; and that a    *)
(* request with a spent token was sent before the answer with the next one *)
(* had to arrive.  The requests are bounded because a rank of each tab     *)
(* (Remaining) falls with every one of them and rises only when an answer  *)
(* to another tab takes the access token away, once for each tab (Budget). *)
(***************************************************************************)
EXTENDS BrowserRefresh, FiniteSetTheorems, TLAPS

----------------------------------------------------------------------------
\* Types

Kind   == {"none", "document", "me", "login_page", "csrf", "call", "retry", "refresh",
           "login", "logout"}
Status == {"none", "to_login", "bootstrap", "page", "to_next", "form", "ok", "soft", "hard",
           "forbidden", "error", "signed_out"}
Page   == {"app", "blank", "login"}

Token       == Session \X (Nat \ {0})
MaybeToken  == {None} \cup Token
MaybeAccess == {None} \cup (Session \X Nat)
Cookies     == [access : MaybeAccess, refresh : MaybeToken, csrf : Nat]
Setting     == {Keep} \cup {{v} : v \in MaybeToken}
AccessSetting == {Keep} \cup {{v} : v \in MaybeAccess}
CsrfSetting == {Keep} \cup {{v} : v \in Nat}
AnswerSet   ==
    [status : Status, access : AccessSetting, refresh : Setting, csrf : CsrfSetting]
RequestSet  ==
    [kind : Kind, at : Nat, jar : Cookies, header : Nat, answer : AnswerSet]
TabSet      == [page : Page, tries : Nat, csrf : Nat]

StoreType ==
    /\ state \in [Session -> {"none", "live", "gone"}] /\ head \in [Session -> Nat]
    /\ spent \subseteq Token /\ used_at \in [spent -> Nat]
    /\ lost \subseteq Session /\ replayed \subseteq Session

TypeInv ==
    /\ now \in Nat /\ StoreType
    /\ jar \in Cookies /\ tab \in [Tab -> TabSet] /\ net \in [Tab -> RequestSet]
    /\ adrift \subseteq RequestSet

LEMMA ConstantsTyped ==
    /\ NoAnswer \in AnswerSet /\ NoCookies \in Cookies /\ NoRequest \in RequestSet
    /\ NoAnswer.refresh = {} /\ NoCookies.refresh = None
    /\ NoRequest.jar = NoCookies /\ NoRequest.answer = NoAnswer /\ NoRequest.kind = "none"
    /\ NoRequest.at = 0
<1>1. NoCookies \in Cookies /\ NoCookies.refresh = None
  BY DEF NoCookies, Cookies, MaybeAccess, MaybeToken
<1>2. NoAnswer \in AnswerSet /\ NoAnswer.refresh = {}
  <2>1. Keep \in Setting /\ Keep \in AccessSetting /\ Keep \in CsrfSetting
    BY DEF Setting, AccessSetting, CsrfSetting
  <2>2. NoAnswer \in AnswerSet
    BY <2>1 DEF NoAnswer, AnswerSet, Status
  <2> QED BY <2>2 DEF NoAnswer, Keep
<1>3. NoRequest \in RequestSet
  BY <1>1, <1>2 DEF NoRequest, RequestSet, Kind
<1> QED BY <1>1, <1>2, <1>3 DEF NoRequest

----------------------------------------------------------------------------
\* The invariant

\* A token that some cookie holds has been minted by its session.
TokenOK(tk) ==
    tk # None => state[tk[1]] # "none" /\ tk[2] <= head[tk[1]]

\* ... answers to refreshes and logins alone carry tokens, those to logins
\* the first of a session, and no refresh deletes the cookie; and nothing is under way for too long.
RequestOK(r) ==
    /\ TokenOK(r.jar.refresh)
    /\ \A tk \in r.answer.refresh :
          /\ TokenOK(tk)
          /\ tk # None => r.kind \in {"refresh", "login"} /\ (r.kind = "login" => tk[2] = 1)
          /\ tk = None => r.kind # "refresh"
    /\ r.at <= now
    /\ r # NoRequest => now <= r.at + (IF r.answer = NoAnswer THEN RequestTime ELSE AnswerTime)

BaseInv ==
    /\ TypeInv /\ TokenOK(jar.refresh)
    /\ \A t \in Tab : RequestOK(net[t])
    /\ \A r \in adrift : RequestOK(r) /\ r.kind = "refresh" /\ r.answer = NoAnswer
    /\ \A tk \in spent : state[tk[1]] # "none" /\ tk[2] < head[tk[1]]
    /\ \A s \in Session : state[s] = "none" => head[s] = 0

\* The newest token of s is under way to tab t.
InFlight(s, t) == <<s, head[s]>> \in net[t].answer.refresh

OnlyNewest(s) ==
    \A t \in Tab, k \in Nat : <<s, k>> \in net[t].answer.refresh => k = head[s]

\* While it is, nobody has it yet.
Alone(s) ==
    \A t \in Tab : InFlight(s, t) =>
        /\ jar.refresh # <<s, head[s]>>
        /\ \A u \in Tab : net[u].jar.refresh # <<s, head[s]>>
        /\ \A r \in adrift : r.jar.refresh # <<s, head[s]>>
        /\ \A u \in Tab : InFlight(s, u) => u = t

\* The jar has the newest token, or the last one while that is under way.
JarClose(s) ==
    \A k \in Nat : jar.refresh = <<s, k>> =>
        \/ k = head[s]
        \/ /\ k + 1 = head[s] /\ <<s, k>> \in spent
           /\ \E t \in Tab : InFlight(s, t) /\ net[t].at = used_at[<<s, k>>]

\* Whoever sends a spent token did so before the next one had to be there.
SentInTime(s, r) ==
    \A k \in Nat : (r.jar.refresh = <<s, k>> /\ <<s, k>> \in spent) =>
        r.at <= used_at[<<s, k>>] + AnswerTime

Timely(s) ==
    /\ \A t \in Tab : net[t].kind = "refresh" => SentInTime(s, net[t])
    /\ \A r \in adrift : SentInTime(s, r)

Current(s) == state[s] = "live" /\ s \notin lost
Good(s) == Current(s) => OnlyNewest(s) /\ Alone(s) /\ JarClose(s) /\ Timely(s)

Inv == BaseInv /\ (\A s \in Session : Good(s)) /\ ReplayExplained

----------------------------------------------------------------------------
\* How a step changes the store

\* Sessions only come into being and chains only grow.
StoreGrows ==
    /\ StoreType'
    /\ \A s \in Session : (state[s] # "none" => state'[s] # "none") /\ head[s] <= head'[s]
    /\ \A tk \in spent' : state'[tk[1]] # "none" /\ tk[2] < head'[tk[1]]
    /\ \A s \in Session : state'[s] = "none" => head'[s] = 0

\* The store has nothing new about s, but that it may have ended.
SameChain(s) ==
    /\ Current(s)' => Current(s)
    /\ head'[s] = head[s]
    /\ \A k \in Nat : <<s, k>> \in spent' <=> <<s, k>> \in spent
    /\ \A k \in Nat : <<s, k>> \in spent => used_at'[<<s, k>>] = used_at[<<s, k>>]

LEMMA TokenKept ==
    ASSUME StoreType, StoreGrows, NEW tk \in MaybeToken, TokenOK(tk)
    PROVE  TokenOK(tk)'
<1>1. CASE tk = None
  BY <1>1 DEF TokenOK
<1>2. CASE tk \in Token
  <2>1. tk[1] \in Session /\ tk[2] \in Nat
    BY <1>2 DEF Token
  <2> QED BY <1>2, <2>1 DEF TokenOK, StoreGrows, StoreType
<1> QED BY <1>1, <1>2 DEF MaybeToken

\* A request's tokens, as far as the typing goes.
LEMMA RequestTokens ==
    ASSUME NEW r \in RequestSet
    PROVE  /\ r.jar.refresh \in MaybeToken /\ r.jar \in Cookies /\ r.answer \in AnswerSet
           /\ \A tk \in r.answer.refresh : tk \in MaybeToken
           /\ r.at \in Nat
BY DEF RequestSet, Cookies, AnswerSet, Setting, Keep

LEMMA RequestKept ==
    ASSUME TypeInv, StoreGrows, now' = now, NEW r \in RequestSet, RequestOK(r)
    PROVE  RequestOK(r)'
<1>1. \A tk \in MaybeToken : TokenOK(tk) => TokenOK(tk)'
  BY TokenKept DEF TypeInv
<1>2. /\ r.jar.refresh \in MaybeToken
      /\ \A tk \in r.answer.refresh : tk \in MaybeToken
  BY RequestTokens
<1> QED BY <1>1, <1>2 DEF RequestOK

\* The request of tab t becomes y, or stays.
LEMMA BaseStep ==
    ASSUME BaseInv, StoreGrows, now' = now,
           jar' \in Cookies, TokenOK(jar.refresh)', tab' \in [Tab -> TabSet],
           NEW t \in Tab, NEW y \in RequestSet, net' = [net EXCEPT ![t] = y], RequestOK(y)',
           \A r \in adrift' : r \in adrift \/ (r = net[t] /\ r.kind = "refresh" /\ r.answer = NoAnswer)
    PROVE  BaseInv'
<1>1. net \in [Tab -> RequestSet] /\ adrift \subseteq RequestSet /\ TypeInv
  BY DEF BaseInv, TypeInv
<1>2. net' \in [Tab -> RequestSet] /\ net'[t] = y /\ \A u \in Tab : u # t => net'[u] = net[u]
  <2> HIDE DEF RequestSet
  <2> QED BY <1>1
<1>3. adrift' \subseteq RequestSet
  BY <1>1
<1>4. TypeInv'
  BY <1>1, <1>2, <1>3 DEF TypeInv, StoreGrows
<1>5. ASSUME NEW r \in RequestSet, RequestOK(r) PROVE RequestOK(r)'
  BY <1>1, <1>5, RequestKept
<1>6. \A u \in Tab : RequestOK(net[u]) /\ net[u] \in RequestSet
  BY <1>1 DEF BaseInv
<1>7. ASSUME NEW u \in Tab PROVE RequestOK(net[u])'
  <2>1. CASE u = t
    BY <1>2, <2>1
  <2>2. CASE u # t
    <3>1. RequestOK(net[u]) /\ net[u] \in RequestSet /\ net'[u] = net[u]
      BY <1>2, <1>6, <2>2
    <3>2. ASSUME NEW r, r = net[u] PROVE RequestOK(r)'
      BY <1>5, <3>1, <3>2
    <3> QED BY <3>1, <3>2
  <2> QED BY <2>1, <2>2
<1>8. ASSUME NEW r \in adrift' PROVE (RequestOK(r) /\ r.kind = "refresh" /\ r.answer = NoAnswer)'
  BY <1>1, <1>5, <1>6 DEF BaseInv
<1> QED BY <1>4, <1>7, <1>8 DEF BaseInv, StoreGrows

----------------------------------------------------------------------------
\* How a step changes what is known of a session

\* A request is served, or drifts off, without a token of s.
LEMMA QuietGood ==
    ASSUME BaseInv, NEW s \in Session, Good(s), SameChain(s), jar' = jar, adrift' \subseteq adrift,
           NEW t \in Tab, NEW y, net' = [net EXCEPT ![t] = y],
           y.jar.refresh \in {None, net[t].jar.refresh},
           y.kind = "refresh" => y.jar.refresh = None,
           \A k \in Nat : <<s, k>> \notin y.answer.refresh /\ <<s, k>> \notin net[t].answer.refresh
    PROVE  Good(s)'
<1> SUFFICES ASSUME Current(s)' PROVE (OnlyNewest(s) /\ Alone(s) /\ JarClose(s) /\ Timely(s))'
  BY DEF Good
<1>0. /\ OnlyNewest(s) /\ Alone(s) /\ JarClose(s) /\ Timely(s)
      /\ head'[s] = head[s] /\ head[s] \in Nat
      /\ \A k \in Nat : <<s, k>> # None
  BY DEF Good, SameChain, BaseInv, TypeInv, StoreType, None
<1>1. net'[t] = y /\ \A u \in Tab : u # t => net'[u] = net[u]
  BY DEF BaseInv, TypeInv
<1>2. \A u \in Tab, k \in Nat :
          <<s, k>> \in net'[u].answer.refresh <=> <<s, k>> \in net[u].answer.refresh /\ u # t
  BY <1>1
<1>3. \A u \in Tab : (InFlight(s, u)' <=> InFlight(s, u)) /\ (InFlight(s, u) => u # t)
  BY <1>0, <1>2 DEF InFlight
<1>4. \A u \in Tab, k \in Nat : net'[u].jar.refresh = <<s, k>> => net[u].jar.refresh = <<s, k>>
  BY <1>0, <1>1
<1>5. OnlyNewest(s)'
  BY <1>0, <1>2 DEF OnlyNewest
<1>6. Alone(s)'
  BY <1>0, <1>3, <1>4 DEF Alone
<1>7. JarClose(s)'
  BY <1>0, <1>1, <1>3 DEF JarClose, SameChain
<1>8. Timely(s)'
  <2>1. ASSUME NEW u \in Tab, net'[u].kind = "refresh", NEW k \in Nat,
               net'[u].jar.refresh = <<s, k>>, <<s, k>> \in spent'
        PROVE  net'[u].at <= used_at'[<<s, k>>] + AnswerTime
    BY <1>0, <1>1, <2>1 DEF Timely, SentInTime, SameChain
  <2>2. ASSUME NEW r \in adrift', NEW k \in Nat, r.jar.refresh = <<s, k>>, <<s, k>> \in spent'
        PROVE  r.at <= used_at'[<<s, k>>] + AnswerTime
    BY <1>0, <2>2 DEF Timely, SentInTime, SameChain
  <2> QED BY <2>1, <2>2 DEF Timely, SentInTime
<1> QED BY <1>5, <1>6, <1>7, <1>8

\* Nothing but the store and the requests nobody waits for changes.
LEMMA StoreOnlyGood ==
    ASSUME BaseInv, NEW s \in Session, Good(s), SameChain(s), jar' = jar, net' = net,
           adrift' \subseteq adrift
    PROVE  Good(s)'
<1> SUFFICES ASSUME Current(s)' PROVE (OnlyNewest(s) /\ Alone(s) /\ JarClose(s) /\ Timely(s))'
  BY DEF Good
<1>0. /\ OnlyNewest(s) /\ Alone(s) /\ JarClose(s) /\ Timely(s) /\ head'[s] = head[s]
  BY DEF Good, SameChain
<1>1. \A u \in Tab : InFlight(s, u)' <=> InFlight(s, u)
  BY <1>0 DEF InFlight
<1>2. (OnlyNewest(s) /\ Alone(s))'
  BY <1>0, <1>1 DEF OnlyNewest, Alone
<1>3. JarClose(s)'
  BY <1>0, <1>1 DEF JarClose, SameChain
<1>4. Timely(s)'
  BY <1>0 DEF Timely, SentInTime, SameChain
<1> QED BY <1>2, <1>3, <1>4

\* A request with a spent token of the jar is in time when it is sent.
LEMMA JarInTime ==
    ASSUME BaseInv, NEW s \in Session, JarClose(s), NEW k \in Nat, jar.refresh = <<s, k>>,
           <<s, k>> \in spent
    PROVE  now <= used_at[<<s, k>>] + AnswerTime
<1>1. k < head[s]
  <2>1. <<s, k>>[1] = s /\ <<s, k>>[2] = k
    OBVIOUS
  <2> QED BY <2>1 DEF BaseInv
<1>2. k # head[s]
  BY <1>1 DEF BaseInv, TypeInv, StoreType
<1>3. PICK t \in Tab : InFlight(s, t) /\ net[t].at = used_at[<<s, k>>]
  BY <1>2 DEF JarClose
<1>4. net[t].answer # NoAnswer /\ net[t] # NoRequest
  BY <1>3, ConstantsTyped DEF InFlight
<1> QED BY <1>3, <1>4 DEF BaseInv, RequestOK

\* Tab t sends what the jar has, or nothing, and leaves what it waited for.
LEMMA SendGood ==
    ASSUME BaseInv, NEW s \in Session, Good(s), SameChain(s), jar'.refresh = jar.refresh,
           NEW t \in Tab, NEW y, net' = [net EXCEPT ![t] = y],
           y.answer = NoAnswer, y.at = now \/ y.jar.refresh = None,
           y.jar.refresh \in {None, jar.refresh},
           \A r \in adrift' : r \in adrift \/ (r = net[t] /\ r.kind = "refresh"),
           \A k \in Nat : <<s, k>> \in net[t].answer.refresh => s \in lost' \/ k = 1
    PROVE  Good(s)'
<1> SUFFICES ASSUME Current(s)' PROVE (OnlyNewest(s) /\ Alone(s) /\ JarClose(s) /\ Timely(s))'
  BY DEF Good
<1>0. /\ OnlyNewest(s) /\ Alone(s) /\ JarClose(s) /\ Timely(s)
      /\ head'[s] = head[s] /\ head[s] \in Nat /\ s \notin lost'
      /\ \A k \in Nat : <<s, k>> # None
  BY DEF Good, SameChain, BaseInv, TypeInv, StoreType, None, Current
<1>1. net'[t] = y /\ \A u \in Tab : u # t => net'[u] = net[u]
  BY DEF BaseInv, TypeInv
<1>2. \A u \in Tab, k \in Nat :
          <<s, k>> \in net'[u].answer.refresh <=> <<s, k>> \in net[u].answer.refresh /\ u # t
  BY <1>1, ConstantsTyped
<1>3. \A u \in Tab : InFlight(s, u)' <=> InFlight(s, u) /\ u # t
  BY <1>0, <1>2 DEF InFlight
<1>4. InFlight(s, t) => head[s] = 1
  BY <1>0 DEF InFlight
<1>5. \A u \in Tab, k \in Nat : net'[u].jar.refresh = <<s, k>> =>
          net[u].jar.refresh = <<s, k>> \/ jar.refresh = <<s, k>>
  <2>1. \A k \in Nat : y.jar.refresh = <<s, k>> => jar.refresh = <<s, k>>
    BY <1>0
  <2> QED BY <1>1, <2>1
<1>6. OnlyNewest(s)'
  BY <1>0, <1>2 DEF OnlyNewest
<1>7. Alone(s)'
  BY <1>0, <1>3, <1>5 DEF Alone
<1>8. JarClose(s)'
  <2>1. ASSUME NEW k \in Nat, jar.refresh = <<s, k>>, k # head[s]
        PROVE  /\ k + 1 = head[s] /\ <<s, k>> \in spent
               /\ \E u \in Tab : InFlight(s, u)' /\ net'[u].at = used_at[<<s, k>>]
    <3>1. PICK u \in Tab : /\ k + 1 = head[s] /\ <<s, k>> \in spent
                           /\ InFlight(s, u) /\ net[u].at = used_at[<<s, k>>]
      BY <1>0, <2>1 DEF JarClose
    <3>2. k # 0
      <4>1. jar.refresh \in MaybeToken
        BY DEF BaseInv, TypeInv, Cookies
      <4> QED BY <1>0, <2>1, <4>1 DEF MaybeToken, Token
    <3>3. u # t
      BY <1>4, <3>1, <3>2
    <3> QED BY <1>1, <1>3, <3>1, <3>3
  <2> QED BY <1>0, <2>1 DEF JarClose, SameChain
<1>9. Timely(s)'
  <2>1. ASSUME NEW u \in Tab, net'[u].kind = "refresh", NEW k \in Nat,
               net'[u].jar.refresh = <<s, k>>, <<s, k>> \in spent'
        PROVE  net'[u].at <= used_at'[<<s, k>>] + AnswerTime
    <3>1. CASE u # t
      BY <1>0, <1>1, <2>1, <3>1 DEF Timely, SentInTime, SameChain
    <3>2. CASE u = t
      <4>1. y.at = now /\ jar.refresh = <<s, k>> /\ <<s, k>> \in spent
        BY <1>0, <1>1, <2>1, <3>2 DEF SameChain
      <4>2. now <= used_at[<<s, k>>] + AnswerTime
        BY <1>0, <4>1, JarInTime
      <4> QED BY <1>1, <3>2, <4>1, <4>2 DEF SameChain
    <3> QED BY <3>1, <3>2
  <2>2. ASSUME NEW r \in adrift', NEW k \in Nat, r.jar.refresh = <<s, k>>, <<s, k>> \in spent'
        PROVE  r.at <= used_at'[<<s, k>>] + AnswerTime
    BY <1>0, <2>2 DEF Timely, SentInTime, SameChain
  <2> QED BY <2>1, <2>2 DEF Timely, SentInTime
<1> QED BY <1>6, <1>7, <1>8, <1>9

\* The answer to tab t sets the refresh cookie, and t goes on from there.
LEMMA JarSetGood ==
    ASSUME BaseInv, NEW s \in Session, Good(s), SameChain(s),
           NEW t \in Tab, NEW tk \in MaybeToken, net[t].answer.refresh = {tk}, jar'.refresh = tk,
           NEW y, net' = [net EXCEPT ![t] = y], y.answer = NoAnswer,
           y.jar.refresh \in {None, tk}, adrift' = adrift
    PROVE  Good(s)'
<1> SUFFICES ASSUME Current(s)' PROVE (OnlyNewest(s) /\ Alone(s) /\ JarClose(s) /\ Timely(s))'
  BY DEF Good
<1>0. /\ OnlyNewest(s) /\ Alone(s) /\ JarClose(s) /\ Timely(s)
      /\ head'[s] = head[s] /\ head[s] \in Nat
      /\ \A k \in Nat : <<s, k>> # None
  BY DEF Good, SameChain, BaseInv, TypeInv, StoreType, None
<1>1. net'[t] = y /\ \A u \in Tab : u # t => net'[u] = net[u]
  BY DEF BaseInv, TypeInv
<1>2. \A u \in Tab, k \in Nat :
          <<s, k>> \in net'[u].answer.refresh <=> <<s, k>> \in net[u].answer.refresh /\ u # t
  BY <1>1, ConstantsTyped
<1>3. \A u \in Tab : InFlight(s, u)' <=> InFlight(s, u) /\ u # t
  BY <1>0, <1>2 DEF InFlight
<1>4. \A k \in Nat : tk = <<s, k>> => k = head[s] /\ InFlight(s, t)
  BY <1>0 DEF OnlyNewest, InFlight
<1>5. <<s, head[s]>> \notin spent'
  <2>1. <<s, head[s]>>[1] = s /\ <<s, head[s]>>[2] = head[s]
    OBVIOUS
  <2>2. <<s, head[s]>> \notin spent
    BY <1>0, <2>1 DEF BaseInv
  <2> QED BY <1>0, <2>2 DEF SameChain
<1>6. OnlyNewest(s)'
  BY <1>0, <1>2 DEF OnlyNewest
<1>7. Alone(s)'
  <2>1. ASSUME NEW u \in Tab, InFlight(s, u)' PROVE tk # <<s, head[s]>> /\ InFlight(s, u)
    BY <1>0, <1>3, <1>4, <2>1 DEF Alone
  <2>2. ASSUME NEW u \in Tab, InFlight(s, u)', NEW v \in Tab
        PROVE  net'[v].jar.refresh # <<s, head[s]>>
    BY <1>0, <1>1, <2>1, <2>2 DEF Alone
  <2> QED BY <1>0, <1>3, <2>1, <2>2 DEF Alone
<1>8. JarClose(s)'
  BY <1>0, <1>4 DEF JarClose
<1>9. Timely(s)'
  <2>1. ASSUME NEW u \in Tab, net'[u].kind = "refresh", NEW k \in Nat,
               net'[u].jar.refresh = <<s, k>>, <<s, k>> \in spent'
        PROVE  net'[u].at <= used_at'[<<s, k>>] + AnswerTime
    <3>1. u # t
      BY <1>0, <1>1, <1>4, <1>5, <2>1
    <3> QED BY <1>0, <1>1, <2>1, <3>1 DEF Timely, SentInTime, SameChain
  <2>2. ASSUME NEW r \in adrift', NEW k \in Nat, r.jar.refresh = <<s, k>>, <<s, k>> \in spent'
        PROVE  r.at <= used_at'[<<s, k>>] + AnswerTime
    BY <1>0, <2>2 DEF Timely, SentInTime, SameChain
  <2> QED BY <2>1, <2>2 DEF Timely, SentInTime
<1> QED BY <1>6, <1>7, <1>8, <1>9

\* The store redeems the newest token of s.
Redeemed(s) ==
    /\ head' = [head EXCEPT ![s] = @ + 1] /\ head[s] > 0 /\ state[s] = "live" /\ state' = state
    /\ spent' = spent \cup {<<s, head[s]>>}
    /\ used_at' = [token \in spent' |-> IF token \in spent THEN used_at[token] ELSE now]
    /\ <<s, head[s]>> \notin spent

LEMMA RedeemGood ==
    ASSUME BaseInv, NEW s \in Session, Good(s), Redeemed(s), lost' = lost,
           jar' = jar, adrift' = adrift,
           NEW t \in Tab, net[t].jar.refresh = <<s, head[s]>>,
           NEW y, net' = [net EXCEPT ![t] = y], y.answer.refresh = {<<s, head[s] + 1>>},
           y.at = now, y.jar.refresh = None
    PROVE  Good(s)'
<1> SUFFICES ASSUME Current(s)' PROVE (OnlyNewest(s) /\ Alone(s) /\ JarClose(s) /\ Timely(s))'
  BY DEF Good
<1>0. /\ OnlyNewest(s) /\ Alone(s) /\ JarClose(s) /\ Timely(s)
      /\ head[s] \in Nat /\ head'[s] = head[s] + 1 /\ now \in Nat
      /\ \A k \in Nat : <<s, k>> # None
  BY DEF Good, Current, Redeemed, BaseInv, TypeInv, StoreType, None
<1>1. net'[t] = y /\ \A u \in Tab : u # t => net'[u] = net[u]
  BY DEF BaseInv, TypeInv
<1>2. ASSUME NEW u \in Tab PROVE ~ InFlight(s, u)
  BY <1>0 DEF Alone
<1>3. \A u \in Tab, k \in Nat : <<s, k>> \notin net[u].answer.refresh
  BY <1>0, <1>2 DEF OnlyNewest, InFlight
<1>4. \A u \in Tab, k \in Nat :
          <<s, k>> \in net'[u].answer.refresh <=> u = t /\ k = head[s] + 1
  BY <1>0, <1>1, <1>3
<1>5. \A u \in Tab : InFlight(s, u)' <=> u = t
  <2>1. head'[s] \in Nat
    BY <1>0
  <2> QED BY <1>0, <1>4, <2>1 DEF InFlight
<1>6. /\ \A k \in Nat : jar.refresh = <<s, k>> => k <= head[s]
      /\ \A u \in Tab, k \in Nat : net[u].jar.refresh = <<s, k>> => k <= head[s]
      /\ \A r \in adrift, k \in Nat : r.jar.refresh = <<s, k>> => k <= head[s]
  <2>1. ASSUME NEW tk, TokenOK(tk), NEW k \in Nat, tk = <<s, k>> PROVE k <= head[s]
    BY <1>0, <2>1 DEF TokenOK
  <2> QED BY <2>1 DEF BaseInv, RequestOK
<1>7. OnlyNewest(s)'
  BY <1>0, <1>4 DEF OnlyNewest
<1>8. Alone(s)'
  <2>1. head[s] + 1 \in Nat /\ ~ (head[s] + 1 <= head[s])
    BY <1>0
  <2>2. jar'.refresh # <<s, head[s] + 1>>
    BY <1>6, <2>1
  <2>3. ASSUME NEW u \in Tab PROVE net'[u].jar.refresh # <<s, head[s] + 1>>
    BY <1>0, <1>1, <1>6, <2>1
  <2>4. ASSUME NEW r \in adrift' PROVE r.jar.refresh # <<s, head[s] + 1>>
    BY <1>6, <2>1
  <2> QED BY <1>0, <1>5, <2>2, <2>3, <2>4 DEF Alone
<1>9. \A k \in Nat : <<s, k>> \in spent' <=> <<s, k>> \in spent \/ k = head[s]
  BY <1>0 DEF Redeemed
<1>10. /\ used_at'[<<s, head[s]>>] = now
       /\ \A k \in Nat : <<s, k>> \in spent => used_at'[<<s, k>>] = used_at[<<s, k>>]
  BY <1>0, <1>9 DEF Redeemed
<1>11. JarClose(s)'
  <2>1. ASSUME NEW k \in Nat, jar.refresh = <<s, k>> PROVE k = head[s]
    BY <1>0, <1>2, <2>1 DEF JarClose
  <2>2. ASSUME NEW k \in Nat, jar'.refresh = <<s, k>>
        PROVE  /\ k + 1 = head'[s] /\ <<s, k>> \in spent'
               /\ InFlight(s, t)' /\ net'[t].at = used_at'[<<s, k>>]
    BY <1>0, <1>1, <1>5, <1>9, <1>10, <2>1, <2>2
  <2> QED BY <2>2 DEF JarClose
<1>12. Timely(s)'
  <2>1. ASSUME NEW r, r \in adrift \/ (\E u \in Tab : r = net[u] /\ r.kind = "refresh"),
               NEW k \in Nat, r.jar.refresh = <<s, k>>, <<s, k>> \in spent'
        PROVE  r.at <= used_at'[<<s, k>>] + AnswerTime
    <3>1. r.at <= now /\ r.at \in Nat
      BY <2>1, RequestTokens DEF BaseInv, RequestOK, TypeInv
    <3>2. CASE k = head[s]
      BY <1>0, <1>10, <3>1, <3>2, TransitAssumption
    <3>3. CASE k # head[s]
      BY <1>0, <1>9, <1>10, <2>1, <3>3 DEF Timely, SentInTime
    <3> QED BY <3>2, <3>3
  <2>2. ASSUME NEW u \in Tab, net'[u].kind = "refresh", NEW k \in Nat,
               net'[u].jar.refresh = <<s, k>>, <<s, k>> \in spent'
        PROVE  net'[u].at <= used_at'[<<s, k>>] + AnswerTime
    <3>1. u # t
      BY <1>0, <1>1, <2>2
    <3> QED BY <1>1, <2>1, <2>2, <3>1
  <2>3. ASSUME NEW r \in adrift', NEW k \in Nat, r.jar.refresh = <<s, k>>, <<s, k>> \in spent'
        PROVE  r.at <= used_at'[<<s, k>>] + AnswerTime
    BY <2>1, <2>3
  <2> QED BY <2>2, <2>3 DEF Timely, SentInTime
<1> QED BY <1>7, <1>8, <1>11, <1>12

\* A login opens session s and sends its first token.
LEMMA OpenGood ==
    ASSUME BaseInv, NEW s \in Session, state[s] = "none", head' = [head EXCEPT ![s] = 1],
           spent' = spent, jar' = jar, adrift' = adrift,
           NEW t \in Tab, NEW y, net' = [net EXCEPT ![t] = y],
           y.answer.refresh = {<<s, 1>>}, y.jar.refresh = None
    PROVE  Good(s)'
<1>0. head[s] \in Nat /\ head'[s] = 1 /\ \A k \in Nat : <<s, k>> # None
  BY DEF BaseInv, TypeInv, StoreType, None
<1>1. net'[t] = y /\ \A u \in Tab : u # t => net'[u] = net[u]
  BY DEF BaseInv, TypeInv
<1>2. ASSUME NEW tk, TokenOK(tk), NEW k \in Nat PROVE tk # <<s, k>>
  BY <1>0, <1>2 DEF TokenOK
<1>3. /\ \A k \in Nat : jar.refresh # <<s, k>> /\ <<s, k>> \notin spent
      /\ \A u \in Tab, k \in Nat : net[u].jar.refresh # <<s, k>> /\ <<s, k>> \notin net[u].answer.refresh
      /\ \A r \in adrift, k \in Nat : r.jar.refresh # <<s, k>>
  <2>1. ASSUME NEW k \in Nat PROVE <<s, k>> \notin spent
    <3>1. <<s, k>>[1] = s
      OBVIOUS
    <3> QED BY <3>1 DEF BaseInv
  <2>2. \A k \in Nat : jar.refresh # <<s, k>>
    BY <1>2 DEF BaseInv
  <2>3. ASSUME NEW r, RequestOK(r), NEW k \in Nat
        PROVE  r.jar.refresh # <<s, k>> /\ <<s, k>> \notin r.answer.refresh
    <3>1. TokenOK(r.jar.refresh) /\ \A tk \in r.answer.refresh : TokenOK(tk)
      BY <2>3 DEF RequestOK
    <3> QED BY <1>2, <3>1
  <2>4. (\A u \in Tab : RequestOK(net[u])) /\ \A r \in adrift : RequestOK(r)
    BY DEF BaseInv
  <2>5. \A u \in Tab, k \in Nat : net[u].jar.refresh # <<s, k>> /\ <<s, k>> \notin net[u].answer.refresh
    BY <2>3, <2>4
  <2>6. \A r \in adrift, k \in Nat : r.jar.refresh # <<s, k>>
    BY <2>3, <2>4
  <2> QED BY <2>1, <2>2, <2>5, <2>6
<1>4. \A u \in Tab, k \in Nat : <<s, k>> \in net'[u].answer.refresh <=> u = t /\ k = 1
  BY <1>1, <1>3
<1>5. \A u \in Tab : InFlight(s, u)' <=> u = t
  BY <1>0, <1>4 DEF InFlight
<1>6. \A u \in Tab, k \in Nat : net'[u].jar.refresh # <<s, k>>
  BY <1>0, <1>1, <1>3
<1>7. OnlyNewest(s)'
  BY <1>0, <1>4 DEF OnlyNewest
<1>8. Alone(s)'
  <2>1. jar'.refresh # <<s, 1>> /\ \A r \in adrift' : r.jar.refresh # <<s, 1>>
    BY <1>3
  <2>2. \A u \in Tab : net'[u].jar.refresh # <<s, 1>>
    BY <1>6
  <2> QED BY <1>0, <1>5, <2>1, <2>2 DEF Alone
<1>9. JarClose(s)'
  BY <1>3 DEF JarClose
<1>10. Timely(s)'
  BY <1>3, <1>6 DEF Timely, SentInTime
<1> QED BY <1>7, <1>8, <1>9, <1>10 DEF Good

----------------------------------------------------------------------------
\* The steps of the store

LEMMA StoreSame ==
    ASSUME BaseInv, UNCHANGED chainVars, used_at' = used_at,
           lost \subseteq lost', lost' \subseteq Session, replayed' = replayed
    PROVE  StoreGrows /\ \A s \in Session : SameChain(s)
<1>1. state' = state /\ head' = head /\ spent' = spent
  BY DEF chainVars
<1>2. StoreGrows
  BY <1>1 DEF StoreGrows, StoreType, BaseInv, TypeInv
<1>3. \A s \in Session : SameChain(s)
  BY <1>1 DEF SameChain, Current
<1> QED BY <1>2, <1>3

LEMMA CloseStore ==
    ASSUME BaseInv, NEW S \in SUBSET Session, Chain!Close(S), used_at' = used_at, lost' = lost,
           replayed' \subseteq Session
    PROVE  StoreGrows /\ \A s \in Session : SameChain(s)
<1>1. /\ state' = [s \in Session |-> IF s \in S THEN "gone" ELSE state[s]]
      /\ head' = head /\ spent' = spent
  BY DEF Chain!Close
<1>2. StoreType'
  BY <1>1 DEF StoreType, BaseInv, TypeInv
<1>3. StoreGrows
  <2>1. \A tk \in spent : tk[1] \in Session
    BY DEF BaseInv, TypeInv, StoreType, Token
  <2> QED BY <1>1, <1>2, <2>1 DEF StoreGrows, StoreType, BaseInv, TypeInv
<1>4. \A s \in Session : SameChain(s)
  BY <1>1 DEF SameChain, Current
<1> QED BY <1>3, <1>4

LEMMA OpenStore ==
    ASSUME BaseInv, NEW s \in Session, Chain!Open(s, 1), UNCHANGED <<used_at, lost, replayed>>
    PROVE  StoreGrows /\ \A q \in Session : q # s => SameChain(q)
<1>1. /\ state[s] = "none" /\ state' = [state EXCEPT ![s] = "live"]
      /\ head' = [head EXCEPT ![s] = 1] /\ spent' = spent
      /\ state \in [Session -> {"none", "live", "gone"}] /\ head \in [Session -> Nat]
  BY DEF Chain!Open, BaseInv, TypeInv, StoreType
<1>2. StoreType'
  BY <1>1 DEF StoreType, BaseInv, TypeInv
<1>3. ASSUME NEW tk \in spent PROVE tk[1] # s /\ tk[1] \in Session
  BY <1>1 DEF BaseInv, TypeInv, StoreType, Token
<1>4. \A q \in Session : q # s => state'[q] = state[q] /\ head'[q] = head[q]
  BY <1>1
<1>a. state'[s] = "live" /\ head'[s] = 1
  BY <1>1
<1>5. \A tk \in spent' : state'[tk[1]] # "none" /\ tk[2] < head'[tk[1]]
  BY <1>1, <1>3, <1>4 DEF BaseInv
<1>6. head[s] <= 1
  BY <1>1 DEF BaseInv
<1>7. StoreGrows
  <2>1. \A q \in Session : (state[q] # "none" => state'[q] # "none") /\ head[q] <= head'[q]
    BY <1>1, <1>4, <1>6, <1>a
  <2>2. \A q \in Session : state'[q] = "none" => head'[q] = 0
    BY <1>4, <1>a DEF BaseInv
  <2> QED BY <1>2, <1>5, <2>1, <2>2 DEF StoreGrows
<1>8. \A q \in Session : q # s => SameChain(q)
  BY <1>1, <1>4 DEF SameChain, Current
<1> QED BY <1>7, <1>8

LEMMA RotateStore ==
    ASSUME BaseInv, NEW r \in RequestSet, NEW s \in Session, Rotate(r, s),
           lost \subseteq lost', lost' \subseteq Session
    PROVE  /\ Redeemed(s) /\ StoreGrows /\ r.jar.refresh = <<s, head[s]>>
           /\ \A q \in Session : q # s => SameChain(q)
<1>1. /\ state[s] = "live" /\ head[s] > 0 /\ <<s, head[s]>> \notin spent
      /\ spent' = spent \cup {<<s, head[s]>>} /\ head' = [head EXCEPT ![s] = @ + 1]
      /\ state' = state /\ replayed' = replayed
      /\ used_at' = [token \in spent' |-> IF token \in spent THEN used_at[token] ELSE now]
  BY DEF Rotate, Chain!Redeem
<1>2. r.jar.refresh = <<s, head[s]>>
  <2>1. r.jar.refresh \in MaybeToken /\ r.jar.refresh # None
        /\ r.jar.refresh[1] = s /\ r.jar.refresh[2] = head[s]
    BY RequestTokens DEF Rotate, Rotates, Presents
  <2> QED BY <2>1 DEF MaybeToken, Token
<1>3. /\ state \in [Session -> {"none", "live", "gone"}] /\ head \in [Session -> Nat]
      /\ spent \subseteq Token /\ used_at \in [spent -> Nat] /\ now \in Nat
  BY DEF BaseInv, TypeInv, StoreType
<1>4. head'[s] = head[s] + 1 /\ \A q \in Session : q # s => head'[q] = head[q]
  BY <1>1, <1>3
<1>5. StoreType'
  <2>1. <<s, head[s]>> \in Token
    BY <1>1, <1>3 DEF Token
  <2>2. spent' \subseteq Token /\ used_at' \in [spent' -> Nat]
    BY <1>1, <1>3, <2>1
  <2>3. head' \in [Session -> Nat]
    BY <1>1, <1>3
  <2> QED BY <1>1, <1>3, <2>2, <2>3 DEF StoreType, BaseInv, TypeInv
<1>6. ASSUME NEW tk \in spent' PROVE state'[tk[1]] # "none" /\ tk[2] < head'[tk[1]]
  <2>1. CASE tk \in spent
    <3>1. tk[1] \in Session /\ tk[2] \in Nat /\ tk[2] < head[tk[1]] /\ state[tk[1]] # "none"
      BY <1>3, <2>1 DEF BaseInv, Token
    <3> QED BY <1>1, <1>3, <1>4, <3>1
  <2>2. CASE tk = <<s, head[s]>>
    BY <1>1, <1>3, <1>4, <2>2
  <2> QED BY <1>1, <2>1, <2>2
<1>7. StoreGrows
  <2>1. \A q \in Session : state'[q] = "none" => head'[q] = 0
    BY <1>1, <1>4 DEF BaseInv
  <2> QED BY <1>1, <1>3, <1>4, <1>5, <1>6, <2>1 DEF StoreGrows
<1>8. ASSUME NEW q \in Session, q # s PROVE SameChain(q)
  <2>1. \A k \in Nat : <<q, k>> # <<s, head[s]>>
    BY <1>8
  <2>2. \A k \in Nat : <<q, k>> \in spent' <=> <<q, k>> \in spent
    BY <1>1, <2>1
  <2>3. \A k \in Nat : <<q, k>> \in spent => used_at'[<<q, k>>] = used_at[<<q, k>>]
    BY <1>1
  <2> QED BY <1>1, <1>4, <1>8, <2>2, <2>3 DEF SameChain, Current
<1> QED BY <1>1, <1>2, <1>7, <1>8 DEF Redeemed

----------------------------------------------------------------------------
\* The servers

LEMMA AnswerMakes ==
    ASSUME TypeInv, NEW t \in Tab, NEW status \in Status, NEW a \in AccessSetting,
           NEW r \in Setting, NEW c \in CsrfSetting, AnswerWith(t, status, a, r, c)
    PROVE  \E y \in RequestSet :
              /\ net' = [net EXCEPT ![t] = y] /\ y.kind = net[t].kind /\ y.at = now
              /\ y.jar = NoCookies /\ y.answer.refresh = r
<1> DEFINE ans == [status |-> status, access |-> a, refresh |-> r, csrf |-> c]
           y == [net[t] EXCEPT !.at = now, !.jar = NoCookies, !.header = 0, !.answer = ans]
<1>1. net[t] \in RequestSet /\ now \in Nat /\ NoCookies \in Cookies
  BY ConstantsTyped DEF TypeInv
<1>2. ans \in AnswerSet /\ ans.refresh = r
  BY DEF AnswerSet
<1>3. net' = [net EXCEPT ![t].at = now, ![t].jar = NoCookies, ![t].header = 0, ![t].answer = ans]
  BY DEF AnswerWith
<1> HIDE DEF ans
<1>4. /\ y \in RequestSet
      /\ y.kind = net[t].kind /\ y.at = now /\ y.jar = NoCookies /\ y.answer = ans
  BY <1>1, <1>2 DEF RequestSet
<1>5. net \in [Tab -> RequestSet]
  BY DEF TypeInv
<1> HIDE DEF RequestSet
<1>6. net' = [net EXCEPT ![t] = y]
  BY <1>3, <1>5
<1> QED BY <1>2, <1>4, <1>6

LEMMA ServedOK ==
    ASSUME BaseInv, now' = now, NEW y \in RequestSet, y.at = now, y.jar = NoCookies,
           \A tk \in y.answer.refresh :
              /\ TokenOK(tk)'
              /\ tk # None => y.kind \in {"refresh", "login"} /\ (y.kind = "login" => tk[2] = 1)
              /\ tk = None => y.kind # "refresh"
    PROVE  RequestOK(y)'
BY ConstantsTyped, TransitAssumption DEF RequestOK, TokenOK, BaseInv, TypeInv

\* A request is answered, and the refresh cookie is left alone or deleted.
LEMMA ServeQuiet ==
    ASSUME Inv, NEW t \in Tab, net[t].answer = NoAnswer,
           NEW status \in Status, NEW a \in AccessSetting,
           NEW r \in {Keep, {None}}, r = Keep \/ net[t].kind # "refresh",
           NEW c \in CsrfSetting, AnswerWith(t, status, a, r, c),
           UNCHANGED <<now, jar, tab, adrift>>, StoreGrows, ReplayExplained',
           \A s \in Session : SameChain(s) \/ s \in lost'
    PROVE  Inv'
<1>1. r \in Setting /\ \A tk \in r : tk = None /\ net[t].kind # "refresh"
  BY DEF Setting, Keep, MaybeToken
<1>2. PICK y \in RequestSet :
              /\ net' = [net EXCEPT ![t] = y] /\ y.kind = net[t].kind /\ y.at = now
              /\ y.jar = NoCookies /\ y.answer.refresh = r
  BY <1>1, AnswerMakes DEF Inv, BaseInv
<1>3. RequestOK(y)'
  BY <1>1, <1>2, ServedOK DEF Inv, TokenOK
<1>4. TokenOK(jar.refresh)'
  <2>1. jar.refresh \in MaybeToken /\ TokenOK(jar.refresh)
    BY DEF Inv, BaseInv, TypeInv, Cookies
  <2>2. ASSUME NEW tk, tk = jar.refresh PROVE TokenOK(tk)'
    BY <2>1, <2>2, TokenKept DEF Inv, BaseInv, TypeInv
  <2> QED BY <2>2
<1>5. BaseInv'
  BY <1>2, <1>3, <1>4, BaseStep DEF Inv, BaseInv, TypeInv
<1>6. \A s \in Session, k \in Nat : <<s, k>> # None
  BY DEF None
<1>7. ASSUME NEW s \in Session PROVE Good(s)'
  <2>1. CASE s \in lost'
    BY <2>1 DEF Good, Current
  <2>2. CASE SameChain(s)
    <3>1. \A k \in Nat : <<s, k>> \notin y.answer.refresh /\ <<s, k>> \notin net[t].answer.refresh
      BY <1>1, <1>2, <1>6, ConstantsTyped
    <3> QED BY <1>2, <2>2, <3>1, QuietGood, ConstantsTyped DEF Inv
  <2> QED BY <2>1, <2>2
<1> QED BY <1>5, <1>7 DEF Inv

LEMMA StoreVarsSame ==
    ASSUME Inv, UNCHANGED storeVars
    PROVE  StoreGrows /\ ReplayExplained' /\ \A s \in Session : SameChain(s)
<1>1. UNCHANGED chainVars /\ used_at' = used_at /\ lost' = lost /\ replayed' = replayed
  BY DEF storeVars
<1>2. ReplayExplained'
  BY <1>1 DEF Inv, ReplayExplained
<1> QED BY <1>1, <1>2, StoreSame DEF Inv, BaseInv, TypeInv, StoreType

LEMMA SettingsTyped ==
    /\ Keep \in AccessSetting /\ {None} \in AccessSetting /\ Keep \in CsrfSetting
    /\ Keep \in Setting /\ {None} \in Setting
BY DEF AccessSetting, CsrfSetting, Setting, MaybeAccess, MaybeToken

\* The requests that do not reach the session store.
LEMMA PageServed ==
    ASSUME Inv, NEW t \in Tab,
           ServeMe(t) \/ ServeLoginPage(t) \/ ServeCsrf(t) \/ ServeCall(t)
    PROVE  Inv'
<1>1. UNCHANGED <<now, storeVars, jar, tab, adrift>> /\ net[t].answer = NoAnswer
  BY DEF ServeMe, ServeLoginPage, ServeCsrf, ServeCall, Unserved
<1>2. PICK status \in Status, a \in AccessSetting, c \in CsrfSetting : AnswerWith(t, status, a, Keep, c)
  <2>1. CASE ServeMe(t)
    BY <2>1, SettingsTyped DEF ServeMe, Answer, redirect_unauthorized, Status
  <2>2. CASE ServeLoginPage(t)
    BY <2>2, SettingsTyped DEF ServeLoginPage, Answer, Status
  <2>3. CASE ServeCsrf(t)
    <3>1. PICK n \in Nat : AnswerWith(t, "ok", Keep, Keep, {n})
      <4>1. PICK fresh \in 1 .. (3 * Cardinality(Tab) + 2) : AnswerWith(t, "ok", Keep, Keep, {fresh})
        BY <2>3 DEF ServeCsrf
      <4>2. fresh \in Nat
        OBVIOUS
      <4> QED BY <4>1, <4>2
    <3> QED BY <3>1, SettingsTyped DEF Status, CsrfSetting
  <2>4. CASE ServeCall(t)
    BY <2>4, SettingsTyped DEF ServeCall, Answer, Status
  <2> QED BY <2>1, <2>2, <2>3, <2>4
<1> QED BY <1>1, <1>2, StoreVarsSame, ServeQuiet

LEMMA JarKept ==
    ASSUME Inv, StoreGrows, jar' = jar
    PROVE  TokenOK(jar.refresh)' /\ jar' \in Cookies
<1>1. jar.refresh \in MaybeToken /\ TokenOK(jar.refresh) /\ jar \in Cookies
  BY DEF Inv, BaseInv, TypeInv, Cookies
<1>2. ASSUME NEW tk, tk = jar.refresh PROVE TokenOK(tk)'
  BY <1>1, <1>2, TokenKept DEF Inv, BaseInv, TypeInv
<1> QED BY <1>1, <1>2

\* A document whose token is valid goes on to auth, as the same request.
LEMMA DocumentServed ==
    ASSUME Inv, NEW t \in Tab, ServeDocument(t)
    PROVE  Inv'
<1>1. UNCHANGED <<now, storeVars, jar, tab, adrift>> /\ net[t].answer = NoAnswer
      /\ net[t].kind = "document"
  BY DEF ServeDocument, Unserved
<1>2. StoreGrows /\ ReplayExplained' /\ \A s \in Session : SameChain(s)
  BY <1>1, StoreVarsSame
<1>3. ASSUME NEW status \in Status, Answer(t, status) PROVE Inv'
  <2>1. AnswerWith(t, status, Keep, Keep, Keep)
    BY <1>3 DEF Answer
  <2> QED BY <1>1, <1>2, <2>1, ServeQuiet, SettingsTyped
<1>4. CASE net' = [net EXCEPT ![t].kind = "me", ![t].at = now]
  <2>1. net \in [Tab -> RequestSet] /\ net[t] \in RequestSet /\ now \in Nat /\ RequestOK(net[t])
    BY DEF Inv, BaseInv, TypeInv
  <2>2. PICK y \in RequestSet :
            /\ net' = [net EXCEPT ![t] = y] /\ y.kind = "me" /\ y.at = now
            /\ y.jar = net[t].jar /\ y.answer = NoAnswer
    <3> DEFINE z == [net[t] EXCEPT !.kind = "me", !.at = now]
    <3>1. /\ z \in RequestSet /\ z.kind = "me" /\ z.at = now
          /\ z.jar = net[t].jar /\ z.answer = NoAnswer
      BY <1>1, <2>1 DEF RequestSet, Kind
    <3>2. net' = [net EXCEPT ![t] = z]
      BY <1>4, <2>1
    <3> QED BY <3>1, <3>2
  <2>4. RequestOK(y)'
    <3>1. net[t].jar.refresh \in MaybeToken /\ TokenOK(net[t].jar.refresh)
      BY <2>1, RequestTokens DEF RequestOK
    <3>2. ASSUME NEW tk, tk = net[t].jar.refresh PROVE TokenOK(tk)'
      BY <1>2, <3>1, <3>2, TokenKept DEF Inv, BaseInv, TypeInv
    <3>3. TokenOK(y.jar.refresh)'
      BY <2>2, <3>2
    <3> QED BY <1>1, <2>1, <2>2, <3>3, ConstantsTyped, TransitAssumption DEF RequestOK
  <2>5. BaseInv'
    BY <1>1, <1>2, <2>2, <2>4, JarKept, BaseStep DEF Inv, BaseInv, TypeInv
  <2>6. ASSUME NEW s \in Session PROVE Good(s)'
    <3>1. \A k \in Nat : <<s, k>> \notin y.answer.refresh /\ <<s, k>> \notin net[t].answer.refresh
      BY <1>1, <2>2, ConstantsTyped
    <3> QED BY <1>1, <1>2, <2>2, <3>1, QuietGood DEF Inv
  <2> QED BY <1>2, <2>5, <2>6 DEF Inv
<1> QED BY <1>3, <1>4 DEF ServeDocument, Status

\* A session is torn down as replayed only when an answer of it was lost: a
\* request that could not know the next token comes within the grace.
LEMMA ReplayIsLoss ==
    ASSUME Inv, NEW r \in RequestSet, NEW s \in Session, TearDown(r, s), RequestOK(r),
           r.kind = "refresh", r.answer = NoAnswer, Current(s) => SentInTime(s, r)
    PROVE  s \in lost
<1> SUFFICES ASSUME s \notin lost PROVE FALSE
  OBVIOUS
<1>1. /\ state[s] = "live" /\ r.jar.refresh \in spent /\ r.jar.refresh[1] = s
      /\ ~ (now - used_at[r.jar.refresh] <= Grace)
  BY DEF TearDown, Replays, Reuses, Presents, within_grace
<1>2. PICK k \in Nat : r.jar.refresh = <<s, k>> /\ <<s, k>> \in spent
  <2>1. r.jar.refresh \in Token
    BY <1>1 DEF Inv, BaseInv, TypeInv, StoreType
  <2> QED BY <1>1, <2>1 DEF Token
<1>3. r.at <= used_at[<<s, k>>] + AnswerTime
  BY <1>1, <1>2 DEF Current, SentInTime
<1>4. now <= r.at + RequestTime
  <2>1. r # NoRequest
    BY ConstantsTyped
  <2> QED BY <2>1 DEF RequestOK
<1>5. r.at \in Nat /\ now \in Nat /\ used_at[<<s, k>>] \in Nat
  BY <1>2, RequestTokens DEF Inv, BaseInv, TypeInv, StoreType
<1> QED BY <1>1, <1>2, <1>3, <1>4, <1>5, TransitAssumption

LEMMA TearDownStore ==
    ASSUME Inv, NEW r \in RequestSet, NEW s \in Session, TearDown(r, s), RequestOK(r),
           r.kind = "refresh", r.answer = NoAnswer, Current(s) => SentInTime(s, r)
    PROVE  StoreGrows /\ ReplayExplained' /\ \A q \in Session : SameChain(q)
<1>1. s \in lost
  BY ReplayIsLoss
<1>2. /\ Chain!Close({s}) /\ replayed' = replayed \cup {s} /\ used_at' = used_at /\ lost' = lost
  BY DEF TearDown
<1>3. ReplayExplained' /\ replayed' \subseteq Session
  BY <1>1, <1>2 DEF Inv, ReplayExplained, BaseInv, TypeInv, StoreType
<1> QED BY <1>2, <1>3, CloseStore DEF Inv

\* The token is rotated and the answer with the next one is lost.
LEMMA RotateLost ==
    ASSUME Inv, NEW r \in RequestSet, NEW s \in Session, Rotate(r, s), lost' = lost \cup {s}
    PROVE  StoreGrows /\ ReplayExplained' /\ \A q \in Session : SameChain(q) \/ q \in lost'
<1>1. lost \subseteq lost' /\ lost' \subseteq Session
  BY DEF Inv, BaseInv, TypeInv, StoreType
<1>2. StoreGrows /\ \A q \in Session : q # s => SameChain(q)
  BY <1>1, RotateStore DEF Inv
<1>3. ReplayExplained'
  BY DEF Rotate, Inv, ReplayExplained
<1> QED BY <1>2, <1>3

\* The token is rotated and the answer with the next one is under way.
LEMMA RotateAnswered ==
    ASSUME Inv, NEW t \in Tab, NEW s \in Session, Rotate(net[t], s), lost' = lost,
           net[t].kind = "refresh", net[t].answer = NoAnswer,
           NEW a \in AccessSetting, NEW c \in CsrfSetting,
           AnswerWith(t, "ok", a, {<<s, head[s] + 1>>}, c),
           UNCHANGED <<now, jar, tab, adrift>>
    PROVE  Inv'
<1>1. net[t] \in RequestSet /\ head[s] \in Nat /\ lost' \subseteq Session /\ lost \subseteq lost'
  BY DEF Inv, BaseInv, TypeInv, StoreType
<1>2. /\ Redeemed(s) /\ StoreGrows /\ net[t].jar.refresh = <<s, head[s]>>
      /\ \A q \in Session : q # s => SameChain(q)
  BY <1>1, RotateStore DEF Inv
<1>n. PICK new : new = <<s, head[s] + 1>>
  OBVIOUS
<1>3. new \in Token /\ {new} \in Setting /\ new # None
  BY <1>1, <1>n DEF Token, Setting, MaybeToken, None
<1>4. PICK y \in RequestSet :
              /\ net' = [net EXCEPT ![t] = y] /\ y.kind = net[t].kind /\ y.at = now
              /\ y.jar = NoCookies /\ y.answer.refresh = {new}
  BY <1>3, <1>n, AnswerMakes DEF Inv, BaseInv, Status
<1>5. TokenOK(new)'
  <2>1. state'[s] # "none" /\ head'[s] = head[s] + 1
    BY <1>1, <1>2 DEF Redeemed, Inv, BaseInv, TypeInv, StoreType
  <2> QED BY <1>1, <1>n, <2>1 DEF TokenOK
<1>6. RequestOK(y)'
  BY <1>1, <1>3, <1>4, <1>5, ServedOK DEF Inv
<1>7. BaseInv'
  BY <1>2, <1>4, <1>6, JarKept, BaseStep DEF Inv, BaseInv, TypeInv
<1>8. ASSUME NEW q \in Session PROVE Good(q)'
  <2>1. CASE q = s
    BY <1>2, <1>4, <1>n, <2>1, RedeemGood, ConstantsTyped DEF Inv
  <2>2. CASE q # s
    <3>1. \A k \in Nat : <<q, k>> \notin y.answer.refresh /\ <<q, k>> \notin net[t].answer.refresh
      BY <1>4, <1>n, <2>2, ConstantsTyped
    <3> QED BY <1>2, <1>4, <2>2, <3>1, QuietGood, ConstantsTyped DEF Inv
  <2> QED BY <2>1, <2>2
<1>9. ReplayExplained'
  BY DEF Rotate, Inv, ReplayExplained
<1> QED BY <1>7, <1>8, <1>9 DEF Inv

LEMMA RefreshServed ==
    ASSUME Inv, NEW t \in Tab, ServeRefresh(t)
    PROVE  Inv'
<1>1. /\ UNCHANGED <<now, jar, tab, adrift>>
      /\ net[t].kind = "refresh" /\ net[t].answer = NoAnswer
  BY DEF ServeRefresh, Unserved
<1>2. net[t] \in RequestSet /\ RequestOK(net[t]) /\ now \in Nat
      /\ \A s \in Session : Current(s) => SentInTime(s, net[t])
  BY <1>1 DEF Inv, BaseInv, TypeInv, Good, Timely
<1>3. ASSUME NEW s \in Session, Rotate(net[t], s), lost' = lost,
             AnswerWith(t, "ok",
               IF access_expired(net[t].jar.access) THEN {<<s, now + AccessTtl>>} ELSE Keep,
               {<<s, head[s] + 1>>}, {net[t].jar.csrf})
      PROVE  Inv'
  <2>1. net[t].jar.csrf \in Nat
    BY <1>2 DEF RequestSet, Cookies
  <2>2. {net[t].jar.csrf} \in CsrfSetting
    BY <2>1 DEF CsrfSetting
  <2>3. <<s, now + AccessTtl>> \in MaybeAccess
    BY <1>2, TransitAssumption DEF MaybeAccess
  <2>4. (IF access_expired(net[t].jar.access) THEN {<<s, now + AccessTtl>>} ELSE Keep) \in AccessSetting
    BY <2>3 DEF AccessSetting
  <2> QED BY <1>1, <1>3, <2>2, <2>4, RotateAnswered
<1>4. ASSUME NEW status \in Status, Answer(t, status), StoreGrows, ReplayExplained',
             \A s \in Session : SameChain(s)
      PROVE  Inv'
  <2>1. AnswerWith(t, status, Keep, Keep, Keep)
    BY <1>4 DEF Answer
  <2> QED BY <1>1, <1>4, <2>1, ServeQuiet, SettingsTyped
<1>5. ASSUME NEW status \in Status, Answer(t, status), UNCHANGED storeVars
      PROVE  Inv'
  BY <1>4, <1>5, StoreVarsSame
<1>6. ASSUME NEW s \in Session, TearDown(net[t], s), Answer(t, "hard")
      PROVE  Inv'
  <2>1. StoreGrows /\ ReplayExplained' /\ \A q \in Session : SameChain(q)
    BY <1>1, <1>2, <1>6, TearDownStore
  <2> QED BY <1>4, <1>6, <2>1 DEF Status
<1>7. "soft" \in Status /\ Refused(net[t]) \in Status
  BY DEF Refused, Status
<1> QED BY <1>3, <1>5, <1>6, <1>7 DEF ServeRefresh, SoftAnswer

LEMMA RefreshFailed ==
    ASSUME Inv, NEW t \in Tab, RefreshFails(t)
    PROVE  Inv'
<1>1. /\ UNCHANGED <<now, jar, tab, adrift>> /\ Answer(t, "error")
      /\ net[t].kind = "refresh" /\ net[t].answer = NoAnswer
  BY DEF RefreshFails, Unserved
<1>2. net[t] \in RequestSet /\ RequestOK(net[t])
      /\ \A s \in Session : Current(s) => SentInTime(s, net[t])
  BY <1>1 DEF Inv, BaseInv, TypeInv, Good, Timely
<1>3. StoreGrows /\ ReplayExplained' /\ \A q \in Session : SameChain(q) \/ q \in lost'
  <2>1. CASE UNCHANGED storeVars
    BY <2>1, StoreVarsSame
  <2>2. ASSUME NEW s \in Session, TearDown(net[t], s)
        PROVE  StoreGrows /\ ReplayExplained' /\ \A q \in Session : SameChain(q)
    BY <1>1, <1>2, <2>2, TearDownStore
  <2>3. ASSUME NEW s \in Session, Rotate(net[t], s), lost' = lost \cup {s}
        PROVE  StoreGrows /\ ReplayExplained' /\ \A q \in Session : SameChain(q) \/ q \in lost'
    BY <1>2, <2>3, RotateLost
  <2>4. ASSUME NEW s \in Session, Chain!Close({s}), UNCHANGED <<used_at, lost, replayed>>
        PROVE  StoreGrows /\ ReplayExplained' /\ \A q \in Session : SameChain(q)
    <3>1. ReplayExplained' /\ replayed' \subseteq Session
      BY <2>4 DEF Inv, ReplayExplained, BaseInv, TypeInv, StoreType
    <3> QED BY <2>4, <3>1, CloseStore DEF Inv
  <2> QED BY <2>1, <2>2, <2>3, <2>4 DEF RefreshFails
<1>4. AnswerWith(t, "error", Keep, Keep, Keep) /\ "error" \in Status
  BY <1>1 DEF Answer, Status
<1> QED BY <1>1, <1>3, <1>4, ServeQuiet, SettingsTyped

\* The store moves and no tab hears of it.
LEMMA StoreStep ==
    ASSUME Inv, StoreGrows, ReplayExplained', UNCHANGED <<now, jar, tab, net>>,
           adrift' \subseteq adrift, \A s \in Session : SameChain(s) \/ s \in lost'
    PROVE  Inv'
<1>1. ASSUME NEW r \in RequestSet, RequestOK(r) PROVE RequestOK(r)'
  BY <1>1, RequestKept DEF Inv, BaseInv
<1>2. TypeInv'
  BY DEF Inv, BaseInv, TypeInv, StoreGrows
<1>3. ASSUME NEW t \in Tab PROVE RequestOK(net[t])'
  <2>1. RequestOK(net[t]) /\ net[t] \in RequestSet
    BY DEF Inv, BaseInv, TypeInv
  <2>2. ASSUME NEW r, r = net[t] PROVE RequestOK(r)'
    BY <1>1, <2>1, <2>2
  <2> QED BY <2>2
<1>4. \A r \in adrift' : (RequestOK(r) /\ r.kind = "refresh" /\ r.answer = NoAnswer)'
  BY <1>1 DEF Inv, BaseInv, TypeInv
<1>5. BaseInv'
  BY <1>2, <1>3, <1>4, JarKept DEF BaseInv, StoreGrows
<1>6. ASSUME NEW s \in Session PROVE Good(s)'
  <2>1. CASE s \in lost'
    BY <2>1 DEF Good, Current
  <2>2. CASE SameChain(s)
    BY <2>2, StoreOnlyGood DEF Inv
  <2> QED BY <2>1, <2>2
<1> QED BY <1>5, <1>6 DEF Inv

LEMMA AdriftServed ==
    ASSUME Inv, ServeAdrift
    PROVE  Inv'
<1>1. PICK r \in adrift :
        /\ \/ \E s \in Session : Rotate(r, s) /\ lost' = lost \cup {s}
           \/ \E s \in Session : TearDown(r, s)
           \/ UNCHANGED storeVars
        /\ adrift' = adrift \ {r}
        /\ UNCHANGED <<now, jar, tab, net, sent, boundVars>>
  BY DEF ServeAdrift
<1>2. r \in RequestSet /\ RequestOK(r) /\ r.kind = "refresh" /\ r.answer = NoAnswer
      /\ \A s \in Session : Current(s) => SentInTime(s, r)
  BY DEF Inv, BaseInv, TypeInv, Good, Timely
<1>3. StoreGrows /\ ReplayExplained' /\ \A q \in Session : SameChain(q) \/ q \in lost'
  <2>1. CASE UNCHANGED storeVars
    BY <2>1, StoreVarsSame
  <2>2. ASSUME NEW s \in Session, TearDown(r, s)
        PROVE  StoreGrows /\ ReplayExplained' /\ \A q \in Session : SameChain(q)
    BY <1>2, <2>2, TearDownStore
  <2>3. ASSUME NEW s \in Session, Rotate(r, s), lost' = lost \cup {s}
        PROVE  StoreGrows /\ ReplayExplained' /\ \A q \in Session : SameChain(q) \/ q \in lost'
    BY <1>2, <2>3, RotateLost
  <2> QED BY <1>1, <2>1, <2>2, <2>3
<1> QED BY <1>1, <1>3, StoreStep

LEMMA SessionEnded ==
    ASSUME Inv, NEW s \in Session, SessionEnds(s)
    PROVE  Inv'
<1>1. /\ Chain!Close({s})
      /\ UNCHANGED <<now, used_at, lost, replayed, jar, tab, net, adrift>>
  BY DEF SessionEnds
<1>2. ReplayExplained' /\ replayed' \subseteq Session
  BY <1>1 DEF Inv, ReplayExplained, BaseInv, TypeInv, StoreType
<1>3. StoreGrows /\ \A q \in Session : SameChain(q)
  BY <1>1, <1>2, CloseStore DEF Inv
<1> QED BY <1>1, <1>2, <1>3, StoreStep

LEMMA LoginServed ==
    ASSUME Inv, NEW t \in Tab, ServeLogin(t)
    PROVE  Inv'
<1>1. /\ UNCHANGED <<now, jar, tab, adrift>>
      /\ net[t].kind = "login" /\ net[t].answer = NoAnswer
  BY DEF ServeLogin, Unserved
<1>2. CASE Answer(t, "forbidden") /\ UNCHANGED storeVars
  <2>1. AnswerWith(t, "forbidden", Keep, Keep, Keep) /\ "forbidden" \in Status
    BY <1>2 DEF Answer, Status
  <2> QED BY <1>1, <1>2, <2>1, StoreVarsSame, ServeQuiet, SettingsTyped
<1>3. ASSUME NEW s \in Session, Chain!Open(s, 1), UNCHANGED <<used_at, lost, replayed>>,
             AnswerWith(t, "ok", {<<s, now + AccessTtl>>}, {<<s, 1>>}, {net[t].jar.csrf})
      PROVE  Inv'
  <2>1. StoreGrows /\ \A q \in Session : q # s => SameChain(q)
    BY <1>3, OpenStore DEF Inv
  <2>2. net[t] \in RequestSet /\ now \in Nat
    BY DEF Inv, BaseInv, TypeInv
  <2>3. net[t].jar.csrf \in Nat
    BY <2>2 DEF RequestSet, Cookies
  <2>4. {net[t].jar.csrf} \in CsrfSetting
    BY <2>3 DEF CsrfSetting
  <2>5. <<s, now + AccessTtl>> \in MaybeAccess
    BY <2>2, TransitAssumption DEF MaybeAccess
  <2>6. {<<s, now + AccessTtl>>} \in AccessSetting
    BY <2>5 DEF AccessSetting
  <2>7. {<<s, 1>>} \in Setting
    <3>1. <<s, 1>> \in MaybeToken
      BY DEF MaybeToken, Token
    <3> QED BY <3>1 DEF Setting
  <2>8. PICK y \in RequestSet :
              /\ net' = [net EXCEPT ![t] = y] /\ y.kind = net[t].kind /\ y.at = now
              /\ y.jar = NoCookies /\ y.answer.refresh = {<<s, 1>>}
    BY <1>3, <2>4, <2>6, <2>7, AnswerMakes DEF Inv, BaseInv, Status
  <2>9. /\ state[s] = "none" /\ head' = [head EXCEPT ![s] = 1] /\ spent' = spent
        /\ state'[s] = "live" /\ head'[s] = 1
    BY <1>3 DEF Chain!Open, Inv, BaseInv, TypeInv, StoreType
  <2>10. TokenOK(<<s, 1>>)'
    BY <2>9 DEF TokenOK
  <2>11. RequestOK(y)'
    BY <1>1, <2>8, <2>10, ServedOK DEF Inv
  <2>12. BaseInv'
    BY <1>1, <2>1, <2>8, <2>11, JarKept, BaseStep DEF Inv, BaseInv, TypeInv
  <2>13. ASSUME NEW q \in Session PROVE Good(q)'
    <3>1. CASE q = s
      BY <1>1, <2>8, <2>9, <3>1, OpenGood, ConstantsTyped DEF Inv
    <3>2. CASE q # s
      <4>1. \A k \in Nat : <<q, k>> \notin y.answer.refresh /\ <<q, k>> \notin net[t].answer.refresh
        BY <1>1, <2>8, <3>2, ConstantsTyped
      <4> QED BY <1>1, <2>1, <2>8, <3>2, <4>1, QuietGood, ConstantsTyped DEF Inv
    <3> QED BY <3>1, <3>2
  <2>14. ReplayExplained'
    BY <1>3 DEF Inv, ReplayExplained
  <2> QED BY <2>12, <2>13, <2>14 DEF Inv
<1> QED BY <1>2, <1>3 DEF ServeLogin

LEMMA LogoutServed ==
    ASSUME Inv, NEW t \in Tab, ServeLogout(t)
    PROVE  Inv'
<1> DEFINE Out == {s \in Session : /\ net[t].jar.access # None /\ net[t].jar.access[1] = s
                                   /\ state[s] = "live"}
<1>1. /\ UNCHANGED <<now, jar, tab, adrift>> /\ net[t].answer = NoAnswer
      /\ UNCHANGED <<used_at, lost, replayed>> /\ net[t].kind = "logout"
      /\ Chain!Close(Out) \/ UNCHANGED chainVars
      /\ AnswerWith(t, "signed_out", {None}, {None}, Keep) \/ Answer(t, "error")
  BY DEF ServeLogout, Unserved
<1>2. ReplayExplained' /\ replayed' \subseteq Session /\ lost' \subseteq Session
  BY <1>1 DEF Inv, ReplayExplained, BaseInv, TypeInv, StoreType
<1>3. StoreGrows /\ \A q \in Session : SameChain(q)
  <2>1. CASE Chain!Close(Out)
    <3>1. Out \in SUBSET Session
      OBVIOUS
    <3> HIDE DEF Out
    <3> QED BY <1>1, <1>2, <2>1, <3>1, CloseStore DEF Inv
  <2>2. CASE UNCHANGED chainVars
    BY <1>1, <1>2, <2>2, StoreSame DEF Inv
  <2> QED BY <1>1, <2>1, <2>2
<1>4. CASE AnswerWith(t, "signed_out", {None}, {None}, Keep)
  <2>1. "signed_out" \in Status
    BY DEF Status
  <2> QED BY <1>1, <1>2, <1>3, <1>4, <2>1, ServeQuiet, SettingsTyped
<1>5. CASE Answer(t, "error")
  <2>1. AnswerWith(t, "error", Keep, Keep, Keep) /\ "error" \in Status
    BY <1>5 DEF Answer, Status
  <2> QED BY <1>1, <1>2, <1>3, <2>1, ServeQuiet, SettingsTyped
<1> QED BY <1>1, <1>4, <1>5

----------------------------------------------------------------------------
\* The browser

LEMMA OrStores ==
    ASSUME NEW S, NEW old \in S, NEW new \in {Keep} \cup {{v} : v \in S}
    PROVE  \/ new = Keep /\ Or(new, old) = old
           \/ \E v \in S : new = {v} /\ Or(new, old) = v
<1>1. CASE new = Keep
  BY <1>1 DEF Or
<1>2. ASSUME NEW v \in S, new = {v} PROVE Or(new, old) = v
  <2>1. new # Keep
    BY <1>2 DEF Keep
  <2>2. Or(new, old) = CHOOSE value \in {v} : TRUE
    BY <1>2, <2>1 DEF Or
  <2> QED BY <2>2
<1> QED BY <1>1, <1>2

LEMMA CsrfStored ==
    ASSUME NEW old \in Nat, NEW new \in CsrfSetting
    PROVE  Or(new, old) \in Nat
<1>1. ASSUME NEW S, S = Nat PROVE Or(new, old) \in S
  <2>1. old \in S /\ new \in {Keep} \cup {{v} : v \in S}
    BY <1>1 DEF CsrfSetting
  <2> QED BY <2>1, OrStores
<1> QED BY <1>1

\* Tab t sends a request with the jar as it is, or none.
LEMMA SendStep ==
    ASSUME Inv, UNCHANGED <<now, jar, chainVars, used_at, replayed>>,
           tab' \in [Tab -> TabSet], lost \subseteq lost', lost' \subseteq Session,
           NEW t \in Tab, NEW y \in RequestSet, net' = [net EXCEPT ![t] = y],
           y = NoRequest \/ (y.answer = NoAnswer /\ y.at = now /\ y.jar = jar),
           \A r \in adrift' : r \in adrift \/ (r = net[t] /\ r.kind = "refresh" /\ r.answer = NoAnswer),
           \A s \in Session, k \in Nat : <<s, k>> \in net[t].answer.refresh => s \in lost' \/ k = 1
    PROVE  Inv'
<1>1. StoreGrows /\ \A s \in Session : SameChain(s)
  BY StoreSame DEF Inv
<1>2. TokenOK(jar.refresh)' /\ jar' \in Cookies
  BY <1>1, JarKept
<1>3. y.answer = NoAnswer /\ (y.at = now \/ y.jar.refresh = None) /\ y.jar.refresh \in {None, jar.refresh}
  BY ConstantsTyped
<1>4. RequestOK(y)'
  <2>1. TokenOK(y.jar.refresh)'
    BY <1>2, <1>3 DEF TokenOK
  <2> QED BY <1>3, <2>1, ConstantsTyped, TransitAssumption DEF RequestOK, Inv, BaseInv, TypeInv
<1>5. BaseInv'
  BY <1>1, <1>2, <1>4, BaseStep DEF Inv
<1>6. ASSUME NEW s \in Session PROVE Good(s)'
  BY <1>1, <1>3, SendGood DEF Inv
<1>7. ReplayExplained'
  BY DEF Inv, ReplayExplained
<1> QED BY <1>5, <1>6, <1>7 DEF Inv

\* An answer reaches its tab and the jar.
LEMMA LandsStep ==
    ASSUME Inv, NEW t \in Tab, NEW kind, NEW status, NEW shows \in TabSet, NEW next \in Kind,
           Lands(t, kind, status, shows, next)
    PROVE  Inv'
<1>1. /\ UNCHANGED <<now, storeVars, adrift>>
      /\ jar' = Stored(net[t].answer) /\ tab' = [tab EXCEPT ![t] = shows]
      /\ net' = [net EXCEPT ![t] = IF next = "none" THEN NoRequest
                                   ELSE Request(next, jar', IF next = "refresh" THEN jar'.csrf ELSE 0)]
  BY DEF Lands
<1>2. StoreGrows /\ ReplayExplained' /\ \A s \in Session : SameChain(s)
  BY <1>1, StoreVarsSame
<1>3. /\ net[t] \in RequestSet /\ net[t].answer \in AnswerSet /\ RequestOK(net[t])
      /\ jar \in Cookies /\ now \in Nat /\ TokenOK(jar.refresh)
  BY RequestTokens DEF Inv, BaseInv, TypeInv
<1>4. /\ net[t].answer.access \in AccessSetting /\ net[t].answer.refresh \in Setting
      /\ net[t].answer.csrf \in CsrfSetting
      /\ jar.access \in MaybeAccess /\ jar.refresh \in MaybeToken /\ jar.csrf \in Nat
  BY <1>3 DEF AnswerSet, Cookies
<1>5. Or(net[t].answer.access, jar.access) \in MaybeAccess
  BY <1>4, OrStores DEF AccessSetting
<1>6. Or(net[t].answer.csrf, jar.csrf) \in Nat
  BY <1>4, CsrfStored
<1>7. \/ net[t].answer.refresh = Keep /\ Or(net[t].answer.refresh, jar.refresh) = jar.refresh
      \/ \E v \in MaybeToken : /\ net[t].answer.refresh = {v}
                               /\ Or(net[t].answer.refresh, jar.refresh) = v
  BY <1>4, OrStores DEF Setting
<1>8. /\ jar' \in Cookies
      /\ jar'.refresh = Or(net[t].answer.refresh, jar.refresh)
  <2>1. Or(net[t].answer.refresh, jar.refresh) \in MaybeToken
    BY <1>4, <1>7
  <2> QED BY <1>1, <1>5, <1>6, <2>1 DEF Stored, Cookies
<1>9. TokenOK(jar'.refresh)
  BY <1>3, <1>7, <1>8 DEF RequestOK
<1>10. TokenOK(jar.refresh)'
  <2>1. state' = state /\ head' = head
    BY <1>1 DEF storeVars, chainVars
  <2> QED BY <1>9, <2>1 DEF TokenOK
<1>11. PICK y \in RequestSet :
          /\ net' = [net EXCEPT ![t] = y]
          /\ y = NoRequest \/ (y.answer = NoAnswer /\ y.at = now /\ y.jar = jar')
  <2>1. CASE next = "none"
    BY <1>1, <2>1, ConstantsTyped
  <2>2. CASE next # "none"
    <3> DEFINE h == IF next = "refresh" THEN jar'.csrf ELSE 0
               z == Request(next, jar', h)
    <3>1. h \in Nat
      BY <1>8 DEF Cookies
    <3> HIDE DEF h
    <3>2. z \in RequestSet /\ z.answer = NoAnswer /\ z.at = now /\ z.jar = jar'
      BY <1>3, <1>8, <3>1, ConstantsTyped DEF Request, RequestSet
    <3>3. net' = [net EXCEPT ![t] = z]
      BY <1>1, <2>2 DEF h
    <3> QED BY <3>2, <3>3
  <2> QED BY <2>1, <2>2
<1>12. y.answer = NoAnswer /\ (y.at = now \/ y.jar.refresh = None) /\ y.jar.refresh \in {None, jar'.refresh}
  BY <1>11, ConstantsTyped
<1>13. RequestOK(y)'
  <2>1. TokenOK(y.jar.refresh)'
    BY <1>10, <1>12 DEF TokenOK
  <2> QED BY <1>1, <1>3, <1>11, <1>12, <2>1, ConstantsTyped, TransitAssumption DEF RequestOK
<1>14. tab' \in [Tab -> TabSet]
  BY <1>1 DEF Inv, BaseInv, TypeInv
<1>15. BaseInv'
  BY <1>1, <1>2, <1>8, <1>10, <1>11, <1>13, <1>14, BaseStep DEF Inv
<1>16. ASSUME NEW s \in Session PROVE Good(s)'
  <2>1. CASE net[t].answer.refresh = Keep /\ jar'.refresh = jar.refresh
    <3>1. \A k \in Nat : <<s, k>> \notin net[t].answer.refresh
      BY <2>1 DEF Keep
    <3> QED BY <1>1, <1>2, <1>11, <1>12, <2>1, <3>1, SendGood DEF Inv
  <2>2. ASSUME NEW v \in MaybeToken, net[t].answer.refresh = {v}, jar'.refresh = v
        PROVE  Good(s)'
    BY <1>1, <1>2, <1>11, <1>12, <2>2, JarSetGood DEF Inv
  <2> QED BY <1>7, <1>8, <2>1, <2>2
<1> QED BY <1>2, <1>15, <1>16 DEF Inv

LEMMA Shows ==
    ASSUME Inv, NEW t \in Tab
    PROVE  /\ tab[t] \in TabSet
           /\ \A p \in Page : Showing(t, p) \in TabSet
           /\ \A n \in Nat : Trying(t, n) \in TabSet
           /\ triesAgain(t) \in TabSet
           /\ [page |-> "blank", tries |-> 1, csrf |-> 0] \in TabSet
           /\ \A n \in Nat : [tab[t] EXCEPT !.csrf = n] \in TabSet
           /\ Or(net[t].answer.csrf, 0) \in Nat
<1>1. tab[t] \in TabSet
  BY DEF Inv, BaseInv, TypeInv
<1>2. net[t].answer.csrf \in CsrfSetting
  BY DEF Inv, BaseInv, TypeInv, RequestSet, AnswerSet
<1>3. Or(net[t].answer.csrf, 0) \in Nat
  BY <1>2, CsrfStored
<1>4. \A n \in Nat : Trying(t, n) \in TabSet
  BY <1>1 DEF Trying, TabSet
<1>5. triesAgain(t) \in TabSet
  BY <1>1, <1>4 DEF triesAgain, TabSet
<1>6. \A p \in Page : Showing(t, p) \in TabSet
  BY DEF Showing, TabSet
<1>7. [page |-> "blank", tries |-> 1, csrf |-> 0] \in TabSet
  BY DEF TabSet, Page
<1>8. \A n \in Nat : [tab[t] EXCEPT !.csrf = n] \in TabSet
  BY <1>1 DEF TabSet
<1> QED BY <1>1, <1>3, <1>4, <1>5, <1>6, <1>7, <1>8

LEMMA AnswerLands ==
    ASSUME Inv, NEW t \in Tab,
           \/ DocumentLands(t) \/ CsrfLands(t) \/ RefreshLands(t)
           \/ CallLands(t) \/ LoginLands(t) \/ LogoutLands(t)
    PROVE  Inv'
<1>1. \A kind, status : \A shows \in TabSet, next \in Kind :
          Lands(t, kind, status, shows, next) => Inv'
  BY LandsStep
<1>2. /\ tab[t] \in TabSet /\ Showing(t, "app") \in TabSet /\ Showing(t, "login") \in TabSet
      /\ Trying(t, 0) \in TabSet /\ Trying(t, 1) \in TabSet /\ triesAgain(t) \in TabSet
      /\ [page |-> "blank", tries |-> 1, csrf |-> 0] \in TabSet
      /\ [tab[t] EXCEPT !.csrf = Or(net[t].answer.csrf, 0)] \in TabSet
  BY Shows DEF Page
<1>3. {"none", "login_page", "csrf", "document", "retry", "refresh"} \subseteq Kind
  BY DEF Kind
<1>4. CASE DocumentLands(t)
  BY <1>1, <1>2, <1>3, <1>4, Zenon DEF DocumentLands
<1>5. CASE CsrfLands(t)
  BY <1>1, <1>2, <1>3, <1>5, Zenon DEF CsrfLands
<1>6. CASE RefreshLands(t)
  BY <1>1, <1>2, <1>3, <1>6, Zenon DEF RefreshLands
<1>7. CASE CallLands(t)
  BY <1>1, <1>2, <1>3, <1>7, Zenon DEF CallLands
<1>8. CASE LoginLands(t) \/ LogoutLands(t)
  BY <1>1, <1>2, <1>3, <1>8, Zenon DEF LoginLands, LogoutLands
<1> QED BY <1>4, <1>5, <1>6, <1>7, <1>8

\* The requests a tab sends of its own accord or for its user.
LEMMA RequestSent ==
    ASSUME Inv, NEW t \in Tab, NEW kind \in Kind, NEW header \in Nat,
           net' = [net EXCEPT ![t] = Request(kind, jar, header)], net[t] = NoRequest,
           tab' \in [Tab -> TabSet], UNCHANGED <<now, jar, storeVars, adrift>>
    PROVE  Inv'
<1>1. UNCHANGED chainVars /\ UNCHANGED <<used_at, lost, replayed>> /\ lost' \subseteq Session
  BY DEF storeVars, Inv, BaseInv, TypeInv, StoreType
<1> DEFINE y == Request(kind, jar, header)
<1>2. y \in RequestSet /\ y.answer = NoAnswer /\ y.at = now /\ y.jar = jar
  BY ConstantsTyped DEF Request, RequestSet, Inv, BaseInv, TypeInv
<1>3. \A s \in Session, k \in Nat : <<s, k>> \notin net[t].answer.refresh
  BY ConstantsTyped
<1> HIDE DEF y
<1>4. net' = [net EXCEPT ![t] = y]
  BY DEF y
<1> QED BY <1>1, <1>2, <1>3, <1>4, SendStep

\* A tab that leaves its request leaves it adrift, or its answer lost.
LEMMA Abandoned ==
    ASSUME Inv, NEW t \in Tab, Abandon(t)
    PROVE  /\ lost \subseteq lost' /\ lost' \subseteq Session
           /\ \A r \in adrift' :
                 r \in adrift \/ (r = net[t] /\ r.kind = "refresh" /\ r.answer = NoAnswer)
           /\ \A s \in Session, k \in Nat :
                 <<s, k>> \in net[t].answer.refresh => s \in lost' \/ k = 1
<1>1. RequestOK(net[t]) /\ net[t] \in RequestSet /\ lost \subseteq Session
  BY DEF Inv, BaseInv, TypeInv, StoreType
<1>2. \A tk \in net[t].answer.refresh : tk \in MaybeToken
  BY <1>1, RequestTokens
<1>3. lost \subseteq lost' /\ lost' \subseteq Session
  <2>1. ASSUME net[t].kind = "refresh", NEW tk \in net[t].answer.refresh PROVE tk[1] \in Session
    BY <1>1, <1>2, <2>1 DEF RequestOK, MaybeToken, Token
  <2> QED BY <1>1, <2>1 DEF Abandon
<1>4. \A r \in adrift' :
         r \in adrift \/ (r = net[t] /\ r.kind = "refresh" /\ r.answer = NoAnswer)
  BY DEF Abandon
<1>5. ASSUME NEW s \in Session, NEW k \in Nat, <<s, k>> \in net[t].answer.refresh
      PROVE  s \in lost' \/ k = 1
  <2>1. <<s, k>> # None /\ <<s, k>>[1] = s /\ <<s, k>>[2] = k
    BY DEF None
  <2>2. net[t].kind = "refresh" \/ k = 1
    BY <1>1, <1>5, <2>1 DEF RequestOK
  <2>3. net[t].kind = "refresh" => s \in lost'
    BY <1>5, <2>1 DEF Abandon
  <2> QED BY <2>2, <2>3
<1> QED BY <1>3, <1>4, <1>5

LEMMA TabActs ==
    ASSUME Inv, NEW t \in Tab,
           \/ PostRefresh(t) \/ Breaks(t) \/ Visit(t)
           \/ Call(t) \/ SubmitLogin(t) \/ SubmitLogout(t)
    PROVE  Inv'
<1>1. /\ tab \in [Tab -> TabSet] /\ tab[t] \in TabSet /\ tab[t].csrf \in Nat
      /\ jar \in Cookies /\ jar.csrf \in Nat /\ now \in Nat
      /\ Trying(t, 0) \in TabSet /\ Trying(t, 1) \in TabSet
  BY Shows DEF Inv, BaseInv, TypeInv, TabSet, Cookies
<1>2. /\ [tab EXCEPT ![t] = Trying(t, 0)] \in [Tab -> TabSet]
      /\ [tab EXCEPT ![t] = Trying(t, 1)] \in [Tab -> TabSet]
  BY <1>1
<1>3. CASE PostRefresh(t)
  <2>1. "refresh" \in Kind
    BY DEF Kind
  <2> QED BY <1>1, <1>2, <1>3, <2>1, RequestSent DEF PostRefresh
<1>4. ASSUME NEW page, NEW kind \in Kind, NEW header \in Nat, Send(t, page, kind, header)
      PROVE  Inv'
  BY <1>1, <1>4, RequestSent DEF Send, Idle
<1>5. CASE Call(t) \/ SubmitLogin(t) \/ SubmitLogout(t)
  <2>1. "call" \in Kind /\ "login" \in Kind /\ "logout" \in Kind /\ 0 \in Nat
    BY DEF Kind
  <2> QED BY <1>1, <1>4, <1>5, <2>1 DEF Call, SubmitLogin, SubmitLogout
<1>6. CASE Breaks(t)
  <2>1. /\ Abandon(t) /\ net' = [net EXCEPT ![t] = NoRequest]
        /\ tab' = [tab EXCEPT ![t] = Trying(t, 0)]
        /\ UNCHANGED <<now, chainVars, used_at, replayed, jar>>
    BY <1>6 DEF Breaks
  <2> QED BY <1>2, <2>1, Abandoned, SendStep, ConstantsTyped
<1>7. CASE Visit(t)
  <2> DEFINE y == Request("document", jar, 0)
  <2>1. /\ Abandon(t) /\ net' = [net EXCEPT ![t] = y]
        /\ tab' = [tab EXCEPT ![t] = Trying(t, 0)]
        /\ UNCHANGED <<now, chainVars, used_at, replayed, jar>>
    BY <1>7 DEF Visit
  <2>2. y \in RequestSet /\ y.answer = NoAnswer /\ y.at = now /\ y.jar = jar
    BY <1>1, ConstantsTyped DEF Request, RequestSet, Kind
  <2> HIDE DEF y
  <2> QED BY <1>2, <2>1, <2>2, Abandoned, SendStep
<1> QED BY <1>3, <1>5, <1>6, <1>7

\* The clock does not move past what must be served or arrive now.
LEMMA TimePasses ==
    ASSUME Inv, Tick
    PROVE  Inv'
<1>1. /\ now' = now + 1 /\ UNCHANGED <<storeVars, jar, tab, net, adrift>>
      /\ UNCHANGED <<state, head, spent, used_at, lost, replayed>>
  BY DEF Tick, storeVars, chainVars
<1>2. ASSUME NEW r \in RequestSet, RequestOK(r),
             r # NoRequest => now - r.at < IF r.answer = NoAnswer THEN RequestTime ELSE AnswerTime
      PROVE  RequestOK(r)'
  <2>1. r.at \in Nat /\ now \in Nat
    BY RequestTokens DEF Inv, BaseInv, TypeInv
  <2>2. TokenOK(r.jar.refresh)' /\ \A tk \in r.answer.refresh : TokenOK(tk)'
    BY <1>1, <1>2 DEF RequestOK, TokenOK
  <2>3. r # NoRequest => now' <= r.at + (IF r.answer = NoAnswer THEN RequestTime ELSE AnswerTime)
    BY <1>1, <1>2, <2>1, TransitAssumption
  <2> QED BY <1>1, <1>2, <2>1, <2>2, <2>3 DEF RequestOK
<1>3. TypeInv'
  BY <1>1 DEF Inv, BaseInv, TypeInv, StoreType
<1>4. ASSUME NEW t \in Tab PROVE RequestOK(net[t])'
  <2>1. /\ net[t] \in RequestSet /\ RequestOK(net[t]) /\ net'[t] = net[t]
        /\ net[t] # NoRequest =>
              now - net[t].at < IF net[t].answer = NoAnswer THEN RequestTime ELSE AnswerTime
    BY <1>1 DEF Inv, BaseInv, TypeInv, Tick
  <2>2. ASSUME NEW r, r = net[t] PROVE RequestOK(r)'
    BY <1>2, <2>1, <2>2
  <2> QED BY <2>1, <2>2
<1>5. ASSUME NEW r \in adrift' PROVE (RequestOK(r) /\ r.kind = "refresh" /\ r.answer = NoAnswer)'
  <2>1. r \in RequestSet /\ RequestOK(r) /\ r.answer = NoAnswer /\ r.kind = "refresh"
        /\ now - r.at < RequestTime
    BY <1>1 DEF Inv, BaseInv, TypeInv, Tick
  <2> QED BY <1>2, <2>1
<1>6. BaseInv'
  <2>1. TokenOK(jar.refresh)'
    BY <1>1 DEF Inv, BaseInv, TokenOK
  <2> QED BY <1>1, <1>3, <1>4, <1>5, <2>1 DEF Inv, BaseInv
<1>7. ASSUME NEW s \in Session PROVE Good(s)'
  <2>1. SameChain(s)
    BY <1>1 DEF SameChain, Current
  <2> QED BY <1>1, <2>1, StoreOnlyGood DEF Inv
<1>8. ReplayExplained'
  BY <1>1 DEF Inv, ReplayExplained
<1> QED BY <1>6, <1>7, <1>8 DEF Inv

----------------------------------------------------------------------------
\* The theorems

LEMMA InvInit == Init => Inv
<1> SUFFICES ASSUME Init PROVE Inv
  OBVIOUS
<1>1. /\ jar = [access |-> <<First, 0>>, refresh |-> <<First, 1>>, csrf |-> 1]
      /\ net = [t \in Tab |-> NoRequest] /\ adrift = {} /\ spent = {} /\ now = 0
      /\ head = [s \in Session |-> IF s = First THEN 1 ELSE 0]
      /\ state = [s \in Session |-> IF s = First THEN "live" ELSE "none"]
      /\ used_at = <<>> /\ lost = {} /\ replayed = {} /\ First \in Session
  BY TransitAssumption DEF Init
<1>2. jar \in Cookies /\ jar.refresh = <<First, 1>>
  <2>1. <<First, 0>> \in MaybeAccess /\ <<First, 1>> \in MaybeToken
    BY <1>1 DEF MaybeAccess, MaybeToken, Token
  <2> QED BY <1>1, <2>1 DEF Cookies
<1>3. tab \in [Tab -> TabSet]
  <2>1. ({[page |-> "app", tries |-> 0, csrf |-> 0]}
            \cup [page : {"login"}, tries : {0}, csrf : {1, 2}]) \subseteq TabSet
    BY DEF TabSet, Page
  <2> QED BY <2>1 DEF Init
<1>4. StoreType
  <2>1. used_at \in [spent -> Nat]
    <3>1. <<>> = [x \in {} |-> 0]
      OBVIOUS
    <3> QED BY <1>1, <3>1
  <2> QED BY <1>1, <2>1 DEF StoreType
<1>5. TypeInv
  <2>1. net \in [Tab -> RequestSet]
    BY <1>1, ConstantsTyped
  <2> QED BY <1>1, <1>2, <1>3, <1>4, <2>1 DEF TypeInv
<1>6. RequestOK(NoRequest)
  BY <1>1, ConstantsTyped DEF RequestOK, TokenOK
<1>7. BaseInv
  <2>1. TokenOK(jar.refresh)
    BY <1>1, <1>2 DEF TokenOK
  <2>2. \A t \in Tab : RequestOK(net[t])
    BY <1>1, <1>6
  <2> QED BY <1>1, <1>5, <2>1, <2>2 DEF BaseInv
<1>8. ASSUME NEW s \in Session PROVE Good(s)
  <2>1. \A t \in Tab, k \in Nat : net[t].answer.refresh = {} /\ net[t].jar.refresh = None
    BY <1>1, ConstantsTyped
  <2>2. \A k \in Nat : jar.refresh = <<s, k>> => k = head[s]
    BY <1>1, <1>2
  <2> QED BY <1>1, <2>1, <2>2 DEF Good, OnlyNewest, Alone, InFlight, JarClose, Timely, SentInTime
<1> QED BY <1>1, <1>7, <1>8 DEF Inv, ReplayExplained

LEMMA InvStutters ==
    ASSUME Inv, UNCHANGED vars
    PROVE  Inv'
<1>1. UNCHANGED storeVars /\ UNCHANGED <<now, jar, tab, net, adrift>>
  BY DEF vars
<1> QED BY <1>1, StoreVarsSame, StoreStep

\* BrowserRefresh: where the newest token of every session is, for any tabs.
THEOREM BrowserInvariant == Spec => []Inv
<1>1. Init => Inv
  BY InvInit
<1>2. Inv /\ [Next]_vars => Inv'
  <2> SUFFICES ASSUME Inv, [Next]_vars PROVE Inv'
    OBVIOUS
  <2>1. ASSUME NEW t \in Tab,
               \/ ServeDocument(t) \/ ServeMe(t) \/ ServeLoginPage(t) \/ ServeCsrf(t)
               \/ ServeCall(t) \/ ServeRefresh(t) \/ RefreshFails(t) \/ ServeLogin(t)
               \/ ServeLogout(t)
        PROVE  Inv'
    BY <2>1, DocumentServed, PageServed, RefreshServed, RefreshFailed, LoginServed, LogoutServed
  <2>2. ASSUME NEW t \in Tab,
               \/ DocumentLands(t) \/ CsrfLands(t) \/ RefreshLands(t)
               \/ CallLands(t) \/ LoginLands(t) \/ LogoutLands(t)
        PROVE  Inv'
    BY <2>2, AnswerLands
  <2>3. ASSUME NEW t \in Tab,
               \/ PostRefresh(t) \/ Breaks(t) \/ Visit(t)
               \/ Call(t) \/ SubmitLogin(t) \/ SubmitLogout(t)
        PROVE  Inv'
    BY <2>3, TabActs
  <2>4. ASSUME NEW s \in Session, SessionEnds(s) PROVE Inv'
    BY <2>4, SessionEnded
  <2>5. CASE ServeAdrift
    BY <2>5, AdriftServed
  <2>6. CASE Tick
    BY <2>6, TimePasses
  <2>7. CASE UNCHANGED vars
    BY <2>7, InvStutters
  <2> QED BY <2>1, <2>2, <2>3, <2>4, <2>5, <2>6, <2>7 DEF Next
<1> QED BY <1>1, <1>2, PTL DEF Spec

\* sessions.ts:213: a session is torn down for reuse only when the answer of
\* one of its rotations never reached the jar, whatever the tabs do meanwhile.
THEOREM ReplaysAreExplained == Spec => []ReplayExplained
<1>1. Inv => ReplayExplained
  BY DEF Inv
<1> QED BY <1>1, BrowserInvariant, PTL

\* http.ts:411: no late answer puts an older token of a live session back.
THEOREM JarFollowsNewest == Spec => []JarFollowsHead
<1>1. Inv => JarFollowsHead
  <2> SUFFICES ASSUME Inv, NEW s \in Session, state[s] = "live", jar.refresh # None,
                      jar.refresh[1] = s, s \notin lost
               PROVE  \/ jar.refresh[2] = head[s]
                      \/ \E t \in Tab : <<s, head[s]>> \in net[t].answer.refresh
    BY DEF JarFollowsHead
  <2>1. PICK k \in Nat : jar.refresh = <<s, k>>
    <3>1. jar.refresh \in Token
      BY DEF Inv, BaseInv, TypeInv, Cookies, MaybeToken
    <3> QED BY <3>1 DEF Token
  <2>2. JarClose(s)
    BY DEF Inv, Good, Current
  <2> QED BY <2>1, <2>2 DEF JarClose, InFlight
<1> QED BY <1>1, BrowserInvariant, PTL

(***************************************************************************)
(* How many requests a tab has left.  The browser goes on from what its    *)
(* request, its attempts and the access token of the jar are; the rank     *)
(* Remaining counts the requests that can still follow if nothing worse    *)
(* happens to the jar.  Every request a tab sends lowers its rank.  A jar  *)
(* that gets a valid token raises no rank; one that loses it may start a   *)
(* tab over, which is only done by an answer that was under way when the   *)
(* counts began (Spoils): it is the answer to a sign-out, or the clock     *)
(* made it what it is.  So the rank, the requests sent and one round for   *)
(* each other tab that may still spoil the jar stay within the bound.      *)
(***************************************************************************)

\* The requests of a round after the first: the token for a refresh, the
\* attempts, the login page and the token for its form.
Round == MaxRetries + 3

\* After a document or a call sent with this access token.
Gate(access) == IF access = None THEN 2 ELSE IF Valid(access) THEN 0 ELSE Round

\* After an answer that makes the tab fetch a document.
Reload(r, access) == IF Valid(Or(r.answer.access, access)) THEN 1 ELSE Round + 1

\* After a refresh attempt that is not the last.
More(tries) == MaxRetries - tries + 2

AfterGated(r) ==
    IF r.answer = NoAnswer THEN Gate(r.jar.access)
    ELSE IF r.answer.status \in {"to_login", "hard"} THEN 2
    ELSE IF r.answer.status \in {"bootstrap", "soft"} THEN Round ELSE 0
AfterMe(r) ==
    IF r.answer = NoAnswer THEN IF Valid(r.jar.access) THEN 0 ELSE 2
    ELSE IF r.answer.status = "to_login" THEN 2 ELSE 0
AfterLoginPage(r, access) ==
    IF r.answer.status = "to_next" \/ (r.answer = NoAnswer /\ Valid(r.jar.access))
    THEN Reload(r, access) ELSE 1
AfterRefresh(r, tries, access) ==
    IF r.answer = NoAnswer
    THEN IF Valid(r.jar.access) /\ ~Valid(access) THEN Round + 1 ELSE More(tries)
    ELSE IF r.answer.status = "ok" THEN Reload(r, access)
    ELSE IF r.answer.status = "soft" THEN More(tries) ELSE 2
AfterLogin(r, access) ==
    IF r.answer = NoAnswer THEN 1
    ELSE IF r.answer.status = "ok" THEN Reload(r, access) ELSE 0
AfterLogout(r) == IF r.answer = NoAnswer \/ r.answer.status = "signed_out" THEN 2 ELSE 0

Remaining(r, tries, access) ==
    IF r.kind \in {"none", "csrf"} THEN IF tries = 0 THEN 0 ELSE MaxRetries + 2
    ELSE IF r.kind \in {"document", "call"} THEN AfterGated(r)
    ELSE IF r.kind = "me" THEN AfterMe(r)
    ELSE IF r.kind = "login_page" THEN AfterLoginPage(r, access)
    ELSE IF r.kind = "refresh" THEN AfterRefresh(r, tries, access)
    ELSE IF r.kind = "login" THEN AfterLogin(r, access)
    ELSE IF r.kind = "logout" THEN AfterLogout(r)
    ELSE 0

Left(t) == Remaining(net[t], tab[t].tries, jar.access)

\* The answer may leave the jar without a valid access token.
Spoils(r) ==
    \/ \E access \in r.answer.access : ~Valid(access)
    \/ r.answer = NoAnswer /\ r.kind = "logout"
    \/ r.answer = NoAnswer /\ r.kind = "me" /\ ~Valid(r.jar.access)

Spoilers(t) == {u \in Tab \ {t} : Spoils(net[u])}

Budget(t) == sent[t] + Left(t) + Round * Cardinality(Spoilers(t)) <= Round * Cardinality(Tab) + 1

\* Only a refresh counts attempts.
TriesOK(r, tries) ==
    /\ tries \in 0 .. MaxRetries
    /\ r.kind \in {"none", "csrf"} => tries <= 1
    /\ r.kind = "refresh" => tries >= 1
    /\ r.kind \notin {"none", "csrf", "refresh"} => tries = 0

RoundInv ==
    /\ sent \in [Tab -> Nat]
    /\ \A t \in Tab : TriesOK(net[t], tab[t].tries) /\ Budget(t)

----------------------------------------------------------------------------
\* The rank

LEMMA RoundType == Round \in Nat /\ Round = MaxRetries + 3 /\ MaxRetries \in Nat \ {0}
BY BoundAssumption DEF Round

LEMMA RemainingType ==
    ASSUME NEW r, NEW tries, TriesOK(r, tries), NEW access
    PROVE  Remaining(r, tries, access) \in 0 .. Round + 1
<1>1. Gate(r.jar.access) \in 0 .. Round /\ Reload(r, access) \in 1 .. Round + 1
  BY RoundType DEF Gate, Reload
<1>2. More(tries) \in 2 .. Round /\ (r.kind # "refresh" \/ More(tries) \in 2 .. Round - 2)
  BY RoundType DEF More, TriesOK
<1>3. AfterGated(r) \in 0 .. Round + 1 /\ AfterMe(r) \in 0 .. Round + 1 /\ AfterLogout(r) \in 0 .. Round + 1
  BY <1>1, RoundType DEF AfterGated, AfterMe, AfterLogout
<1>4. /\ AfterLoginPage(r, access) \in 0 .. Round + 1
      /\ AfterRefresh(r, tries, access) \in 0 .. Round + 1
      /\ AfterLogin(r, access) \in 0 .. Round + 1
  BY <1>1, <1>2, RoundType DEF AfterLoginPage, AfterRefresh, AfterLogin
<1> QED BY <1>3, <1>4, RoundType DEF Remaining

\* The access token of the jar changes: for the better, ...
LEMMA RemainingKept ==
    ASSUME NEW r, NEW tries, TriesOK(r, tries), NEW a, NEW b, b = a \/ Valid(b)
    PROVE  Remaining(r, tries, b) <= Remaining(r, tries, a)
<1>1. CASE b = a
  <2>1. Remaining(r, tries, a) \in 0 .. Round + 1
    BY RemainingType
  <2> QED BY <1>1, <2>1, RoundType
<1>2. CASE Valid(b)
  <2>1. Reload(r, b) <= Reload(r, a)
    BY <1>2, RoundType DEF Reload, Or
  <2>2. More(tries) \in Nat /\ (r.kind = "refresh" => More(tries) <= Round + 1)
    BY RoundType DEF More, TriesOK
  <2>3. AfterLoginPage(r, b) <= AfterLoginPage(r, a) /\ AfterLogin(r, b) <= AfterLogin(r, a)
    BY <2>1 DEF AfterLoginPage, AfterLogin
  <2>4. r.kind = "refresh" => AfterRefresh(r, tries, b) <= AfterRefresh(r, tries, a)
    BY <1>2, <2>1, <2>2, RoundType DEF AfterRefresh
  <2>5. /\ Remaining(r, tries, a) \in 0 .. Round + 1 /\ Remaining(r, tries, b) \in 0 .. Round + 1
    BY RemainingType
  <2> QED BY <2>3, <2>4, <2>5, RoundType DEF Remaining
<1> QED BY <1>1, <1>2

\* ... or for the worse.
LEMMA RemainingJumps ==
    ASSUME NEW r, NEW tries, TriesOK(r, tries), NEW a, NEW b
    PROVE  Remaining(r, tries, b) <= Remaining(r, tries, a) + Round
<1>1. Reload(r, a) >= 1 /\ Reload(r, b) <= Round + 1 /\ Reload(r, a) \in Nat /\ Reload(r, b) \in Nat
  BY RoundType DEF Reload
<1>2. More(tries) \in Nat /\ (r.kind = "refresh" => More(tries) >= 1 /\ More(tries) <= Round)
  BY RoundType DEF More, TriesOK
<1>3. /\ AfterLoginPage(r, b) <= AfterLoginPage(r, a) + Round
      /\ AfterLogin(r, b) <= AfterLogin(r, a) + Round
  BY <1>1, RoundType DEF AfterLoginPage, AfterLogin
<1>4. r.kind = "refresh" => AfterRefresh(r, tries, b) <= AfterRefresh(r, tries, a) + Round
  BY <1>1, <1>2, RoundType DEF AfterRefresh
<1>5. Remaining(r, tries, a) \in 0 .. Round + 1 /\ Remaining(r, tries, b) \in 0 .. Round + 1
  BY RemainingType
<1> QED BY <1>3, <1>4, <1>5, RoundType DEF Remaining

\* The rank of a request that was just sent with the token of the jar.
LEMMA RemainingSent ==
    ASSUME NEW r, r.answer = NoAnswer, NEW tries \in 0 .. MaxRetries
    PROVE  LET left == Remaining(r, tries, r.jar.access) IN
           /\ r.kind = "document" => left = Gate(r.jar.access)
           /\ r.kind = "call" => left = Gate(r.jar.access)
           /\ r.kind = "login_page" => left = 1
           /\ r.kind = "refresh" => left = More(tries)
           /\ r.kind = "retry" => left = 0
           /\ r.kind = "login" => left = 1
           /\ r.kind = "logout" => left = 2
<1>1. Or(r.answer.access, r.jar.access) = r.jar.access /\ r.answer.status = "none"
  BY DEF NoAnswer, Or, Keep
<1>2. r.kind = "login_page" => AfterLoginPage(r, r.jar.access) = 1
  BY <1>1 DEF AfterLoginPage, Reload
<1>3. r.kind = "refresh" => AfterRefresh(r, tries, r.jar.access) = More(tries)
  BY DEF AfterRefresh
<1> QED BY <1>2, <1>3 DEF Remaining, AfterGated, AfterLogin, AfterLogout

----------------------------------------------------------------------------
\* How a step changes the budgets

LEMMA TokenValid ==
    ASSUME NEW a, now' = now
    PROVE  Valid(a)' = Valid(a)
BY DEF Valid

LEMMA RankLasts ==
    ASSUME NEW r, NEW tries, NEW a, now' = now
    PROVE  Remaining(r, tries, a)' = Remaining(r, tries, a) /\ (Spoils(r)' <=> Spoils(r))
<1>1. Gate(r.jar.access)' = Gate(r.jar.access) /\ Reload(r, a)' = Reload(r, a)
  BY DEF Gate, Reload, Valid, Round
<1>2. AfterGated(r)' = AfterGated(r) /\ AfterMe(r)' = AfterMe(r) /\ AfterLogout(r)' = AfterLogout(r)
  BY <1>1, TokenValid DEF AfterGated, AfterMe, AfterLogout, Round
<1>3. /\ AfterLoginPage(r, a)' = AfterLoginPage(r, a) /\ AfterLogin(r, a)' = AfterLogin(r, a)
      /\ AfterRefresh(r, tries, a)' = AfterRefresh(r, tries, a)
  BY <1>1, TokenValid DEF AfterLoginPage, AfterLogin, AfterRefresh, Round, More
<1>4. Remaining(r, tries, a)' = Remaining(r, tries, a)
  BY <1>2, <1>3 DEF Remaining
<1> QED BY <1>4, TokenValid DEF Spoils

LEMMA Products ==
    ASSUME NEW w \in Nat, NEW b \in Nat, NEW c \in Nat
    PROVE  w * b \in Nat /\ (c <= b => w * c <= w * b) /\ (b = c + 1 => w * b = w * c + w)
<1>1. w * b \in Nat /\ w * c \in Nat
  OBVIOUS
<1>2. b = c + 1 => w * b = w * c + w
  OBVIOUS
<1>3. ASSUME c <= b PROVE w * c <= w * b
  <2>1. PICK d \in Nat : b = c + d
    <3>1. b - c \in Nat /\ b = c + (b - c)
      BY <1>3
    <3> QED BY <3>1
  <2>2. w * b = w * c + w * d /\ w * d \in Nat
    BY <2>1
  <2> QED BY <1>1, <2>2
<1> QED BY <1>1, <1>2, <1>3

LEMMA SpoilersFinite ==
    ASSUME NEW t \in Tab
    PROVE  /\ IsFiniteSet(Spoilers(t)) /\ Cardinality(Spoilers(t)) \in Nat
           /\ Cardinality(Spoilers(t)) + 1 <= Cardinality(Tab) /\ Cardinality(Tab) \in Nat
<1>1. IsFiniteSet(Tab \ {t}) /\ Cardinality(Tab \ {t}) = Cardinality(Tab) - 1 /\ Cardinality(Tab) \in Nat
  BY BoundAssumption, FS_RemoveElement, FS_CardinalityType
<1>2. Spoilers(t) \subseteq Tab \ {t}
  BY DEF Spoilers
<1>3. IsFiniteSet(Spoilers(t)) /\ Cardinality(Spoilers(t)) <= Cardinality(Tab \ {t})
  BY <1>1, <1>2, FS_Subset
<1>4. Cardinality(Spoilers(t)) \in Nat /\ Cardinality(Tab \ {t}) \in Nat
  BY <1>1, <1>3, FS_CardinalityType
<1> QED BY <1>1, <1>3, <1>4

\* The counts begin anew.
LEMMA BudgetBegins ==
    ASSUME NEW t \in Tab, sent'[t] \in Nat, Left(t)' \in Nat, sent'[t] + Left(t)' <= Round + 1
    PROVE  Budget(t)'
<1>1. /\ Cardinality(Spoilers(t))' \in Nat /\ Cardinality(Tab) \in Nat
      /\ Cardinality(Spoilers(t))' + 1 <= Cardinality(Tab)
  <2> DEFINE S == Spoilers(t)'
  <2>1. IsFiniteSet(Tab \ {t}) /\ Cardinality(Tab \ {t}) = Cardinality(Tab) - 1 /\ Cardinality(Tab) \in Nat
    BY BoundAssumption, FS_RemoveElement, FS_CardinalityType
  <2>2. S \subseteq Tab \ {t}
    BY DEF Spoilers
  <2> HIDE DEF S
  <2>3. IsFiniteSet(S) /\ Cardinality(S) <= Cardinality(Tab \ {t}) /\ Cardinality(S) \in Nat
    BY <2>1, <2>2, FS_Subset, FS_CardinalityType
  <2> QED BY <2>1, <2>3 DEF S
<1> DEFINE c == Cardinality(Spoilers(t))'
           b == Cardinality(Tab)
<1> HIDE DEF c, b
<1>2. c \in Nat /\ b \in Nat /\ c + 1 <= b
  BY <1>1 DEF c, b
<1>3. Round * (c + 1) <= Round * b /\ Round * (c + 1) = Round * c + Round /\ Round * c \in Nat
      /\ Round * b \in Nat
  <2>1. c + 1 \in Nat
    BY <1>2
  <2> QED BY <1>2, <2>1, Products, RoundType
<1>4. sent'[t] + Left(t)' + Round * c <= Round * b + 1
  BY <1>3, RoundType
<1>5. Round' = Round
  BY DEF Round
<1> QED BY <1>4, <1>5 DEF Budget, c, b

\* A step of tab t: its own sum does not grow, and if it spoils the jar it does
\* so for the last time.
LEMMA BudgetStep ==
    ASSUME TypeInv, RoundInv, now' = now, NEW t \in Tab,
           NEW y, net' = [net EXCEPT ![t] = y], NEW m, NEW n \in Nat,
           \A u \in Tab : tab'[u].tries = IF u = t THEN m ELSE tab[u].tries,
           sent' = [sent EXCEPT ![t] = n],
           TriesOK(y, m), n + Remaining(y, m, jar'.access) <= sent[t] + Left(t),
           Spoils(y) => Spoils(net[t]),
           jar'.access = jar.access \/ Valid(jar'.access) \/ (Spoils(net[t]) /\ ~Spoils(y))
    PROVE  RoundInv'
<1>1. /\ net'[t] = y /\ sent'[t] = n /\ tab'[t].tries = m
      /\ \A u \in Tab : u # t => /\ net'[u] = net[u] /\ sent'[u] = sent[u]
                                  /\ tab'[u].tries = tab[u].tries
  BY DEF TypeInv, RoundInv
<1>2. sent' \in [Tab -> Nat] /\ Round' = Round /\ Round \in Nat
  BY RoundType DEF RoundInv, Round
<1>3. ASSUME NEW u \in Tab
      PROVE  /\ TriesOK(net[u], tab[u].tries)' /\ Left(u)' = Remaining(net'[u], tab'[u].tries, jar'.access)
             /\ (Spoils(net[u])' <=> Spoils(net'[u]))
             /\ Left(u)' \in Nat /\ Left(u) \in Nat /\ sent'[u] \in Nat /\ sent[u] \in Nat
  <2>1. TriesOK(net'[u], tab'[u].tries)
    BY <1>1 DEF RoundInv
  <2>2. ASSUME NEW r, NEW k, NEW a, r = net'[u], k = tab'[u].tries, a = jar'.access
        PROVE  /\ Left(u)' = Remaining(r, k, a) /\ (Spoils(net[u])' <=> Spoils(r))
               /\ Remaining(r, k, a) \in Nat
    <3>1. Remaining(r, k, a)' = Remaining(r, k, a) /\ (Spoils(r)' <=> Spoils(r))
      BY RankLasts
    <3>2. Remaining(r, k, a) \in 0 .. Round + 1
      BY <2>1, <2>2, RemainingType
    <3> QED BY <1>2, <2>2, <3>1, <3>2 DEF Left
  <2>3. Left(u) \in 0 .. Round + 1
    BY RemainingType DEF RoundInv, Left
  <2> QED BY <1>2, <2>1, <2>2, <2>3 DEF TriesOK, RoundInv
<1>4. ASSUME NEW u \in Tab PROVE Spoilers(u)' = {v \in Tab \ {u} : Spoils(net'[v])}
  BY <1>3 DEF Spoilers
<1>5. Budget(t)'
  <2>1. Spoilers(t)' = Spoilers(t)
    BY <1>1, <1>4 DEF Spoilers
  <2>2. sent'[t] + Left(t)' <= sent[t] + Left(t)
    BY <1>1, <1>3
  <2>3. Budget(t) /\ Cardinality(Spoilers(t)) \in Nat /\ Cardinality(Tab) \in Nat
    BY SpoilersFinite DEF RoundInv
  <2>4. Round * Cardinality(Spoilers(t)) \in Nat /\ Round * Cardinality(Tab) \in Nat
    BY <1>2, <2>3, Products
  <2>5. sent'[t] + Left(t)' + Round * Cardinality(Spoilers(t)) <= Round * Cardinality(Tab) + 1
    BY <1>3, <2>2, <2>3, <2>4 DEF Budget
  <2> QED BY <1>2, <2>1, <2>5 DEF Budget
<1>6. ASSUME NEW u \in Tab, u # t PROVE Budget(u)'
  <2> DEFINE c == Cardinality(Spoilers(u)')
             b == Cardinality(Spoilers(u))
  <2>1. /\ Budget(u) /\ b \in Nat /\ Cardinality(Tab) \in Nat /\ IsFiniteSet(Spoilers(u))
        /\ sent'[u] = sent[u] /\ TriesOK(net[u], tab[u].tries)
    BY <1>1, <1>6, SpoilersFinite DEF RoundInv
  <2>2. Left(u)' = Remaining(net[u], tab[u].tries, jar'.access)
    BY <1>1, <1>3, <1>6
  <2>3. Spoilers(u)' \subseteq Spoilers(u)
    BY <1>1, <1>4 DEF Spoilers
  <2>4. c \in Nat /\ c <= b
    BY <2>1, <2>3, FS_Subset, FS_CardinalityType
  <2>5. Left(u)' + Round * c <= Left(u) + Round * b
    <3>1. CASE jar'.access = jar.access \/ Valid(jar'.access)
      <4>1. Left(u)' <= Left(u)
        BY <2>1, <2>2, <3>1, RemainingKept DEF Left
      <4>2. Round * c <= Round * b /\ Round * c \in Nat /\ Round * b \in Nat
        BY <1>2, <2>1, <2>4, Products
      <4> QED BY <1>3, <4>1, <4>2
    <3>2. CASE Spoils(net[t]) /\ ~Spoils(y)
      <4>1. Left(u)' <= Left(u) + Round
        BY <2>1, <2>2, RemainingJumps DEF Left
      <4>2. t \in Spoilers(u) /\ Spoilers(u)' = Spoilers(u) \ {t}
        BY <1>1, <1>4, <1>6, <3>2 DEF Spoilers
      <4>3. b = c + 1
        <5>1. Cardinality(Spoilers(u) \ {t}) = Cardinality(Spoilers(u)) - 1
          BY <2>1, <4>2, FS_RemoveElement
        <5> QED BY <2>1, <4>2, <5>1
      <4>4. Round * b = Round * c + Round /\ Round * c \in Nat
        BY <1>2, <2>1, <2>4, <4>3, Products
      <4> QED BY <1>2, <1>3, <4>1, <4>4
    <3> QED BY <3>1, <3>2
  <2>6. Round * b \in Nat /\ Round * c \in Nat /\ Round * Cardinality(Tab) \in Nat
    BY <1>2, <2>1, <2>4, Products
  <2>7. sent'[u] + Left(u)' + Round * c <= Round * Cardinality(Tab) + 1
    BY <1>3, <2>1, <2>5, <2>6 DEF Budget
  <2> QED BY <1>2, <2>7 DEF Budget
<1> QED BY <1>2, <1>3, <1>5, <1>6 DEF RoundInv

----------------------------------------------------------------------------
\* The steps of the servers, the browser and the user

\* What answering a request makes of it.
LEMMA AnswerGives ==
    ASSUME TypeInv, NEW t \in Tab, NEW status, status # "none", NEW a, NEW b, NEW c,
           AnswerWith(t, status, a, b, c)
    PROVE  \E y : /\ net' = [net EXCEPT ![t] = y] /\ y.kind = net[t].kind
                  /\ y.answer # NoAnswer /\ y.answer.status = status /\ y.answer.access = a
<1> DEFINE ans == [status |-> status, access |-> a, refresh |-> b, csrf |-> c]
           y == [net[t] EXCEPT !.at = now, !.jar = NoCookies, !.header = 0, !.answer = ans]
<1>1. net[t] \in RequestSet
  BY DEF TypeInv
<1>2. ans.status = status /\ ans.access = a /\ ans # NoAnswer
  BY DEF NoAnswer
<1>3. net' = [net EXCEPT ![t].at = now, ![t].jar = NoCookies, ![t].header = 0, ![t].answer = ans]
  BY DEF AnswerWith
<1> HIDE DEF ans
<1>4. y.kind = net[t].kind /\ y.answer = ans
  BY <1>1 DEF RequestSet
<1>5. net \in [Tab -> RequestSet]
  BY DEF TypeInv
<1> HIDE DEF RequestSet
<1>6. net' = [net EXCEPT ![t] = y]
  BY <1>3, <1>5
<1> QED BY <1>2, <1>4, <1>6

\* A request is answered: the tab, the jar and the counts are as before.
LEMMA ServedInBudget ==
    ASSUME TypeInv, RoundInv, UNCHANGED <<now, jar, tab, sent>>, NEW t \in Tab,
           NEW status, status # "none", NEW a, NEW b, NEW c, AnswerWith(t, status, a, b, c),
           \A y : (y.kind = net[t].kind /\ y.answer # NoAnswer /\ y.answer.status = status
                     /\ y.answer.access = a)
                  => /\ Remaining(y, tab[t].tries, jar.access) <= Left(t)
                     /\ Spoils(y) => Spoils(net[t])
    PROVE  RoundInv'
<1>1. PICK y : /\ net' = [net EXCEPT ![t] = y] /\ y.kind = net[t].kind
               /\ y.answer # NoAnswer /\ y.answer.status = status /\ y.answer.access = a
  BY AnswerGives
<1>2. Remaining(y, tab[t].tries, jar.access) <= Left(t) /\ (Spoils(y) => Spoils(net[t]))
  BY <1>1
<1>3. TriesOK(y, tab[t].tries)
  BY <1>1 DEF RoundInv, TriesOK
<1>4. sent' = [sent EXCEPT ![t] = sent[t]] /\ sent[t] \in Nat
  BY DEF RoundInv
<1>5. Remaining(y, tab[t].tries, jar.access) \in 0 .. Round + 1 /\ Left(t) \in 0 .. Round + 1
  BY <1>3, RemainingType DEF RoundInv, Left
<1>6. sent[t] + Remaining(y, tab[t].tries, jar'.access) <= sent[t] + Left(t)
  BY <1>2, <1>4, <1>5, RoundType
<1> QED BY <1>1, <1>2, <1>3, <1>4, <1>6, BudgetStep

\* ... and its answer sets no access token.
LEMMA AnsweredInBudget ==
    ASSUME TypeInv, RoundInv, UNCHANGED <<now, jar, tab, sent>>, NEW t \in Tab,
           NEW status, status # "none", Answer(t, status),
           \A y : (y.kind = net[t].kind /\ y.answer # NoAnswer /\ y.answer.status = status
                     /\ y.answer.access = Keep)
                  => Remaining(y, tab[t].tries, jar.access) <= Left(t)
    PROVE  RoundInv'
<1>1. AnswerWith(t, status, Keep, Keep, Keep)
  BY DEF Answer
<1>2. \A y : y.answer # NoAnswer /\ y.answer.access = Keep => ~Spoils(y)
  BY DEF Spoils, Keep
<1> QED BY <1>1, <1>2, ServedInBudget

LEMMA PagesInBudget ==
    ASSUME TypeInv, RoundInv, NEW t \in Tab,
           ServeDocument(t) \/ ServeMe(t) \/ ServeLoginPage(t) \/ ServeCall(t)
    PROVE  RoundInv'
<1>1. UNCHANGED <<now, jar, tab, sent>> /\ net[t].answer = NoAnswer
  BY DEF ServeDocument, ServeMe, ServeLoginPage, ServeCall, Unserved
<1>2. net[t] \in RequestSet /\ net[t].jar.access \in MaybeAccess /\ now \in Nat
      /\ TriesOK(net[t], tab[t].tries) /\ sent[t] \in Nat
  BY DEF TypeInv, RequestSet, Cookies, RoundInv
<1>3. CASE ServeDocument(t)
  <2>1. net[t].kind = "document" /\ Left(t) = Gate(net[t].jar.access)
    BY <1>1, <1>3 DEF ServeDocument, Unserved, Left, Remaining, AfterGated
  <2>2. CASE net[t].jar.access = None /\ Answer(t, "to_login")
    BY <1>1, <2>1, <2>2, AnsweredInBudget DEF Remaining, AfterGated, Gate
  <2>3. CASE Expired(net[t].jar.access) /\ Answer(t, "bootstrap")
    BY <1>1, <2>1, <2>3, AnsweredInBudget, RoundType DEF Remaining, AfterGated, Gate, Expired
  <2>4. CASE Valid(net[t].jar.access) /\ net' = [net EXCEPT ![t].kind = "me", ![t].at = now]
    <3> DEFINE y == [net[t] EXCEPT !.kind = "me", !.at = now]
    <3>1. y.kind = "me" /\ y.answer = NoAnswer /\ y.jar = net[t].jar
      BY <1>1, <1>2 DEF RequestSet
    <3>2. net' = [net EXCEPT ![t] = y]
      BY <2>4 DEF TypeInv
    <3> HIDE DEF y
    <3>3. Remaining(y, tab[t].tries, jar'.access) = 0 /\ Left(t) = 0
      BY <2>1, <2>4, <3>1 DEF Remaining, AfterMe, Gate, Valid
    <3>4. ~Spoils(y)
      BY <2>4, <3>1 DEF Spoils, NoAnswer, Keep
    <3>5. TriesOK(y, tab[t].tries) /\ sent' = [sent EXCEPT ![t] = sent[t]]
      BY <1>1, <1>2, <2>1, <3>1 DEF TriesOK, RoundInv
    <3>6. sent[t] + Remaining(y, tab[t].tries, jar'.access) <= sent[t] + Left(t)
      BY <1>2, <3>3
    <3> QED BY <1>1, <1>2, <3>2, <3>4, <3>5, <3>6, BudgetStep
  <2> QED BY <1>3, <2>2, <2>3, <2>4 DEF ServeDocument
<1>4. CASE ServeMe(t)
  <2>1. net[t].kind = "me" /\ Left(t) = IF Valid(net[t].jar.access) THEN 0 ELSE 2
    BY <1>1, <1>4 DEF ServeMe, Unserved, Left, Remaining, AfterMe
  <2>2. CASE Answer(t, "page") /\ handle_me(net[t].jar.access)
    BY <1>1, <2>1, <2>2, AnsweredInBudget DEF Remaining, AfterMe, handle_me
  <2>3. CASE redirect_unauthorized(t) /\ ~handle_me(net[t].jar.access)
    <3>1. Spoils(net[t]) /\ Left(t) = 2
      BY <1>1, <2>1, <2>3 DEF Spoils, handle_me
    <3>2. AnswerWith(t, "to_login", {None}, Keep, Keep)
      BY <2>3 DEF redirect_unauthorized
    <3>3. \A y : y.kind = "me" /\ y.answer # NoAnswer /\ y.answer.status = "to_login" =>
                 Remaining(y, tab[t].tries, jar.access) = 2
      BY DEF Remaining, AfterMe
    <3> QED BY <1>1, <2>1, <3>1, <3>2, <3>3, ServedInBudget
  <2> QED BY <1>4, <2>2, <2>3 DEF ServeMe
<1>5. CASE ServeLoginPage(t)
  <2>1. net[t].kind = "login_page"
    BY <1>5 DEF ServeLoginPage, Unserved
  <2>2. net[t].answer.access = Keep /\ net[t].answer.status = "none"
    BY <1>1 DEF NoAnswer
  <2>3. Left(t) = IF Valid(net[t].jar.access) THEN Reload(net[t], jar.access) ELSE 1
    BY <1>1, <2>1, <2>2 DEF Left, Remaining, AfterLoginPage
  <2>4. \A y : y.answer.access = Keep => Reload(y, jar.access) = Reload(net[t], jar.access)
    BY <2>2 DEF Reload
  <2>5. CASE Valid(net[t].jar.access)
    <3>1. Answer(t, "to_next")
      BY <1>5, <2>5 DEF ServeLoginPage
    <3>2. Reload(net[t], jar.access) \in Nat
      BY RoundType DEF Reload
    <3> QED BY <1>1, <2>1, <2>3, <2>4, <2>5, <3>1, <3>2, AnsweredInBudget DEF Remaining, AfterLoginPage
  <2>6. CASE ~Valid(net[t].jar.access)
    <3>1. Answer(t, "form")
      BY <1>5, <2>6 DEF ServeLoginPage
    <3> QED BY <1>1, <2>1, <2>3, <2>6, <3>1, AnsweredInBudget DEF Remaining, AfterLoginPage
  <2> QED BY <2>5, <2>6
<1>6. CASE ServeCall(t)
  <2> DEFINE status == IF Valid(net[t].jar.access) THEN "ok"
                       ELSE IF Expired(net[t].jar.access) THEN "soft" ELSE "hard"
  <2>1. Answer(t, status) /\ net[t].kind \in {"call", "retry"} /\ status # "none"
    BY <1>6 DEF ServeCall, Unserved
  <2>2. ASSUME NEW y, y.kind = net[t].kind, y.answer # NoAnswer, y.answer.status = status
        PROVE  Remaining(y, tab[t].tries, jar.access) <= Left(t)
    <3>1. CASE net[t].kind = "retry"
      BY <2>2, <3>1 DEF Left, Remaining
    <3>2. CASE net[t].kind = "call"
      <4>1. Left(t) = Gate(net[t].jar.access) /\ Remaining(y, tab[t].tries, jar.access) = AfterGated(y)
        BY <1>1, <2>2, <3>2 DEF Left, Remaining, AfterGated
      <4>2. AfterGated(y) = IF Valid(net[t].jar.access) THEN 0
                            ELSE IF Expired(net[t].jar.access) THEN Round ELSE 2
        BY <2>2 DEF AfterGated
      <4>3. Valid(net[t].jar.access) => net[t].jar.access # None
        BY DEF Valid
      <4> QED BY <4>1, <4>2, <4>3, RoundType DEF Gate, Expired
    <3> QED BY <2>1, <3>1, <3>2
  <2> HIDE DEF status
  <2> QED BY <1>1, <2>1, <2>2, AnsweredInBudget
<1> QED BY <1>3, <1>4, <1>5, <1>6

LEMMA CsrfInBudget ==
    ASSUME TypeInv, RoundInv, NEW t \in Tab, ServeCsrf(t)
    PROVE  RoundInv'
<1>1. UNCHANGED <<now, jar, tab, sent>> /\ net[t].kind = "csrf"
  BY DEF ServeCsrf, Unserved
<1>2. PICK fresh : AnswerWith(t, "ok", Keep, Keep, {fresh})
  BY DEF ServeCsrf
<1>3. Left(t) \in Nat
  BY RemainingType DEF RoundInv, Left
<1>4. \A y : y.kind = "csrf" => Remaining(y, tab[t].tries, jar.access) = Left(t)
  BY <1>1 DEF Remaining, Left
<1>5. \A y : y.answer # NoAnswer /\ y.answer.access = Keep => ~Spoils(y)
  BY DEF Spoils, Keep
<1> QED BY <1>1, <1>2, <1>3, <1>4, <1>5, ServedInBudget

\* A new access token is valid.
LEMMA NewTokenValid ==
    ASSUME NEW s, now \in Nat
    PROVE  Valid(<<s, now + AccessTtl>>)
BY TransitAssumption DEF Valid, None

LEMMA RefreshInBudget ==
    ASSUME TypeInv, RoundInv, NEW t \in Tab, ServeRefresh(t) \/ RefreshFails(t)
    PROVE  RoundInv'
<1>1. UNCHANGED <<now, jar, tab, sent>> /\ net[t].kind = "refresh" /\ net[t].answer = NoAnswer
  BY DEF ServeRefresh, RefreshFails, Unserved
<1>2. net[t] \in RequestSet /\ net[t].jar.access \in MaybeAccess /\ now \in Nat
      /\ TriesOK(net[t], tab[t].tries)
  BY DEF TypeInv, RequestSet, Cookies, RoundInv
<1>3. More(tab[t].tries) \in 2 .. Round
  BY <1>1, <1>2, RoundType DEF More, TriesOK
<1>4. Left(t) = IF Valid(net[t].jar.access) /\ ~Valid(jar.access) THEN Round + 1 ELSE More(tab[t].tries)
  BY <1>1 DEF Left, Remaining, AfterRefresh
<1>5. Left(t) \in 2 .. Round + 1 /\ More(tab[t].tries) <= Left(t)
  BY <1>3, <1>4, RoundType
<1>6. ASSUME NEW status \in {"soft", "hard", "forbidden", "error"}, Answer(t, status)
      PROVE  RoundInv'
  <2>1. ASSUME NEW y, y.kind = "refresh", y.answer # NoAnswer, y.answer.status = status
        PROVE  Remaining(y, tab[t].tries, jar.access) <= Left(t)
    <3>1. Remaining(y, tab[t].tries, jar.access) \in {2, More(tab[t].tries)}
      BY <1>6, <2>1 DEF Remaining, AfterRefresh
    <3> QED BY <1>5, <3>1, RoundType
  <2> QED BY <1>1, <1>6, <2>1, AnsweredInBudget
<1>7. ASSUME NEW s \in Session, Rotate(net[t], s), NEW a, NEW b, NEW c,
             a = IF access_expired(net[t].jar.access) THEN {<<s, now + AccessTtl>>} ELSE Keep,
             AnswerWith(t, "ok", a, b, c)
      PROVE  RoundInv'
  <2>1. net[t].jar.access # None /\ net[t].jar.access[2] \in Nat
    BY <1>2, <1>7 DEF Rotate, Rotates, Presents, MaybeAccess
  <2>2. access_expired(net[t].jar.access) <=> ~Valid(net[t].jar.access)
    BY <1>2, <2>1 DEF access_expired, Valid
  <2>3. \A access \in a : Valid(access)
    BY <1>2, <1>7, NewTokenValid DEF Keep
  <2>4. ASSUME NEW y, y.kind = "refresh", y.answer # NoAnswer, y.answer.status = "ok",
               y.answer.access = a
        PROVE  Remaining(y, tab[t].tries, jar.access) <= Left(t) /\ ~Spoils(y)
    <3>1. Remaining(y, tab[t].tries, jar.access) = Reload(y, jar.access)
      BY <2>4 DEF Remaining, AfterRefresh
    <3>2. ~Spoils(y)
      BY <2>3, <2>4 DEF Spoils
    <3>3. CASE Valid(Or(a, jar.access))
      BY <1>5, <2>4, <3>1, <3>2, <3>3, RoundType DEF Reload
    <3>4. CASE ~Valid(Or(a, jar.access))
      <4>1. Or({<<s, now + AccessTtl>>}, jar.access) = <<s, now + AccessTtl>>
        BY DEF Or, Keep
      <4>2. a = Keep /\ Valid(net[t].jar.access)
        BY <1>2, <1>7, <2>2, <3>4, <4>1, NewTokenValid
      <4>3. ~Valid(jar.access)
        BY <3>4, <4>2 DEF Or
      <4>4. Left(t) = Round + 1 /\ Reload(y, jar.access) <= Round + 1
        BY <1>4, <4>2, <4>3, RoundType DEF Reload
      <4> QED BY <3>1, <3>2, <4>4
    <3> QED BY <3>3, <3>4
  <2> QED BY <1>1, <1>7, <2>4, ServedInBudget
<1>8. CASE ServeRefresh(t)
  <2>1. Refused(net[t]) \in {"forbidden", "hard"}
    BY DEF Refused
  <2> QED BY <1>6, <1>7, <1>8, <2>1 DEF ServeRefresh, SoftAnswer
<1>9. CASE RefreshFails(t)
  BY <1>6, <1>9 DEF RefreshFails
<1> QED BY <1>8, <1>9

LEMMA FormsInBudget ==
    ASSUME TypeInv, RoundInv, NEW t \in Tab, ServeLogin(t) \/ ServeLogout(t)
    PROVE  RoundInv'
<1>1. UNCHANGED <<now, jar, tab, sent>> /\ net[t].answer = NoAnswer /\ now \in Nat
  BY DEF ServeLogin, ServeLogout, Unserved, TypeInv
<1>2. CASE ServeLogin(t)
  <2>1. net[t].kind = "login" /\ Left(t) = 1
    BY <1>1, <1>2 DEF ServeLogin, Unserved, Left, Remaining, AfterLogin
  <2>2. CASE Answer(t, "forbidden")
    BY <1>1, <2>1, <2>2, AnsweredInBudget DEF Remaining, AfterLogin
  <2>3. ASSUME NEW s \in Session, NEW b, NEW c,
               AnswerWith(t, "ok", {<<s, now + AccessTtl>>}, b, c)
        PROVE  RoundInv'
    <3>1. Or({<<s, now + AccessTtl>>}, jar.access) = <<s, now + AccessTtl>>
      BY DEF Or, Keep
    <3>2. ASSUME NEW y, y.kind = "login", y.answer # NoAnswer, y.answer.status = "ok",
                 y.answer.access = {<<s, now + AccessTtl>>}
          PROVE  Remaining(y, tab[t].tries, jar.access) = 1 /\ ~Spoils(y)
      <4>1. Remaining(y, tab[t].tries, jar.access) = Reload(y, jar.access)
        BY <3>2 DEF Remaining, AfterLogin
      <4>2. Reload(y, jar.access) = 1
        BY <1>1, <3>1, <3>2, NewTokenValid DEF Reload
      <4> QED BY <1>1, <3>2, <4>1, <4>2, NewTokenValid DEF Spoils
    <3> QED BY <1>1, <2>1, <2>3, <3>2, ServedInBudget
  <2> QED BY <1>2, <2>2, <2>3 DEF ServeLogin
<1>3. CASE ServeLogout(t)
  <2>1. net[t].kind = "logout" /\ Left(t) = 2 /\ Spoils(net[t])
    BY <1>1, <1>3 DEF ServeLogout, Unserved, Left, Remaining, AfterLogout, Spoils
  <2>2. CASE Answer(t, "error")
    BY <1>1, <2>1, <2>2, AnsweredInBudget DEF Remaining, AfterLogout
  <2>3. CASE AnswerWith(t, "signed_out", {None}, {None}, Keep)
    BY <1>1, <2>1, <2>3, ServedInBudget DEF Remaining, AfterLogout
  <2> QED BY <1>3, <2>2, <2>3 DEF ServeLogout
<1> QED BY <1>2, <1>3

\* An answer lands, and what the tab does next costs what it had left.
LEMMA LandInBudget ==
    ASSUME TypeInv, RoundInv, NEW t \in Tab, NEW kind, NEW status, status # "none",
           NEW shows, NEW next, Lands(t, kind, status, shows, next),
           next \in {"none", "login_page", "csrf", "document", "retry", "refresh"},
           \A y : y.kind = next => TriesOK(y, shows.tries),
           next = "none" => shows.tries = 0 \/ (kind = "csrf" /\ shows.tries = tab[t].tries),
           \A y : next # "none" /\ y.kind = next /\ y.answer = NoAnswer /\ y.jar.access = jar'.access
                  => 1 + Remaining(y, shows.tries, y.jar.access) <= Left(t)
    PROVE  RoundInv'
<1> DEFINE y == IF next = "none" THEN NoRequest
                ELSE Request(next, jar', IF next = "refresh" THEN jar'.csrf ELSE 0)
           n == IF next # "none" THEN sent[t] + 1 ELSE IF shows.tries = 0 THEN 0 ELSE sent[t]
<1>1. /\ net[t].kind = kind /\ net[t].answer.status = status /\ now' = now
      /\ jar' = Stored(net[t].answer) /\ tab' = [tab EXCEPT ![t] = shows]
      /\ net' = [net EXCEPT ![t] = y] /\ sent' = [sent EXCEPT ![t] = n]
  BY DEF Lands, RoundInv
<1>2. y.kind = next /\ y.answer = NoAnswer /\ (next # "none" => y.jar.access = jar'.access)
  BY DEF NoRequest, Request
<1>3. n \in Nat /\ sent[t] \in Nat /\ Left(t) \in Nat
  <2>1. Left(t) \in 0 .. Round + 1
    BY RemainingType DEF RoundInv, Left
  <2> QED BY <2>1, RoundType DEF RoundInv
<1>4. n + Remaining(y, shows.tries, jar'.access) <= sent[t] + Left(t)
  <2>1. CASE next # "none"
    <3>1. 1 + Remaining(y, shows.tries, jar'.access) <= Left(t)
      BY <1>2, <2>1
    <3>2. Remaining(y, shows.tries, jar'.access) \in 0 .. Round + 1
      BY <1>2, RemainingType
    <3> QED BY <1>3, <2>1, <3>1, <3>2, RoundType
  <2>2. CASE next = "none" /\ shows.tries = 0
    <3>1. Remaining(y, shows.tries, jar'.access) = 0 /\ n = 0
      BY <1>2, <2>2 DEF Remaining
    <3> QED BY <1>3, <3>1
  <2>3. CASE next = "none" /\ shows.tries # 0
    <3>1. Remaining(y, shows.tries, jar'.access) = Left(t) /\ n = sent[t]
      BY <1>1, <1>2, <2>3 DEF Remaining, Left
    <3> QED BY <1>3, <3>1
  <2> QED BY <2>1, <2>2, <2>3
<1>5. ~Spoils(y) /\ TriesOK(y, shows.tries)
  BY <1>2 DEF Spoils, NoAnswer, Keep
<1>6. jar'.access = jar.access \/ Valid(jar'.access) \/ Spoils(net[t])
  <2>1. net[t].answer.access \in AccessSetting /\ jar.access \in MaybeAccess
    BY DEF TypeInv, RequestSet, AnswerSet, Cookies
  <2>2. jar'.access = Or(net[t].answer.access, jar.access)
    BY <1>1 DEF Stored
  <2>3. \/ Or(net[t].answer.access, jar.access) = jar.access
        \/ \E v \in MaybeAccess : net[t].answer.access = {v} /\ Or(net[t].answer.access, jar.access) = v
    BY <2>1, OrStores DEF AccessSetting
  <2> QED BY <2>2, <2>3 DEF Spoils
<1>7. \A u \in Tab : tab'[u].tries = IF u = t THEN shows.tries ELSE tab[u].tries
  BY <1>1 DEF TypeInv
<1> HIDE DEF y, n
<1> QED BY <1>1, <1>3, <1>4, <1>5, <1>6, <1>7, BudgetStep

\* What a request leaves its tab when it is sent.
LEMMA NextCosts ==
    ASSUME NEW access, NEW tries \in 0 .. MaxRetries, NEW y, y.answer = NoAnswer, y.jar.access = access
    PROVE  LET left == Remaining(y, tries, y.jar.access) IN
           /\ y.kind = "login_page" => left = 1
           /\ y.kind = "retry" => left = 0
           /\ y.kind = "document" => left <= Round /\ (Valid(access) => left = 0)
           /\ y.kind = "refresh" => left = MaxRetries - tries + 2
           /\ y.kind = "csrf" => left = IF tries = 0 THEN 0 ELSE MaxRetries + 2
<1>1. Gate(access) <= Round /\ (Valid(access) => Gate(access) = 0)
  BY RoundType DEF Gate, Valid
<1>2. y.kind = "csrf" => Remaining(y, tries, y.jar.access) = IF tries = 0 THEN 0 ELSE MaxRetries + 2
  BY DEF Remaining
<1> QED BY <1>1, <1>2, RemainingSent DEF More

LEMMA AnswersInBudget ==
    ASSUME TypeInv, RoundInv, NEW t \in Tab,
           \/ DocumentLands(t) \/ CsrfLands(t) \/ RefreshLands(t)
           \/ CallLands(t) \/ LoginLands(t) \/ LogoutLands(t)
    PROVE  RoundInv'
<1>1. tab[t] \in TabSet /\ TriesOK(net[t], tab[t].tries) /\ tab[t].tries \in 0 .. MaxRetries
  BY DEF TypeInv, RoundInv, TriesOK
<1>2. /\ \A k : Trying(t, k).tries = k /\ Showing(t, k).tries = 0
      /\ triesAgain(t).tries = tab[t].tries + 1
      /\ \A c : [tab[t] EXCEPT !.csrf = c].tries = tab[t].tries
  BY <1>1 DEF Trying, Showing, triesAgain, TabSet
<1>3. Left(t) \in 0 .. Round + 1
  BY RemainingType DEF RoundInv, Left
<1>4. ASSUME NEW kind, NEW status, NEW shows, NEW next, Lands(t, kind, status, shows, next)
      PROVE  /\ net[t].kind = kind /\ net[t].answer.status = status
             /\ status # "none" => net[t].answer # NoAnswer
             /\ jar'.access = Or(net[t].answer.access, jar.access)
  BY <1>4 DEF Lands, Stored, NoAnswer
\* The tab stops, goes to the login page, fetches a document or a CSRF token.
<1>5. ASSUME NEW kind, NEW status, status # "none", NEW shows, shows.tries = 0,
             Lands(t, kind, status, shows, "none")
      PROVE  RoundInv'
  <2>1. \A y : y.kind = "none" => TriesOK(y, shows.tries)
    BY <1>5, RoundType DEF TriesOK
  <2> QED BY <1>5, <2>1, LandInBudget
<1>6. ASSUME NEW kind, NEW status, status # "none", NEW shows, shows.tries = 0,
             Lands(t, kind, status, shows, "login_page"), Left(t) >= 2
      PROVE  RoundInv'
  <2>1. \A y : y.kind = "login_page" => TriesOK(y, shows.tries)
    BY <1>6, RoundType DEF TriesOK
  <2>2. \A y : y.kind = "login_page" /\ y.answer = NoAnswer => Remaining(y, shows.tries, y.jar.access) = 1
    BY <1>6, NextCosts, RoundType
  <2> QED BY <1>3, <1>6, <2>1, <2>2, LandInBudget
<1>7. ASSUME NEW kind, NEW status, status # "none", NEW shows, shows.tries = 0,
             NEW next \in {"document", "retry"},
             Lands(t, kind, status, shows, next), Left(t) = Reload(net[t], jar.access)
      PROVE  RoundInv'
  <2>1. \A y : y.kind = next => TriesOK(y, shows.tries)
    BY <1>7, RoundType DEF TriesOK
  <2>2. Left(t) = IF Valid(jar'.access) THEN 1 ELSE Round + 1
    BY <1>4, <1>7 DEF Reload
  <2>3. ASSUME NEW y, y.kind = next, y.answer = NoAnswer, y.jar.access = jar'.access
        PROVE  1 + Remaining(y, shows.tries, y.jar.access) <= Left(t)
    <3>1. /\ Remaining(y, shows.tries, y.jar.access) <= Round
          /\ Valid(jar'.access) => Remaining(y, shows.tries, y.jar.access) = 0
      BY <1>7, <2>3, NextCosts, RoundType
    <3>2. Remaining(y, shows.tries, y.jar.access) \in 0 .. Round + 1
      BY <2>1, <2>3, RemainingType
    <3> QED BY <2>2, <3>1, <3>2, RoundType
  <2> QED BY <1>7, <2>1, <2>3, LandInBudget
<1>8. ASSUME NEW kind, NEW status, status # "none", NEW shows, shows.tries \in {0, 1},
             Lands(t, kind, status, shows, "csrf"), Left(t) >= 1, shows.tries = 1 => Left(t) >= Round
      PROVE  RoundInv'
  <2>1. \A y : y.kind = "csrf" => TriesOK(y, shows.tries)
    BY <1>8, RoundType DEF TriesOK
  <2>2. ASSUME NEW y, y.kind = "csrf", y.answer = NoAnswer
        PROVE  1 + Remaining(y, shows.tries, y.jar.access) <= Left(t)
    <3>1. Remaining(y, shows.tries, y.jar.access) = IF shows.tries = 0 THEN 0 ELSE MaxRetries + 2
      BY <2>2 DEF Remaining
    <3> QED BY <1>3, <1>8, <3>1, RoundType
  <2> QED BY <1>8, <2>1, <2>2, LandInBudget
<1>9. CASE DocumentLands(t)
  <2>1. CASE Lands(t, "document", "to_login", tab[t], "login_page")
    <3>1. Left(t) = 2 /\ tab[t].tries = 0
      BY <1>1, <1>4, <2>1 DEF Left, Remaining, AfterGated, TriesOK
    <3> QED BY <1>6, <2>1, <3>1
  <2>2. CASE Lands(t, "me", "to_login", tab[t], "login_page")
    <3>1. Left(t) = 2 /\ tab[t].tries = 0
      BY <1>1, <1>4, <2>2 DEF Left, Remaining, AfterMe, TriesOK
    <3> QED BY <1>6, <2>2, <3>1
  <2>3. CASE Lands(t, "me", "page", Showing(t, "app"), "none")
    BY <1>2, <1>5, <2>3
  <2>4. CASE Lands(t, "document", "bootstrap", [page |-> "blank", tries |-> 1, csrf |-> 0], "csrf")
    <3>1. Left(t) = Round
      BY <1>4, <2>4 DEF Left, Remaining, AfterGated
    <3>2. [page |-> "blank", tries |-> 1, csrf |-> 0].tries = 1
      OBVIOUS
    <3> QED BY <1>8, <2>4, <3>1, <3>2, RoundType
  <2>5. CASE Lands(t, "login_page", "to_next", tab[t], "document")
    <3>1. Left(t) = Reload(net[t], jar.access) /\ tab[t].tries = 0
      BY <1>1, <1>4, <2>5 DEF Left, Remaining, AfterLoginPage, TriesOK
    <3> QED BY <1>7, <2>5, <3>1
  <2>6. CASE Lands(t, "login_page", "form", Showing(t, "login"), "csrf")
    <3>1. Left(t) = 1
      BY <1>4, <2>6 DEF Left, Remaining, AfterLoginPage
    <3> QED BY <1>2, <1>8, <2>6, <3>1
  <2> QED BY <1>9, <2>1, <2>2, <2>3, <2>4, <2>5, <2>6 DEF DocumentLands
<1>10. CASE CsrfLands(t)
  <2> DEFINE shows == [tab[t] EXCEPT !.csrf = Or(net[t].answer.csrf, 0)]
  <2>1. Lands(t, "csrf", "ok", shows, "none") /\ shows.tries = tab[t].tries
    BY <1>2, <1>10 DEF CsrfLands
  <2>2. \A y : y.kind = "none" => TriesOK(y, shows.tries)
    BY <1>1, <1>4, <2>1 DEF TriesOK
  <2> HIDE DEF shows
  <2> QED BY <2>1, <2>2, LandInBudget
<1>11. CASE RefreshLands(t)
  <2>1. ASSUME NEW status, net[t].kind = "refresh", net[t].answer # NoAnswer,
               net[t].answer.status = status
        PROVE  Left(t) = IF status = "ok" THEN Reload(net[t], jar.access)
                         ELSE IF status = "soft" THEN MaxRetries - tab[t].tries + 2 ELSE 2
    BY <2>1 DEF Left, Remaining, AfterRefresh, More
  <2>2. Trying(t, 0).tries = 0
    BY <1>2
  <2>3. CASE Lands(t, "refresh", "ok", Trying(t, 0), "document") \/ Lands(t, "refresh", "ok", Trying(t, 0), "retry")
    BY <1>4, <1>7, <2>1, <2>2, <2>3
  <2>4. CASE tab[t].tries < MaxRetries /\ Lands(t, "refresh", "soft", triesAgain(t), "refresh")
    <3>1. Left(t) = MaxRetries - tab[t].tries + 2
      BY <1>4, <2>1, <2>4
    <3>2. triesAgain(t).tries \in 1 .. MaxRetries
      BY <1>1, <1>2, <2>4, RoundType
    <3>3. \A y : y.kind = "refresh" => TriesOK(y, triesAgain(t).tries)
      BY <3>2, RoundType DEF TriesOK
    <3>4. ASSUME NEW y, y.kind = "refresh", y.answer = NoAnswer
          PROVE  1 + Remaining(y, triesAgain(t).tries, y.jar.access) <= Left(t)
      <4>1. Remaining(y, triesAgain(t).tries, y.jar.access) = MaxRetries - (tab[t].tries + 1) + 2
        <5>1. ASSUME NEW k \in 0 .. MaxRetries
              PROVE  Remaining(y, k, y.jar.access) = MaxRetries - k + 2
          BY <3>4, NextCosts
        <5> QED BY <1>2, <3>2, <5>1, RoundType
      <4> QED BY <1>1, <3>1, <4>1, RoundType
    <3> DEFINE shows == triesAgain(t)
    <3>5. Lands(t, "refresh", "soft", shows, "refresh")
      BY <2>4
    <3>6. /\ \A y : y.kind = "refresh" => TriesOK(y, shows.tries)
          /\ \A y : y.kind = "refresh" /\ y.answer = NoAnswer
                 => 1 + Remaining(y, shows.tries, y.jar.access) <= Left(t)
      BY <3>3, <3>4
    <3> HIDE DEF shows
    <3> QED BY <3>5, <3>6, LandInBudget
  <2>5. CASE Lands(t, "refresh", "soft", Trying(t, 0), "login_page")
    <3>1. Left(t) = MaxRetries - tab[t].tries + 2
      BY <1>4, <2>1, <2>5
    <3>2. Left(t) >= 2
      BY <1>1, <3>1, RoundType
    <3> QED BY <1>6, <2>2, <2>5, <3>2
  <2>6. ASSUME NEW status \in {"forbidden", "hard", "error"},
               Lands(t, "refresh", status, Trying(t, 0), "login_page")
        PROVE  RoundInv'
    <3>1. Left(t) = 2
      BY <1>4, <2>1, <2>6
    <3> QED BY <1>6, <2>2, <2>6, <3>1
  <2> QED BY <1>11, <2>3, <2>4, <2>5, <2>6 DEF RefreshLands
<1>12. CASE CallLands(t)
  <2>1. ASSUME NEW k \in {"call", "retry"}, net[t].kind = k PROVE tab[t].tries = 0
    BY <1>1, <2>1 DEF TriesOK
  <2>2. CASE Lands(t, "call", "ok", tab[t], "none")
    BY <1>4, <1>5, <2>1, <2>2
  <2>3. CASE Lands(t, "call", "soft", Trying(t, 1), "csrf")
    <3>1. Left(t) = Round
      BY <1>4, <2>3 DEF Left, Remaining, AfterGated
    <3> QED BY <1>2, <1>8, <2>3, <3>1, RoundType
  <2>4. CASE Lands(t, "call", "hard", tab[t], "login_page")
    <3>1. Left(t) = 2 /\ tab[t].tries = 0
      BY <1>4, <2>1, <2>4 DEF Left, Remaining, AfterGated
    <3> QED BY <1>6, <2>4, <3>1
  <2>5. ASSUME NEW status \in {"ok", "soft", "hard"}, Lands(t, "retry", status, tab[t], "none")
        PROVE  RoundInv'
    BY <1>4, <1>5, <2>1, <2>5
  <2> QED BY <1>12, <2>2, <2>3, <2>4, <2>5 DEF CallLands
<1>13. CASE LoginLands(t)
  <2>1. net[t].kind = "login" => tab[t].tries = 0
    BY <1>1 DEF TriesOK
  <2>2. CASE Lands(t, "login", "ok", tab[t], "document")
    <3>1. Left(t) = Reload(net[t], jar.access)
      BY <1>4, <2>2 DEF Left, Remaining, AfterLogin
    <3> QED BY <1>4, <1>7, <2>1, <2>2, <3>1
  <2>3. CASE Lands(t, "login", "forbidden", tab[t], "none")
    BY <1>4, <1>5, <2>1, <2>3
  <2> QED BY <1>13, <2>2, <2>3 DEF LoginLands
<1>14. CASE LogoutLands(t)
  <2>1. net[t].kind = "logout" => tab[t].tries = 0
    BY <1>1 DEF TriesOK
  <2>2. CASE Lands(t, "logout", "signed_out", tab[t], "login_page")
    <3>1. Left(t) = 2
      BY <1>4, <2>2 DEF Left, Remaining, AfterLogout
    <3> QED BY <1>4, <1>6, <2>1, <2>2, <3>1
  <2>3. CASE Lands(t, "logout", "error", tab[t], "none")
    BY <1>4, <1>5, <2>1, <2>3
  <2> QED BY <1>14, <2>2, <2>3 DEF LogoutLands
<1> QED BY <1>9, <1>10, <1>11, <1>12, <1>13, <1>14

\* The tab posts its first refresh, or loses its connection.
LEMMA TabInBudget ==
    ASSUME TypeInv, RoundInv, NEW t \in Tab, PostRefresh(t) \/ Breaks(t)
    PROVE  RoundInv'
<1>1. tab[t] \in TabSet /\ sent[t] \in Nat /\ now' = now /\ jar' = jar
      /\ tab \in [Tab -> TabSet] /\ Left(t) \in 0 .. Round + 1
  BY RemainingType DEF TypeInv, RoundInv, PostRefresh, Breaks, Left
<1>2. \A k : Trying(t, k).tries = k
  BY <1>1 DEF Trying, TabSet
<1>3. CASE PostRefresh(t)
  <2> DEFINE y == Request("refresh", jar, tab[t].csrf)
  <2>1. y.kind = "refresh" /\ y.answer = NoAnswer /\ y.jar = jar
    BY DEF Request
  <2>2. /\ net' = [net EXCEPT ![t] = y] /\ tab' = [tab EXCEPT ![t] = Trying(t, 1)]
        /\ sent' = [sent EXCEPT ![t] = sent[t] + 1] /\ net[t] = NoRequest /\ tab[t].tries = 1
    BY <1>3 DEF PostRefresh, RoundInv
  <2> HIDE DEF y
  <2>3. Left(t) = MaxRetries + 2
    BY <2>2 DEF Left, Remaining, NoRequest
  <2>4. Remaining(y, 1, jar'.access) = MaxRetries + 1
    BY <1>1, <2>1, RemainingSent, RoundType DEF More
  <2>5. TriesOK(y, 1) /\ ~Spoils(y)
    BY <2>1, RoundType DEF TriesOK, Spoils, NoAnswer, Keep
  <2>6. \A u \in Tab : tab'[u].tries = IF u = t THEN 1 ELSE tab[u].tries
    BY <1>1, <1>2, <2>2
  <2>7. sent[t] + 1 + Remaining(y, 1, jar'.access) <= sent[t] + Left(t) /\ sent[t] + 1 \in Nat
    BY <1>1, <2>3, <2>4, RoundType
  <2> QED BY <1>1, <2>2, <2>5, <2>6, <2>7, BudgetStep
<1>4. CASE Breaks(t)
  <2>1. /\ net' = [net EXCEPT ![t] = NoRequest] /\ tab' = [tab EXCEPT ![t] = Trying(t, 0)]
        /\ sent' = [sent EXCEPT ![t] = 0]
    BY <1>4 DEF Breaks
  <2>2. Remaining(NoRequest, 0, jar'.access) = 0 /\ TriesOK(NoRequest, 0) /\ ~Spoils(NoRequest)
    BY RoundType DEF Remaining, TriesOK, Spoils, NoRequest, NoAnswer, Keep
  <2>3. \A u \in Tab : tab'[u].tries = IF u = t THEN 0 ELSE tab[u].tries
    BY <1>1, <1>2, <2>1
  <2>4. 0 + Remaining(NoRequest, 0, jar'.access) <= sent[t] + Left(t)
    BY <1>1, <2>2
  <2> QED BY <1>1, <2>1, <2>2, <2>3, <2>4, BudgetStep
<1> QED BY <1>3, <1>4

\* The user acts: every count begins anew.
LEMMA UserInBudget ==
    ASSUME TypeInv, RoundInv, NEW t \in Tab,
           Visit(t) \/ Call(t) \/ SubmitLogin(t) \/ SubmitLogout(t)
    PROVE  RoundInv'
<1>1. /\ now' = now /\ jar' = jar /\ sent' = FirstOf(t)
      /\ tab \in [Tab -> TabSet] /\ net \in [Tab -> RequestSet]
  BY DEF Visit, Call, SubmitLogin, SubmitLogout, Send, TypeInv
<1>2. PICK y : /\ net' = [net EXCEPT ![t] = y] /\ y.answer = NoAnswer /\ y.jar = jar
               /\ y.kind \in {"document", "call", "login", "logout"}
  <2>1. PICK kind \in {"document", "call", "login", "logout"} : \E header :
            net' = [net EXCEPT ![t] = Request(kind, jar, header)]
    BY DEF Visit, Call, SubmitLogin, SubmitLogout, Send
  <2>2. PICK header : net' = [net EXCEPT ![t] = Request(kind, jar, header)]
    BY <2>1
  <2> DEFINE y == Request(kind, jar, header)
  <2>3. y.answer = NoAnswer /\ y.jar = jar /\ y.kind = kind
    BY DEF Request
  <2>4. net' = [net EXCEPT ![t] = y]
    BY <2>2
  <2> HIDE DEF y
  <2> QED BY <2>3, <2>4
<1>3. \A u \in Tab : tab'[u].tries = IF u = t THEN 0 ELSE tab[u].tries
  <2>1. CASE Visit(t)
    <3>1. Trying(t, 0).tries = 0 /\ tab' = [tab EXCEPT ![t] = Trying(t, 0)]
      BY <1>1, <2>1 DEF Visit, Trying, TabSet
    <3> QED BY <1>1, <3>1
  <2>2. CASE Call(t) \/ SubmitLogin(t) \/ SubmitLogout(t)
    BY <2>2 DEF Call, SubmitLogin, SubmitLogout, Send, Idle
  <2> QED BY <2>1, <2>2
<1>4. sent' \in [Tab -> Nat] /\ \A u \in Tab : sent'[u] = IF u = t THEN 1 ELSE 0
  BY <1>1 DEF FirstOf
<1>5. ASSUME NEW u \in Tab PROVE TriesOK(net[u], tab[u].tries)' /\ Budget(u)'
  <2>1. ASSUME NEW r, r = net'[u], NEW k, k = tab'[u].tries, NEW a, a = jar'.access
        PROVE  /\ TriesOK(r, k) /\ Remaining(r, k, a) \in 0 .. Round + 1
               /\ u = t => Remaining(r, k, a) <= Round
    <3>1. CASE u # t
      <4>1. r = net[u] /\ k = tab[u].tries
        BY <1>1, <1>2, <1>3, <2>1, <3>1
      <4> QED BY <3>1, <4>1, RemainingType DEF RoundInv
    <3>2. CASE u = t
      <4>1. r = y /\ k = 0 /\ a = y.jar.access
        BY <1>1, <1>2, <1>3, <2>1, <3>2
      <4>2. TriesOK(r, k)
        BY <1>2, <4>1, RoundType DEF TriesOK
      <4>3. Remaining(r, k, a) \in {Gate(a), 1, 2}
        <5>1. ASSUME NEW j \in 0 .. MaxRetries
              PROVE  Remaining(y, j, y.jar.access) \in {Gate(y.jar.access), 1, 2}
          BY <1>2, RemainingSent
        <5> QED BY <4>1, <5>1, RoundType
      <4>4. Gate(a) \in 0 .. Round
        BY RoundType DEF Gate
      <4> QED BY <4>2, <4>3, <4>4, RoundType
    <3> QED BY <3>1, <3>2
  <2>2. ASSUME NEW r, r = net'[u], NEW k, k = tab'[u].tries, NEW a, a = jar'.access
        PROVE  Left(u)' = Remaining(r, k, a)
    BY <1>1, <2>2, RankLasts DEF Left
  <2>3. Left(u)' \in Nat /\ sent'[u] \in Nat /\ sent'[u] + Left(u)' <= Round + 1
    BY <1>4, <2>1, <2>2, RoundType
  <2>4. TriesOK(net[u], tab[u].tries)'
    BY <2>1 DEF TriesOK
  <2> QED BY <2>3, <2>4, BudgetBegins
<1> QED BY <1>4, <1>5 DEF RoundInv

LEMMA LeftType ==
    (\A t \in Tab : TriesOK(net[t], tab[t].tries)) => (\A t \in Tab : Left(t) \in 0 .. Round + 1)
BY RemainingType DEF Left

\* The clock moves: every count begins anew.
LEMMA TickInBudget ==
    ASSUME RoundInv, Tick
    PROVE  RoundInv'
<1>1. UNCHANGED <<jar, tab, net>> /\ sent' = [t \in Tab |-> 0]
  BY DEF Tick
<1>2. sent' \in [Tab -> Nat] /\ \A t \in Tab : sent'[t] = 0
  BY <1>1
<1>3. (\A t \in Tab : TriesOK(net[t], tab[t].tries))'
  BY <1>1 DEF RoundInv, TriesOK
<1>4. (\A t \in Tab : Left(t) \in 0 .. Round + 1)'
  BY <1>3, LeftType, PTL
<1>5. ASSUME NEW t \in Tab PROVE TriesOK(net[t], tab[t].tries)' /\ Budget(t)'
  <2>1. Left(t)' \in Nat /\ sent'[t] \in Nat /\ sent'[t] + Left(t)' <= Round + 1
    BY <1>2, <1>4, RoundType DEF Round
  <2> QED BY <1>3, <2>1, BudgetBegins
<1> QED BY <1>2, <1>5 DEF RoundInv

LEMMA RoundsBegin == Init => RoundInv
<1> SUFFICES ASSUME Init PROVE RoundInv
  OBVIOUS
<1>1. sent \in [Tab -> Nat]
  BY DEF Init
<1>2. ASSUME NEW t \in Tab PROVE TriesOK(net[t], tab[t].tries) /\ Budget(t)
  <2>1. net[t].kind = "none" /\ tab[t].tries = 0 /\ sent[t] = 0
    BY DEF Init, NoRequest
  <2>2. TriesOK(net[t], tab[t].tries) /\ Left(t) = 0
    BY <2>1, RoundType DEF TriesOK, Left, Remaining
  <2>3. Cardinality(Spoilers(t)) \in Nat /\ Cardinality(Spoilers(t)) <= Cardinality(Tab) /\ Cardinality(Tab) \in Nat
    BY SpoilersFinite
  <2>4. /\ Round * Cardinality(Spoilers(t)) <= Round * Cardinality(Tab)
        /\ Round * Cardinality(Spoilers(t)) \in Nat /\ Round * Cardinality(Tab) \in Nat
    BY <2>3, Products, RoundType
  <2> QED BY <2>1, <2>2, <2>4 DEF Budget
<1> QED BY <1>1, <1>2 DEF RoundInv

\* The session store or nothing at all moves.
LEMMA RoundsStutter ==
    ASSUME RoundInv, UNCHANGED <<now, jar, tab, net, sent>>
    PROVE  RoundInv'
<1>1. \A t \in Tab : Left(t)' = Left(t) /\ (Spoils(net[t])' <=> Spoils(net[t]))
  BY RankLasts DEF Left
<1>2. \A t \in Tab : Spoilers(t)' = Spoilers(t)
  BY <1>1 DEF Spoilers
<1> QED BY <1>1, <1>2 DEF RoundInv, TriesOK, Budget, Round

\* BrowserRefresh: what a tab has sent, what it has left to send and what the
\* other tabs may still make it send again stays within the bound.
THEOREM RoundsInvariant == Spec => []RoundInv
<1>1. Init => RoundInv
  BY RoundsBegin
<1>2. Inv /\ RoundInv /\ [Next]_vars => RoundInv'
  <2> SUFFICES ASSUME Inv, RoundInv, [Next]_vars PROVE RoundInv'
    OBVIOUS
  <2>1. TypeInv
    BY DEF Inv, BaseInv
  <2>2. ASSUME NEW t \in Tab,
               \/ ServeDocument(t) \/ ServeMe(t) \/ ServeLoginPage(t) \/ ServeCsrf(t)
               \/ ServeCall(t) \/ ServeRefresh(t) \/ RefreshFails(t) \/ ServeLogin(t)
               \/ ServeLogout(t)
        PROVE  RoundInv'
    BY <2>1, <2>2, PagesInBudget, CsrfInBudget, RefreshInBudget, FormsInBudget
  <2>3. ASSUME NEW t \in Tab,
               \/ DocumentLands(t) \/ CsrfLands(t) \/ RefreshLands(t)
               \/ CallLands(t) \/ LoginLands(t) \/ LogoutLands(t)
        PROVE  RoundInv'
    BY <2>1, <2>3, AnswersInBudget
  <2>4. ASSUME NEW t \in Tab,
               \/ PostRefresh(t) \/ Breaks(t) \/ Visit(t)
               \/ Call(t) \/ SubmitLogin(t) \/ SubmitLogout(t)
        PROVE  RoundInv'
    BY <2>1, <2>4, TabInBudget, UserInBudget
  <2>5. ASSUME NEW s \in Session, SessionEnds(s) PROVE RoundInv'
    BY <2>5, RoundsStutter DEF SessionEnds
  <2>6. CASE ServeAdrift
    BY <2>6, RoundsStutter DEF ServeAdrift
  <2>7. CASE Tick
    BY <2>7, TickInBudget
  <2>8. CASE UNCHANGED vars
    BY <2>8, RoundsStutter DEF vars
  <2> QED BY <2>2, <2>3, <2>4, <2>5, <2>6, <2>7, <2>8 DEF Next
<1> QED BY <1>1, <1>2, BrowserInvariant, PTL DEF Spec

\* refresh_fetch.ts:216, refresh_bootstrap.tsx:27, login.tsx:16: whatever the
\* number of tabs and attempts, no tab goes round in circles.
THEOREM RequestsAreBounded == Spec => []RequestsBounded
<1>1. RoundInv => RequestsBounded
  <2> SUFFICES ASSUME RoundInv, NEW t \in Tab
               PROVE  sent[t] <= (MaxRetries + 3) * Cardinality(Tab) + 1
    BY DEF RequestsBounded
  <2>1. Left(t) \in 0 .. Round + 1 /\ sent[t] \in Nat
    BY RemainingType DEF RoundInv, Left
  <2>2. Cardinality(Spoilers(t)) \in Nat /\ Cardinality(Tab) \in Nat
    BY SpoilersFinite
  <2>3. Round * Cardinality(Spoilers(t)) \in Nat /\ Round * Cardinality(Tab) \in Nat
    BY <2>2, Products, RoundType
  <2>4. sent[t] <= Round * Cardinality(Tab) + 1
    BY <2>1, <2>3, RoundType DEF RoundInv, Budget
  <2> QED BY <2>4 DEF Round
<1> QED BY <1>1, RoundsInvariant, PTL

Counters == now \in 0 .. MaxTime /\ visits \in 0 .. MaxVisits /\ faults \in 0 .. MaxFaults

\* How a step may move the bounded counters.
Counts ==
    /\ now' = now \/ (now < MaxTime /\ now' = now + 1)
    /\ visits' = visits \/ (visits < MaxVisits /\ visits' = visits + 1)
    /\ faults' = faults \/ (faults < MaxFaults /\ faults' = faults + 1)

LEMMA CountersMove == [Next]_vars => Counts
<1>1. ASSUME NEW t \in Tab,
             \/ ServeDocument(t) \/ ServeMe(t) \/ ServeLoginPage(t) \/ ServeCsrf(t)
             \/ ServeCall(t) \/ ServeRefresh(t) \/ ServeLogin(t) \/ PostRefresh(t)
      PROVE  Counts
  BY <1>1 DEF Counts, ServeDocument, ServeMe, ServeLoginPage, ServeCsrf, ServeCall, ServeRefresh,
              ServeLogin, PostRefresh, boundVars
<1>2. ASSUME NEW t \in Tab, RefreshFails(t) \/ ServeLogout(t) \/ Breaks(t)
      PROVE  Counts
  BY <1>2 DEF Counts, RefreshFails, ServeLogout, Breaks
<1>3. ASSUME NEW t \in Tab,
             \/ DocumentLands(t) \/ CsrfLands(t) \/ RefreshLands(t)
             \/ CallLands(t) \/ LoginLands(t) \/ LogoutLands(t)
      PROVE  Counts
  <2>1. \A kind, status, shows, next : Lands(t, kind, status, shows, next) => Counts
    BY DEF Lands, Counts, boundVars
  <2> QED BY <1>3, <2>1, Zenon DEF DocumentLands, CsrfLands, RefreshLands, CallLands, LoginLands, LogoutLands
<1>4. ASSUME NEW t \in Tab, Visit(t) \/ Call(t) \/ SubmitLogin(t) \/ SubmitLogout(t)
      PROVE  Counts
  BY <1>4 DEF Counts, Visit, Call, SubmitLogin, SubmitLogout, Send, Counted
<1>5. ASSUME NEW s \in Session, SessionEnds(s) PROVE Counts
  BY <1>5 DEF Counts, SessionEnds
<1>6. ServeAdrift => Counts
  BY DEF ServeAdrift, Counts, boundVars
<1>7. Tick \/ UNCHANGED vars => Counts
  BY DEF Tick, Counts, vars, boundVars
<1> QED BY <1>1, <1>2, <1>3, <1>4, <1>5, <1>6, <1>7 DEF Next

\* BrowserRefresh: the types hold.  That a tab counts no more attempts than
\* session_max_refresh_retries (refresh_fetch.ts:216) rests on RoundInv.
THEOREM BrowserTypes == Spec => []TypeOK
<1>1. Init => Counters
  BY BoundAssumption DEF Init, Counters
<1>2. Counters /\ [Next]_vars => Counters'
  BY CountersMove, BoundAssumption DEF Counters, Counts
<1>3. Inv /\ RoundInv /\ Counters => TypeOK
  <2> SUFFICES ASSUME Inv, RoundInv, Counters PROVE TypeOK
    OBVIOUS
  <2>1. ASSUME NEW t \in Tab PROVE tab[t].page \in {"app", "blank", "login"} /\ tab[t].tries \in 0 .. MaxRetries
    BY DEF Inv, BaseInv, TypeInv, TabSet, Page, RoundInv, TriesOK
  <2>2. DOMAIN used_at = spent /\ lost \subseteq Session /\ replayed \subseteq Session
    BY DEF Inv, BaseInv, TypeInv, StoreType
  <2> QED BY <2>1, <2>2 DEF TypeOK, Counters
<1> QED BY <1>1, <1>2, <1>3, BrowserInvariant, RoundsInvariant, PTL DEF Spec

=============================================================================
