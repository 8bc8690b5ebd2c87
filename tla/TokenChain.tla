----------------------------- MODULE TokenChain -----------------------------
(***************************************************************************)
(* What the session store promises: a session is opened once, its refresh  *)
(* tokens form one chain whose head alone can be redeemed, each redemption *)
(* spends the head and mints the next one, and a closed session stays      *)
(* closed.  Requests, transactions, locks and clocks are out of sight.     *)
(***************************************************************************)
EXTENDS Naturals

CONSTANT Session

VARIABLES
    state,   \* "none", "live" or "gone"
    head,    \* number of the newest token, 0 before the first one
    spent    \* redeemed tokens, as pairs <<session, token>>

chainVars == <<state, head, spent>>

Init ==
    /\ state = [s \in Session |-> "none"]
    /\ head = [s \in Session |-> 0]
    /\ spent = {}

\* A must-change login opens a session without a token.
Open(s, first) ==
    /\ state[s] = "none"
    /\ state' = [state EXCEPT ![s] = "live"]
    /\ head' = [head EXCEPT ![s] = first]
    /\ UNCHANGED spent

FirstToken(s) ==
    /\ state[s] = "live" /\ head[s] = 0
    /\ head' = [head EXCEPT ![s] = 1]
    /\ UNCHANGED <<state, spent>>

Redeem(s) ==
    /\ state[s] = "live" /\ head[s] > 0
    /\ <<s, head[s]>> \notin spent
    /\ spent' = spent \cup {<<s, head[s]>>}
    /\ head' = [head EXCEPT ![s] = @ + 1]
    /\ UNCHANGED state

Close(S) ==
    /\ \A s \in S : state[s] = "live"
    /\ state' = [s \in Session |-> IF s \in S THEN "gone" ELSE state[s]]
    /\ UNCHANGED <<head, spent>>

Next ==
    \/ \E s \in Session, first \in {0, 1} : Open(s, first)
    \/ \E s \in Session : FirstToken(s) \/ Redeem(s)
    \/ \E S \in SUBSET Session : Close(S)

Spec == Init /\ [][Next]_chainVars
=============================================================================
