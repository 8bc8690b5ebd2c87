---------------------------- MODULE MCRateLimit ----------------------------
(* Small instances of RateLimit. *)
EXTENDS RateLimit, TLC

CONSTANTS p1, p2, l1, l2, u1, u2, i1

\* One login on each process.
HomeOfTwo == l1 :> p1 @@ l2 :> p2

\* One user without an address; two users behind one address.
OneClient  == {[user |-> u1, ip |-> NoIp]}
TwoClients == {[user |-> u, ip |-> i1] : u \in {u1, u2}}
============================================================================
