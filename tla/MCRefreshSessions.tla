------------------------- MODULE MCRefreshSessions -------------------------
(* Small instances of RefreshSessions. *)
EXTENDS RefreshSessions, TLC

RequestSymmetry == Permutations(Request)
============================================================================
