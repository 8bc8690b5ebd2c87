-------------------------- MODULE MCBrowserRefresh --------------------------
(* Two interchangeable tabs. *)
EXTENDS BrowserRefresh, TLC

CONSTANTS t1, t2

Symmetry == Permutations(Tab)
=============================================================================
