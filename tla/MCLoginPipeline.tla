-------------------------- MODULE MCLoginPipeline --------------------------
(* Small instances of LoginPipeline. *)
EXTENDS LoginPipeline, TLC

RequestSymmetry == Permutations(Request)
============================================================================
