--------------------------- MODULE MCRecordPage ---------------------------
(***************************************************************************)
(* One record there at first, with two fields, and values of which one is  *)
(* rejected by the schema.                                                 *)
(***************************************************************************)
EXTENDS RecordPage

Bodies == { "f" :> 1, "g" :> 1, [f \in Field |-> 1] }
Zero == [f \in Field |-> 0]
=============================================================================
