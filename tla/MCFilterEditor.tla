-------------------------- MODULE MCFilterEditor --------------------------
(***************************************************************************)
(* One attribute of each kind of type, one a foreign key, and lists that   *)
(* start with no filter, a comparison, a group or a "not".                 *)
(***************************************************************************)
EXTENDS FilterEditor

TypeOf == [s |-> "string", i |-> "integer", b |-> "boolean", k |-> "uuid"]
Good(k) == [kind |-> k, quality |-> "good"]

Starts ==
    { NullFilter,
      <<>> :> Leaf("k", "eq", Good("uuid")),
      <<>> :> Group("or") @@ <<1>> :> Leaf("s", "contains", Good("text")) @@ <<2>> :> Leaf("i", "gt", Good("numeric")),
      <<>> :> [op |-> "not", attr |-> NoAttr, val |-> NoVal] @@ <<1>> :> Leaf("b", "empty", NoVal) }

Additions == { Leaf("b", "eq", Good("boolean")), Leaf("s", "regexp", [kind |-> "text", quality |-> "odd"]) }
ServerLimits == [depth |-> 3, length |-> 3, total |-> 5, regexp |-> 1]
=============================================================================
