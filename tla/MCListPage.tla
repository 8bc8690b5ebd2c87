---------------------------- MODULE MCListPage ----------------------------
(***************************************************************************)
(* Two lists over one class with three records: one list has a baseline,   *)
(* the other gains a column in the next release.  Pages hold one or two.   *)
(***************************************************************************)
EXTENDS ListPage

CONSTANTS d1, d2

BaselineOf == d1 :> {Cmp("n", "lte", 2)} @@ d2 :> {}
ColumnsOf  == d1 :> {<<"n", "b", "t">>} @@ d2 :> {<<"n", "b">>, <<"b", "n", "d">>}
ValueOf    == [n |-> <<1, 2, 3>>, b |-> <<TRUE, FALSE, TRUE>>, d |-> <<2, 2, 1>>,
               t |-> <<<<1>>, <<1, 2>>, <<2>>>>,
               i |-> <<<<1>>, <<2>>, <<2, 1>>>>]
KindOf     == [n |-> "numeric", b |-> "boolean", d |-> "datetime", t |-> "text",
               i |-> "friendly_id"]
Inputs     == {[attr |-> "d", from |-> <<2>>, to |-> <<2>>], [attr |-> "n", from |-> <<2>>, to |-> <<1>>],
               [attr |-> "t", text |-> <<2>>], [attr |-> "i", text |-> <<1>>]}
Bounds     == [req |-> 3, write |-> 1, nav |-> 1, gesture |-> 1]
ExecPreds  == {{}, {Cmp("n", "gte", 2)}}
=============================================================================
