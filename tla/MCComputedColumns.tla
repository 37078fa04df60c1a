------------------------- MODULE MCComputedColumns -------------------------
(***************************************************************************)
(* A table with key k, column a and two computed columns, in schemas that  *)
(* chain them, that reach one only through the condition of an if, and     *)
(* that close circles of one and of two.                                   *)
(***************************************************************************)
EXTENDS ComputedColumns, TLC

CONSTANTS k, a, x, y,
          z   \* no column of the table

U(n) == [type |-> "u64", n |-> n]

MCValues == {U(0), U(1)}
MCAccepts == [c \in {k, a} |-> MCValues]
MCDefault == k :> None @@ a :> U(0)
MCRows == {k :> U(0), k :> U(1) @@ a :> U(1)}
\* One is refused at z, before or after it has written a.
MCUpdates == {a :> U(1), a :> U(0) @@ z :> U(1), a :> U(0) @@ x :> U(1), k :> U(0) @@ a :> U(1)}

Column(c) == [kind |-> "column", name |-> c]
Literal(v) == [kind |-> "literal", value |-> v]
Binary(l, op, r) == [kind |-> "binary", left |-> l, op |-> op, right |-> r]
If(c, t, e) == [kind |-> "if", cond |-> c, then |-> t, else |-> e]

MCSchemas ==
    {x :> Binary(Column(a), "Add", Literal(U(1))) @@ y :> Binary(Column(x), "Add", Column(k)),
     x :> Literal(U(1)) @@ y :> If(Binary(Column(a), "Equal", Literal(U(1))), Column(x), Column(k)),
     x :> Column(a) @@ y :> If(Column(x), Literal(U(1)), Literal(U(0))),
     x :> If(Column(a), Column(x), Literal(U(1))) @@ y :> Column(a),
     x :> If(Column(y), Column(a), Column(k)) @@ y :> Binary(Column(a), "Add", Column(x))}
=============================================================================
