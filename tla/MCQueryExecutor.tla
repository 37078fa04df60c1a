-------------------------- MODULE MCQueryExecutor --------------------------
(***************************************************************************)
(* Three tables for TLC with key k, column a of its type and column b of   *)
(* another numeric type: of three and four rows, one of them after a       *)
(* deletion, and of two, indexed by a.  Literals have the type of their    *)
(* column, or another.                                                     *)
(***************************************************************************)
EXTENDS QueryExecutor, TLC

CONSTANTS k, a, b

U(n) == [type |-> "u64", n |-> n]
I(n) == [type |-> "i32", n |-> n]
F(n) == [type |-> "f64", n |-> n]

MCValues == {U(n) : n \in 0..3} \cup {F(n) : n \in 0..3}
MCColumnType == k :> "u64" @@ a :> "u64" @@ b :> "f64"
MCAccepts == [c \in {k, a, b} |-> {v \in MCValues : v.type = MCColumnType[c]}]
MCDefault == [c \in {k, a, b} |-> None]

\* The table after inserting <<key, value>> pairs; b holds the number of the key.
RECURSIVE After(_, _)
After(t, s) ==
    IF s = <<>> THEN t
    ELSE After(StoreRow(t, k :> U(Head(s)[1]) @@ a :> U(Head(s)[2]) @@ b :> F(Head(s)[1])), Tail(s))

MCDatabases ==
    1 :> DeleteRow(After(NewTable, <<<<0, 1>>, <<1, 2>>, <<2, 1>>, <<3, 0>>>>), 3)
    @@ 2 :> After(After(NewTable, <<<<0, 0>>, <<1, 1>>, <<2, 1>>>>), <<<<3, 3>>>>)
    @@ 3 :> AddSecondaryIndex(DeleteRow(After(NewTable, <<<<0, 1>>, <<1, 2>>, <<2, 1>>>>), 0), a)

Is(c, op, v) == [op |-> op, column |-> c, value |-> v]
And(l, r) == [op |-> "And", left |-> l, right |-> r]
Or(l, r) == [op |-> "Or", left |-> l, right |-> r]

Both2 == {<<k, k>>, <<a, a>>}
OnlyKey == {<<k, k>>}
Renamed == {<<a, k>>}

Comparison ==
    {Is(c, op, U(1)) : c \in {k, a}, op \in {"Equal", "NotEqual", "LessEqual", "GreaterEqual", "Less"}}
    \cup {Is(c, op, v) : c \in {k, a}, op \in {"Equal", "GreaterEqual"}, v \in {F(1), I(1)}}
    \cup {Is(b, op, v) : op \in {"Equal", "LessEqual"}, v \in {F(1), U(1), I(1)}}

Compound ==
    {And(Is(k, "GreaterEqual", U(1)), Is(k, "LessEqual", U(2))),
     And(Is(k, "LessEqual", U(1)), Is(k, "GreaterEqual", U(1))),
     And(Is(a, "GreaterEqual", U(1)), Or(Is(a, "Equal", U(2)), Is(a, "NotEqual", U(1)))),
     And(Is(a, "GreaterEqual", U(1)), Is(k, "Equal", U(0))),
     Or(Is(k, "Equal", U(0)), Is(a, "LessEqual", U(0)))}

Select(t, proj, p, hints) == [kind |-> "Select", table |-> t, proj |-> proj, pred |-> p, hints |-> hints]
Join(l, r, lc, rc, type, op, lp) ==
    [kind |-> "Join", leftTable |-> l, rightTable |-> r, leftColumn |-> lc, rightColumn |-> rc,
     type |-> type, op |-> op, leftProj |-> lp, rightProj |-> Both2]

MCQueries ==
    {Select(t, proj, p, {}) : t \in {1, 3}, proj \in {Both2, Renamed}, p \in Comparison \cup Compound}
    \cup {Select(1, OnlyKey, p, h) : p \in {None, Is(k, "Equal", U(2)), Is(a, "Equal", U(1))},
                                     h \in {{}, {"UseIndex"}, {"PredicatePushdown"}}}
    \cup {Join(l, r, lc, rc, type, "Equal", lp) :
              l \in {1, 3}, r \in {1, 2, 3}, lc \in {k, a}, rc \in {k, a},
              type \in {"Inner", "LeftOuter", "RightOuter", "FullOuter"}, lp \in {Both2, OnlyKey}}
    \cup {Join(l, 2, a, b, type, "Equal", Both2) : l \in {1, 3}, type \in {"Inner", "FullOuter"}}
    \cup {Join(1, 2, b, b, "Inner", "Equal", {<<b, b>>}), Join(2, 1, b, k, "LeftOuter", "Equal", Both2)}
    \cup {Join(1, 2, a, k, "Inner", "LessEqual", Both2), Join(1, 2, a, a, "Inner", "Equal", Renamed)}

=============================================================================
