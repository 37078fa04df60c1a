---------------------------- MODULE QueryPlanner ----------------------------
(***************************************************************************)
(* Plans of queries (query.rs): what a SELECT and a JOIN become, and the   *)
(* passes that restructure a plan when the context enables them.  A plan   *)
(* is a record with a kind; tables are named by numbers in the order of    *)
(* their names, and db maps the registered ones to their contents.         *)
(*                                                                         *)
(* A projection is a set of pairs of a source column and an output name.   *)
(* Left out: the estimates of cost that no pass reads (estimate_cost), and *)
(* transformations in projections.                                         *)
(***************************************************************************)
EXTENDS TablePredicates, Sequences

CONSTANT LargeTable   \* rows from which on joins are upgraded to hash joins (1001)

Flags == [analysis : BOOLEAN, pushdown : BOOLEAN, index : BOOLEAN, reorder : BOOLEAN]

\* Only the primary key counts as indexed in the statistics (generate_statistics).
Indexes(c) == c = PrimaryKey

TableScan(table, proj) == [kind |-> "TableScan", table |-> table, proj |-> proj]
FilteredScan(table, proj, p) ==
    [kind |-> "FilteredScan", table |-> table, proj |-> proj, pred |-> p]
IndexScan(table, proj, c, v) ==
    [kind |-> "IndexScan", table |-> table, proj |-> proj, column |-> c, value |-> v]
RangeScan(table, proj, c, min, max) ==
    [kind |-> "RangeScan", table |-> table, proj |-> proj, column |-> c, min |-> min, max |-> max]
Filter(input, p) == [kind |-> "Filter", input |-> input, pred |-> p]
NestedLoopJoin(left, right, join) ==
    [kind |-> "NestedLoopJoin", left |-> left, right |-> right, join |-> join]
HashJoin(left, right, join, build) ==
    [kind |-> "HashJoin", left |-> left, right |-> right, join |-> join, build |-> build]
IndexJoin(left, table, join) ==
    [kind |-> "IndexJoin", left |-> left, table |-> table, join |-> join]

----------------------------------------------------------------------------
(* Logical plans. *)

LogicalSelect(q) ==
    IF q.pred = None THEN TableScan(q.table, q.proj)
    ELSE Filter(TableScan(q.table, q.proj), q.pred)

\* The join column is added to what is scanned, unless it is projected already, under
\* whatever name.
WithColumn(proj, c) == IF \E f \in proj : f[1] = c THEN proj ELSE proj \cup {<<c, c>>}

LogicalJoin(q) ==
    NestedLoopJoin(TableScan(q.leftTable, WithColumn(q.leftProj, q.leftColumn)),
                   TableScan(q.rightTable, WithColumn(q.rightProj, q.rightColumn)), q)

----------------------------------------------------------------------------
(* Analysis of a predicate: the terms of an AND that an index could serve. *)

RECURSIVE Conjuncts(_)
Conjuncts(p) == IF p.op = "And" THEN Conjuncts(p.left) \o Conjuncts(p.right) ELSE <<p>>

OnKey(p) == p.op \notin {"And", "Or"} /\ p.column = PrimaryKey

KeyEqualities(p) == SelectSeq(Conjuncts(p), LAMBDA q : OnKey(q) /\ q.op = "Equal")
LowerBounds(p) == SelectSeq(Conjuncts(p), LAMBDA q : OnKey(q) /\ q.op \in {"Greater", "GreaterEqual"})
UpperBounds(p) == SelectSeq(Conjuncts(p), LAMBDA q : OnKey(q) /\ q.op \in {"Less", "LessEqual"})

\* Ranges on one column are merged, and the last bound of each side stands.
LastBound(s) == IF s = <<>> THEN None ELSE s[Len(s)].value

\* Mutant of FromAnalysis: the bounds of a range are exchanged.
FromAnalysisInverted(table, proj, p) ==
    IF KeyEqualities(p) # <<>>
    THEN IndexScan(table, proj, PrimaryKey, Head(KeyEqualities(p)).value)
    ELSE IF LowerBounds(p) # <<>> \/ UpperBounds(p) # <<>>
    THEN RangeScan(table, proj, PrimaryKey, LastBound(UpperBounds(p)), LastBound(LowerBounds(p)))
    ELSE FilteredScan(table, proj, p)

\* The first equality on the key, else a range of it, is all that the scan tests; what the
\* index does not serve is dropped (residual_predicate is always None).
FromAnalysis(table, proj, p) ==
    IF KeyEqualities(p) # <<>>
    THEN IndexScan(table, proj, PrimaryKey, Head(KeyEqualities(p)).value)
    ELSE IF LowerBounds(p) # <<>> \/ UpperBounds(p) # <<>>
    THEN RangeScan(table, proj, PrimaryKey, LastBound(LowerBounds(p)), LastBound(UpperBounds(p)))
    ELSE FilteredScan(table, proj, p)

----------------------------------------------------------------------------
(* The passes, each on the shapes a select or a join has when it is reached. *)

AnalyzePredicate(db, plan) ==
    IF plan.kind = "Filter" /\ plan.input.table \in DOMAIN db
    THEN FromAnalysis(plan.input.table, plan.input.proj, plan.pred) ELSE plan

PushDown(plan) ==
    IF plan.kind = "Filter" THEN FilteredScan(plan.input.table, plan.input.proj, plan.pred)
    ELSE plan

\* A single comparison of the key becomes a lookup; a join whose right column is a key does
\* its lookups by it.
UseIndexes(db, plan) ==
    CASE /\ plan.kind = "FilteredScan" /\ plan.table \in DOMAIN db
         /\ OnKey(plan.pred) /\ plan.pred.op = "Equal" ->
             IndexScan(plan.table, plan.proj, PrimaryKey, plan.pred.value)
      [] /\ plan.kind = "FilteredScan" /\ plan.table \in DOMAIN db
         /\ OnKey(plan.pred) /\ plan.pred.op \in Ranges ->
             RangeScan(plan.table, plan.proj, PrimaryKey, LastBound(LowerBounds(plan.pred)),
                       LastBound(UpperBounds(plan.pred)))
      [] /\ plan.kind = "NestedLoopJoin" /\ plan.right.table \in DOMAIN db
         /\ Indexes(plan.join.rightColumn) ->
             IndexJoin(plan.left, plan.right.table, plan.join)
      [] OTHER -> plan

\* Twice the costs of the candidates, which are a product, 1.5 times a sum, and twice a count.
Candidates(left, right, indexed) ==
    <<[method |-> "nested", cost |-> 2 * left * right],
      [method |-> "hash", cost |-> 3 * (left + right)]>>
    \o (IF indexed THEN <<[method |-> "index", cost |-> 4 * left]>> ELSE <<>>)

\* The cheapest, the first of those that cost the same.
Best(candidates) ==
    candidates[CHOOSE i \in DOMAIN candidates :
                   /\ \A j \in DOMAIN candidates : candidates[i].cost <= candidates[j].cost
                   /\ \A j \in 1..(i - 1) : candidates[i].cost < candidates[j].cost]

ReorderJoin(db, plan) ==
    IF plan.kind # "NestedLoopJoin" \/ ~({plan.left.table, plan.right.table} \subseteq DOMAIN db)
    THEN plan
    ELSE LET best == Best(Candidates(db[plan.left.table].count, db[plan.right.table].count,
                                     Indexes(plan.join.rightColumn)))
         IN  CASE best.method = "hash" ->
                      HashJoin(plan.left, plan.right, plan.join,
                               IF plan.left.table < plan.right.table THEN "Left" ELSE "Right")
               [] best.method = "index" -> IndexJoin(plan.left, plan.right.table, plan.join)
               [] OTHER -> plan

\* apply_join_reordering, after all other passes: any large table decides.
UpgradeJoin(db, plan) ==
    IF plan.kind = "NestedLoopJoin" /\ \E t \in DOMAIN db : db[t].count >= LargeTable
    THEN HashJoin(plan.left, plan.right, plan.join, "Right") ELSE plan

\* optimize_with_context: the passes in this order.
Optimize(db, flags, plan) ==
    LET p1 == IF flags.analysis THEN AnalyzePredicate(db, plan) ELSE plan
        p2 == IF flags.pushdown THEN PushDown(p1) ELSE p1
        p3 == IF flags.index THEN UseIndexes(db, p2) ELSE p2
    IN  IF flags.reorder THEN ReorderJoin(db, p3) ELSE p3

\* A hint in the WHERE clause enables its pass for this query.
WithHints(flags, hints) ==
    [flags EXCEPT !.pushdown = @ \/ "PredicatePushdown" \in hints,
                  !.index = @ \/ "UseIndex" \in hints]

\* materialize_physical_plan
PhysicalPlan(db, flags, q) ==
    IF q.kind = "Select" THEN Optimize(db, WithHints(flags, q.hints), LogicalSelect(q))
    ELSE LET plan == Optimize(db, flags, LogicalJoin(q))
         IN  IF flags.reorder THEN UpgradeJoin(db, plan) ELSE plan
=============================================================================
