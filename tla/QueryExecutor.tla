--------------------------- MODULE QueryExecutor ---------------------------
(***************************************************************************)
(* Execution of plans (query_executor.rs): tables are registered and never *)
(* change afterwards, and each query is planned and executed.              *)
(*                                                                         *)
(* A result is a set of rows that carry the ids of what they come from, in *)
(* place of a list: no two rows of a scan or a join come from the same     *)
(* ids.  Left out: the schema of a result and the counts of its rows.      *)
(***************************************************************************)
EXTENDS QueryPlanner

CONSTANTS Databases,  \* the tables hosts register, per number
          Queries     \* the queries hosts execute

VARIABLES db,      \* the registered tables
          flags,   \* the optimization context
          query,   \* what is executed, or None
          plan,    \* its physical plan
          answer   \* the result

queryVars == <<db, flags, query, plan, answer>>

\* ColumnNotFound and ExecutionError
Failed == [ok |-> FALSE, rows |-> {}]
Answer(rows) == [ok |-> TRUE, rows |-> rows]

NoValues == [n \in {} |-> None]

----------------------------------------------------------------------------
(* Scans. *)

\* apply_projection of a scan: output names to values.
Project(row, proj) == [n \in {f[2] : f \in proj} |-> row[(CHOOSE f \in proj : f[2] = n)[1]]]

Scanned(t, ids, proj) == Answer({[id |-> r, values |-> Project(t.cells[r], proj)] : r \in ids})

\* A condition on a row that was projected already: a comparison needs its column by its
\* name, and AND and OR do not take comparisons apart.
Testable(p, proj) == p.op \notin {"And", "Or"} /\ \E f \in proj : f[2] = p.column

FilterRows(input, p, proj) ==
    IF input.rows = {} THEN input
    ELSE IF ~Testable(p, proj) THEN Failed
    ELSE Answer({row \in input.rows : Compare(row.values[p.column], p.op, p.value)})

----------------------------------------------------------------------------
(* Joins of results.  A side that is missing has no values. *)

\* The values of a joined row; a column that the scan gave out under another name is left out.
JoinedValues(q, left, right) ==
    LET l == {f \in q.leftProj : f[1] \in DOMAIN left}
        r == {f \in q.rightProj : f[1] \in DOMAIN right}
    IN  [n \in {<<"left", f[2]>> : f \in l} \cup {<<"right", f[2]>> : f \in r} |->
            IF n[1] = "left" THEN left[(CHOOSE f \in l : f[2] = n[2])[1]]
            ELSE right[(CHOOSE f \in r : f[2] = n[2])[1]]]

\* Mutant of PadsRight: a full outer join keeps the rows of its left side only.
PadsRightOuter(q) == q.type = "RightOuter"

PadsLeft(q) == q.type \in {"LeftOuter", "FullOuter"}
PadsRight(q) == q.type \in {"RightOuter", "FullOuter"}

\* The pairs that match and, in outer joins, the rows that are in no pair.
Joined(q, left, right, pairs) ==
    {[id |-> <<m[1].id, m[2].id>>, values |-> JoinedValues(q, m[1].values, m[2].values)] : m \in pairs}
    \cup {[id |-> <<l.id, None>>, values |-> JoinedValues(q, l.values, NoValues)] :
              l \in {l \in left : PadsLeft(q) /\ \A m \in pairs : m[1].id # l.id}}
    \cup {[id |-> <<None, r.id>>, values |-> JoinedValues(q, NoValues, r.values)] :
              r \in {r \in right : PadsRight(q) /\ \A m \in pairs : m[2].id # r.id}}

Has(row, c) == c \in DOMAIN row.values

\* Every pair is tested with the operator of the join.
NestedLoop(q, left, right) ==
    IF \E l \in left, r \in right : ~Has(l, q.leftColumn) \/ ~Has(r, q.rightColumn) THEN Failed
    ELSE Answer(Joined(q, left, right,
                       {m \in left \X right :
                            Compare(m[1].values[q.leftColumn], q.op, m[2].values[q.rightColumn])}))

\* A hash table finds equal values of one type, whatever the operator; which side it is
\* built from makes no difference to the set of pairs.
HashPairs(q, left, right) ==
    {m \in left \X right :
         /\ Has(m[1], q.leftColumn) /\ Has(m[2], q.rightColumn)
         /\ m[1].values[q.leftColumn] = m[2].values[q.rightColumn]}

\* One lookup in the inner table, whose rows come whole, for each row of the outer.
WholeRows(t) == {[id |-> r, values |-> t.cells[r]] : r \in LiveRows(t)}

IndexNestedLoop(q, left, t) ==
    Joined(q, left, WholeRows(t),
           {m \in left \X WholeRows(t) :
                /\ Has(m[1], q.leftColumn)
                /\ m[2].id \in ScanByColumnValue(t, q.rightColumn, m[1].values[q.leftColumn])})

----------------------------------------------------------------------------
\* A table that is not registered is an error.
Scan(pl) ==
    LET t == db[pl.table]
    IN  IF pl.table \notin DOMAIN db THEN Failed
        ELSE CASE pl.kind = "TableScan" -> Scanned(t, LiveRows(t), pl.proj)
               [] pl.kind = "FilteredScan" -> Scanned(t, ScanFilteredOptimized(t, pl.pred), pl.proj)
               [] pl.kind = "IndexScan" -> Scanned(t, ScanByColumnValue(t, pl.column, pl.value), pl.proj)
               [] pl.kind = "RangeScan" ->
                      Scanned(t, ScanByColumnRange(t, pl.column, pl.min, pl.max), pl.proj)

ExecuteJoin(pl) ==
    LET left  == Scan(pl.left)
        right == Scan(pl.right)
    IN  CASE ~left.ok -> Failed
          [] pl.kind = "IndexJoin" -> Answer(IndexNestedLoop(pl.join, left.rows, db[pl.table]))
          [] ~right.ok -> Failed
          [] pl.kind = "NestedLoopJoin" -> NestedLoop(pl.join, left.rows, right.rows)
          [] pl.kind = "HashJoin" ->
                 Answer(Joined(pl.join, left.rows, right.rows,
                               HashPairs(pl.join, left.rows, right.rows)))

\* execute; the inputs of a filter and of a join are scans.
Execute(pl) ==
    CASE pl.kind = "Filter" -> FilterRows(Scan(pl.input), pl.pred, pl.input.proj)
      [] pl.kind \in {"NestedLoopJoin", "HashJoin", "IndexJoin"} -> ExecuteJoin(pl)
      [] OTHER -> Scan(pl)

----------------------------------------------------------------------------
QueryInit ==
    /\ db = [n \in {} |-> NewTable]
    /\ flags \in Flags
    /\ query = None /\ plan = None /\ answer = None

\* register_table: the executor owns the table from here on.
RegisterTable(n) ==
    /\ n \notin DOMAIN db
    /\ db' = [m \in DOMAIN db \cup {n} |-> IF m = n THEN Databases[n] ELSE db[m]]
    /\ query' = None /\ plan' = None /\ answer' = None
    /\ UNCHANGED flags

ExecuteQuery(q) ==
    /\ query = None
    /\ query' = q
    /\ plan' = PhysicalPlan(db, flags, q)
    /\ answer' = Execute(plan')
    /\ UNCHANGED <<db, flags>>

QueryNext ==
    \/ \E n \in DOMAIN Databases : RegisterTable(n)
    \/ \E q \in Queries : ExecuteQuery(q)

QuerySpec == QueryInit /\ [][QueryNext]_queryVars

----------------------------------------------------------------------------
(* Properties *)

Selecting == query # None /\ query.kind = "Select" /\ query.table \in DOMAIN db
Joining == query # None /\ query.kind = "Join" /\ {query.leftTable, query.rightTable} \subseteq DOMAIN db

\* A row between two bounds of the key.
KeyInterval(p) ==
    p.op = "And" /\ OnKey(p.left) /\ OnKey(p.right) /\ {p.left.op, p.right.op} = {"GreaterEqual", "LessEqual"}

\* Of a column that no index serves.
NoIndexOn(t, p) == p.column # PrimaryKey /\ t.secondary[p.column] = NoIndex

\* An index is looked up with the literal as it is, or brought to the type of the column where
\* that is possible; everything else compares numbers of all types.
LooksUpType(t, q) == q.op = "Equal" => NoIndexOn(t, q) \/ q.value.type = ColumnType[q.column]

\* The conditions that are evaluated as they are written, whatever the plan: strict ranges
\* include their bound, a lookup misses an equal number of another type, a plan by the key
\* drops every other term of an AND, and a <> on an index, or terms of two kinds, are not
\* evaluated at all.
Faithful(t, p) ==
    /\ \A q \in Comparisons(p) : q.op \notin {"Less", "Greater"} /\ LooksUpType(t, q)
    /\ \/ p.op \notin {"And", "Or"} /\ (p.op = "NotEqual" => NoIndexOn(t, p))
       \/ KeyInterval(p)
       \/ \A q \in Comparisons(p) : NoIndexOn(t, q)

\* Without pushdown a condition is tested on the projected row.
Tested(q) ==
    \/ flags.analysis \/ flags.pushdown \/ "PredicatePushdown" \in q.hints
    \/ Testable(q.pred, {f \in q.proj : f[1] = f[2]})

\* A SELECT without a condition, or with one that is evaluated as it is written, returns the
\* rows that satisfy it, once each and projected, through whichever of five plans the context
\* and its hints make of it.
SelectsExact ==
    Selecting /\ (query.pred # None => Faithful(db[query.table], query.pred) /\ Tested(query)) =>
        LET t == db[query.table]
            ids == IF query.pred = None THEN LiveRows(t) ELSE RowsThatSatisfy(t, query.pred)
        IN  answer = Scanned(t, ids, query.proj)

\* The ids of the rows of a join on equal columns: pairs and, in outer joins, rows in no pair.
JoinedIds(q, left, right) ==
    LET pairs == {m \in LiveRows(left) \X LiveRows(right) :
                      left.cells[m[1]][q.leftColumn] = right.cells[m[2]][q.rightColumn]}
        alone(i, side) == \A m \in pairs : m[side] # i
    IN  CASE q.type = "Inner" -> pairs
          [] q.type = "LeftOuter" -> pairs \cup {<<i, None>> : i \in {i \in LiveRows(left) : alone(i, 1)}}
          [] q.type = "RightOuter" -> pairs \cup {<<None, i>> : i \in {i \in LiveRows(right) : alone(i, 2)}}
          [] q.type = "FullOuter" ->
                 pairs \cup {<<i, None>> : i \in {i \in LiveRows(left) : alone(i, 1)}}
                       \cup {<<None, i>> : i \in {i \in LiveRows(right) : alone(i, 2)}}

CellsOf(t, i) == IF i = None THEN NoValues ELSE t.cells[i]

\* An inner or outer join on equal columns of one type gives the same rows whether it is done
\* by nested loops, by a hash table of either side or by lookups in the index, so that the
\* choice by the sizes of the tables is invisible.  Of columns of two numeric types it is not:
\* nested loops compare the numbers, and the others want equal values of one type.
OneType(q) == ColumnType[q.leftColumn] = ColumnType[q.rightColumn]
JoinsExact ==
    Joining /\ query.op = "Equal" /\ OneType(query)
    /\ (\A f \in query.leftProj \cup query.rightProj : f[1] = f[2]) =>
        LET left  == db[query.leftTable]
            right == db[query.rightTable]
        IN  answer = Answer({[id |-> i, values |-> JoinedValues(query, CellsOf(left, i[1]), CellsOf(right, i[2]))] :
                                 i \in JoinedIds(query, left, right)})
=============================================================================
