-------------------------- MODULE ComputedColumns --------------------------
(***************************************************************************)
(* Columns evaluated on demand (computed_columns.rs): the engine that      *)
(* caches what it evaluates, over the table whose cells the expressions    *)
(* read, made once the sort of DependencyGraph accepts the schema.         *)
(*                                                                         *)
(* The engine is told what changed by its host: update_row marks nothing,  *)
(* and a mark reaches the direct dependents of a column only.  The host    *)
(* here marks, after each update, the columns it wrote and the computed    *)
(* ones between them and what reads them, by row or (MarksColumns) whole.  *)
(***************************************************************************)
EXTENDS TableRuntime, DependencyGraph

CONSTANTS Schemas,       \* the schemas: the expression of each computed column
          MarksColumns,  \* the host marks columns, not rows of columns
          Unset          \* no table yet

VARIABLES exprs,   \* the expressions of the schema of the table, or Unset
          engine   \* LazyEvaluationEngine, or Unset: TableRuntime::new failed

computedVars == <<table, exprs, engine, sortVars>>

----------------------------------------------------------------------------
(* What expressions depend on. *)

RECURSIVE Names(_)
\* Every column an expression names, in whichever branch.
Names(e) ==
    CASE e.kind = "column"  -> {e.name}
      [] e.kind = "literal" -> {}
      [] e.kind = "binary"  -> Names(e.left) \cup Names(e.right)
      [] e.kind = "if"      -> Names(e.cond) \cup Names(e.then) \cup Names(e.else)

\* An identifier is a reference when the table has a column of that name.
DependsOn(es, c) == Names(es[c]) \cap Columns

Dependents(es, c) == {d \in Computed : c \in DependsOn(es, d)}

----------------------------------------------------------------------------
(* Values and their operators.  Values of expressions need not be in Values. *)

\* apply_binary_operator: u64 and f64 mix, i32 has no operators, None is an error.
Combine(l, op, r) ==
    LET number == IF {l.type, r.type} = {"u64"} THEN "u64" ELSE "f64"
        both   == {l.type, r.type} \subseteq {"u64", "f64"}
        bool(b) == [type |-> "bool", n |-> IF b THEN 1 ELSE 0]
    IN  CASE op = "Add" /\ both -> [type |-> number, n |-> l.n + r.n]
          [] op = "Less" /\ both -> bool(l.n < r.n)
          [] op = "Equal" /\ (both \/ (l.type = r.type /\ l.type # "i32")) -> bool(l.n = r.n)
          [] op = "And" /\ {l.type, r.type} = {"bool"} -> bool(l.n = 1 /\ r.n = 1)
          [] op = "Or" /\ {l.type, r.type} = {"bool"} -> bool(l.n = 1 \/ r.n = 1)
          [] OTHER -> None

\* column_value_to_bool
Truthy(v) == v.n # 0

----------------------------------------------------------------------------
(* The engine. *)

NewEngine == [cached |-> [c \in Computed |-> [r \in RowIds |-> None]],
              dirtyColumns |-> {},
              dirtyRows |-> [c \in Columns |-> {}]]

Clean(g, c, r) ==
    /\ g.cached[c][r] # None
    /\ r \notin g.dirtyRows[c]
    /\ c \notin g.dirtyColumns

\* The value is cached; the row is no longer marked, nor is the column, for any row.
Remember(g, c, r, v) ==
    [g EXCEPT !.cached[c][r] = v, !.dirtyColumns = @ \ {c}, !.dirtyRows[c] = @ \ {r}]

RECURSIVE Evaluate(_, _, _, _, _), ComputedValue(_, _, _, _, _)
\* Evaluating an expression in row r: the value, or None for an error, and the engine after
\* it, since each computed column on the way is cached as well.
Evaluate(es, cells, g, e, r) ==
    CASE e.kind = "literal" -> [value |-> e.value, engine |-> g]
      [] e.kind = "column" ->
           IF e.name \in Computed THEN ComputedValue(es, cells, g, e.name, r)
           ELSE [value |-> IF e.name \in Stored THEN cells[r][e.name] ELSE None, engine |-> g]
      [] e.kind = "binary" ->
           LET left  == Evaluate(es, cells, g, e.left, r)
               right == Evaluate(es, cells, left.engine, e.right, r)
           IN  IF left.value = None THEN left
               ELSE IF right.value = None THEN right
               ELSE [value |-> Combine(left.value, e.op, right.value), engine |-> right.engine]
      [] e.kind = "if" ->
           LET cond == Evaluate(es, cells, g, e.cond, r)
           IN  IF cond.value = None THEN cond
               ELSE Evaluate(es, cells, cond.engine,
                             IF Truthy(cond.value) THEN e.then ELSE e.else, r)

\* get_computed_value
ComputedValue(es, cells, g, c, r) ==
    IF Clean(g, c, r) THEN [value |-> g.cached[c][r], engine |-> g]
    ELSE LET result == Evaluate(es, cells, g, es[c], r)
         IN  IF result.value = None THEN result
             ELSE [result EXCEPT !.engine = Remember(@, c, r, result.value)]

\* The column and those that read it directly.
MarkRowDirty(es, g, c, r) ==
    [g EXCEPT !.dirtyRows = [d \in Columns |->
                                IF d = c \/ d \in Dependents(es, c) THEN @[d] \cup {r} ELSE @[d]]]

MarkColumnDirty(es, g, c) == [g EXCEPT !.dirtyColumns = @ \cup {c} \cup Dependents(es, c)]

InvalidateAll == [NewEngine EXCEPT !.dirtyColumns = Computed]

RECURSIVE MarkRows(_, _, _, _)
MarkRows(es, g, cs, r) ==
    IF cs = {} THEN g
    ELSE LET c == CHOOSE c \in cs : TRUE IN MarkRows(es, MarkRowDirty(es, g, c, r), cs \ {c}, r)

RECURSIVE MarkColumns(_, _, _)
MarkColumns(es, g, cs) ==
    IF cs = {} THEN g
    ELSE LET c == CHOOSE c \in cs : TRUE IN MarkColumns(es, MarkColumnDirty(es, g, c), cs \ {c})

RECURSIVE ReadThrough(_, _)
\* The columns that read one of cs, directly or through others, and cs.
ReadThrough(es, cs) ==
    LET more == cs \cup UNION {Dependents(es, c) : c \in cs}
    IN  IF more = cs THEN cs ELSE ReadThrough(es, more)

----------------------------------------------------------------------------
ComputedInit ==
    /\ TableInit /\ SortInit
    /\ exprs = Unset
    /\ engine = Unset

\* TableRuntime::new begins with the graph of the schema ...
CreateTable == \E es \in Schemas :
    /\ BeginSort([c \in Computed |-> DependsOn(es, c) \cap Computed])
    /\ exprs' = es
    /\ UNCHANGED <<table, engine>>

SortColumn == PlaceColumn /\ UNCHANGED <<table, exprs, engine>>

\* ... and ends with an engine or with an error.
EndCreate ==
    /\ EndSort
    /\ engine' = IF verdict' = "ordered" THEN NewEngine ELSE Unset
    /\ UNCHANGED <<table, exprs>>

Open == engine # Unset

ComputedInsert == Open /\ Insert /\ UNCHANGED <<exprs, engine, sortVars>>

ComputedDelete == Open /\ Delete /\ UNCHANGED <<exprs, engine, sortVars>>

\* The columns the host has to mark after writing cs: those whose marks reach the others.
ToMark(es, cs) == {c \in ReadThrough(es, cs) : Dependents(es, c) # {}}

\* The host updates a row and marks what it may have changed.
ComputedUpdate == \E r \in RowIds, u \in Updates :
    LET marks == IF KeyTouched(u) THEN {} ELSE ToMark(exprs, DOMAIN u)
    IN  /\ Open
        /\ table' \in UpdateRow(table, r, u)
        /\ engine' = IF MarksColumns THEN MarkColumns(exprs, engine, marks)
                     ELSE MarkRows(exprs, engine, marks, r)
        /\ UNCHANGED <<exprs, sortVars>>

\* get_column_value for a row that was given out; get_row works on a copy of the engine and
\* leaves no trace.
ReadComputed == \E c \in Computed :
    /\ Open
    /\ \E r \in 0..(table.next - 1) :
           engine' = ComputedValue(exprs, table.cells, engine, c, r).engine
    /\ UNCHANGED <<table, exprs, sortVars>>

MarkColumn == \E c \in Columns :
    /\ Open
    /\ engine' = MarkColumnDirty(exprs, engine, c)
    /\ UNCHANGED <<table, exprs, sortVars>>

Invalidate ==
    /\ Open
    /\ engine' = InvalidateAll
    /\ UNCHANGED <<table, exprs, sortVars>>

ComputedNext ==
    \/ CreateTable \/ SortColumn \/ EndCreate
    \/ ComputedInsert \/ ComputedDelete \/ ComputedUpdate
    \/ ReadComputed \/ MarkColumn \/ Invalidate

ComputedSpec == ComputedInit /\ [][ComputedNext]_computedVars

----------------------------------------------------------------------------
\* A column that was marked dirty, or a row of it, is recomputed before it is served: what the
\* cache gives out is what a fresh evaluation of the live row gives.  It fails for hosts that
\* mark columns (mark_column_dirty): recomputing one row takes the mark of the column away,
\* and the other rows are served as they were.
ServedValuesFresh ==
    Open => \A c \in Computed, r \in LiveRows(table) :
                Clean(engine, c, r) =>
                    engine.cached[c][r] = Evaluate(exprs, table.cells, NewEngine, exprs[c], r).value
=============================================================================
