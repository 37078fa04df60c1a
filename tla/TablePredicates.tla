-------------------------- MODULE TablePredicates --------------------------
(***************************************************************************)
(* Scans of a table (table_runtime.rs): predicates evaluated on columns to *)
(* a bitmap or, where there is an index, to a list of rows, and the scans  *)
(* by a value and by a range.  A predicate is                              *)
(*     [op |-> "And" or "Or", left |-> predicate, right |-> predicate]     *)
(*     [op |-> a comparison, column |-> c, value |-> literal]              *)
(* The rows a scan gives out are identified by their ids.                  *)
(***************************************************************************)
EXTENDS TableOperations

CONSTANT ColumnType   \* the declared type of a column

Ranges == {"Less", "LessEqual", "Greater", "GreaterEqual"}

----------------------------------------------------------------------------
(* Values, as records of a type and a number. *)

\* value_as_f64 succeeds
IsNumber(v) == v.type \in {"u64", "i32", "f64"}

SameValue(l, r) == l = r \/ (IsNumber(l) /\ IsNumber(r) /\ l.n = r.n)

Comparable(l, r) == (IsNumber(l) /\ IsNumber(r)) \/ (l.type = r.type /\ ~IsNumber(l))

\* compare_column_values: true when left is not below right.
AtLeast(l, r) == Comparable(l, r) /\ l.n >= r.n

\* A literal is brought to the type of the column it is compared with; whole numbers keep
\* their value.
Normalize(c, v) ==
    LET to == ColumnType[c]
    IN  IF \/ to = "f64" /\ IsNumber(v)
           \/ to = "u64" /\ v.type = "i32"
           \/ to = "i32" /\ v.type \in {"u64", "f64"}
        THEN [v EXCEPT !.type = to] ELSE v

----------------------------------------------------------------------------
(* Results of a predicate: rows of a bitmap, rows of an index, or no help. *)

Bitmap(rows) == [kind |-> "bitmap", rows |-> rows]
IndexLookup(rows) == [kind |-> "index", rows |-> rows]
FullScan == [kind |-> "all", rows |-> {}]

FoundByKey(t, v) == (IF v \in Values THEN {FindByPrimaryKey(t, v)} ELSE {}) \ {NoRow}

InIndex(t, c, v) == IF v \in Values THEN t.secondary[c][v] ELSE {}

RowsEqual(t, c, v) ==
    {r \in LiveRows(t) : t.cells[r][c] # None /\ SameValue(t.cells[r][c], Normalize(c, v))}

\* The four range operators on a cell.  AtLeast holds for equal values, so that the strict
\* ones are not strict.
InRange(op, cell, v) ==
    IF op \in {"Less", "LessEqual"} THEN AtLeast(v, cell) ELSE AtLeast(cell, v)

\* evaluate_equality_predicate
Equality(t, c, v) ==
    IF c = PrimaryKey THEN IndexLookup(FoundByKey(t, v))
    ELSE IF t.secondary[c] # NoIndex THEN IndexLookup(InIndex(t, c, v))
    ELSE Bitmap(RowsEqual(t, c, v))

\* Only a bitmap is turned round.
Inverted(t, result) ==
    IF result.kind = "bitmap" THEN Bitmap((0..(t.next - 1)) \ result.rows) ELSE result

\* evaluate_range_predicate; the primary index is of no use here.
RangeOf(t, op, c, v) ==
    IF t.secondary[c] # NoIndex
    THEN IndexLookup(UNION {t.secondary[c][w] : w \in {w \in Values : InRange(op, w, v)}})
    ELSE Bitmap({r \in LiveRows(t) : t.cells[r][c] # None /\ InRange(op, t.cells[r][c], v)})

\* intersect_predicate_results, union_predicate_results
Both(l, r) ==
    IF l.kind = r.kind THEN [l EXCEPT !.rows = @ \cap r.rows] ELSE FullScan

Either(l, r) ==
    IF l.kind = r.kind THEN [l EXCEPT !.rows = @ \cup r.rows] ELSE FullScan

RECURSIVE Columnar(_, _)
\* evaluate_predicate_columnar
Columnar(t, p) ==
    CASE p.op = "And" -> Both(Columnar(t, p.left), Columnar(t, p.right))
      [] p.op = "Or" -> Either(Columnar(t, p.left), Columnar(t, p.right))
      [] p.op = "Equal" -> Equality(t, p.column, Normalize(p.column, p.value))
      [] p.op = "NotEqual" -> Inverted(t, Equality(t, p.column, Normalize(p.column, p.value)))
      [] p.op \in Ranges -> RangeOf(t, p.op, p.column, Normalize(p.column, p.value))

\* scan_filtered_optimized; without help every row passes.
ScanFilteredOptimized(t, p) ==
    LET result == Columnar(t, p)
    IN  IF result.kind = "all" THEN LiveRows(t) ELSE result.rows \cap LiveRows(t)

\* scan_by_column_value; a key is looked up as it is given.
ScanByColumnValue(t, c, v) ==
    IF c = PrimaryKey THEN FoundByKey(t, v) ELSE RowsEqual(t, c, v)

\* scan_by_column_range; None for an end that is open.
ScanByColumnRange(t, c, min, max) ==
    {r \in LiveRows(t) : /\ t.cells[r][c] # None
                         /\ min # None => AtLeast(t.cells[r][c], min)
                         /\ max # None => AtLeast(max, t.cells[r][c])}

----------------------------------------------------------------------------
(* What a predicate means. *)

\* A comparison of a cell with a literal.
Compare(cell, op, v) ==
    CASE op = "Equal" -> SameValue(cell, v)
      [] op = "NotEqual" -> ~SameValue(cell, v)
      [] op = "LessEqual" -> Comparable(cell, v) /\ cell.n <= v.n
      [] op = "GreaterEqual" -> Comparable(cell, v) /\ cell.n >= v.n
      [] op = "Less" -> Comparable(cell, v) /\ cell.n < v.n
      [] op = "Greater" -> Comparable(cell, v) /\ cell.n > v.n

RECURSIVE Satisfies(_, _)
Satisfies(row, p) ==
    CASE p.op = "And" -> Satisfies(row, p.left) /\ Satisfies(row, p.right)
      [] p.op = "Or" -> Satisfies(row, p.left) \/ Satisfies(row, p.right)
      [] OTHER -> Compare(row[p.column], p.op, p.value)

RowsThatSatisfy(t, p) == {r \in LiveRows(t) : Satisfies(t.cells[r], p)}

RECURSIVE Comparisons(_)
Comparisons(p) ==
    IF p.op \in {"And", "Or"} THEN Comparisons(p.left) \cup Comparisons(p.right) ELSE {p}

=============================================================================
