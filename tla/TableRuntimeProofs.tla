------------------------- MODULE TableRuntimeProofs -------------------------
(***************************************************************************)
(* Theorems about TableRuntime, for every value of its constants, and      *)
(* about the sort of DependencyGraph, for every graph of computed columns. *)
(***************************************************************************)
EXTENDS TableRuntime, DependencyGraph, FiniteSetTheorems, TLAPS

\* Tombstones are on rows that were given out: the next row is born alive.
TombstonesGiven == table.deleted \subseteq 0..(table.next - 1)

\* What the operations preserve together.  IndexExact needs that the next row has no tombstone,
\* CountExact that a deleted row was counted, and the type of count needs CountExact.
TableInv == TableTypeOK /\ TombstonesGiven /\ IndexExact /\ CountExact /\ LiveRowsFull

----------------------------------------------------------------------------
(* What the operations do *)

Row == [Stored -> Values]

\* A row of which only some columns could be written: it is not given out.
Torn(w) == table.next < MaxRows /\ w \in [Stored -> Cell] /\ table' = [table EXCEPT !.cells[table.next] = w]

Stores(row) == table.next < MaxRows /\ row \in Row /\ ~Duplicate(table, row) /\ table' = StoreRow(table, row)

Changes(r, w) ==
    /\ r \in RowIds /\ Exists(table, r) /\ w \in [Stored -> Cell]
    /\ table.cells[r] \in Row => w \in Row
    /\ PrimaryKey # None => w[PrimaryKey] = table.cells[r][PrimaryKey]
    /\ table' = [table EXCEPT !.cells[r] = w]

Deletes(r) == r \in RowIds /\ Exists(table, r) /\ table' = DeleteRow(table, r)

Indexes(c) == c \in Columns /\ table' = [table EXCEPT !.secondary[c] = BuildIndex(table, c)]

\* insert_row leaves the table, stores a row under a key that is new, or leaves a torn one.
LEMMA InsertKinds ==
    ASSUME TableTypeOK, NEW given, table.next < MaxRows, table' \in InsertRow(table, given)
    PROVE  \/ table' = table
           \/ \E row \in Row : Stores(row)
           \/ \E w \in [Stored -> Cell] : Torn(w)
<1> DEFINE row == Complete(given)
           fits == {c \in Stored : row[c] \in CanHold[c]}
<1>1. CASE ~Admissible(given) \/ Duplicate(table, row)
  BY <1>1 DEF InsertRow
<1>2. CASE Admissible(given) /\ ~Duplicate(table, row) /\ fits = Stored
  <2>1. row \in Row
    BY <1>2, TableAssumption DEF Complete, Row
  <2>2. table' = StoreRow(table, row)
    BY <1>2 DEF InsertRow
  <2>3. QED
    BY <1>2, <2>1, <2>2 DEF Stores
<1>3. CASE Admissible(given) /\ ~Duplicate(table, row) /\ fits # Stored
  <2>1. PICK done \in SUBSET fits :
            table' = [table EXCEPT !.cells[table.next] = [c \in Stored |-> IF c \in done THEN row[c] ELSE @[c]]]
    BY <1>3 DEF InsertRow
  <2> DEFINE w == [c \in Stored |-> IF c \in done THEN row[c] ELSE table.cells[table.next][c]]
  <2>2. table.next \in RowIds
    BY TableAssumption DEF TableTypeOK, Table, RowIds
  <2>3. table.cells[table.next] \in [Stored -> Cell]
    BY <2>2 DEF TableTypeOK, Table
  <2>4. \A c \in done : row[c] \in Values
    BY TableAssumption
  <2>5. w \in [Stored -> Cell]
    BY <2>3, <2>4 DEF Cell
  <2>6. table' = [table EXCEPT !.cells[table.next] = w]
    BY <2>1
  <2>7. QED
    BY <2>5, <2>6 DEF Torn
<1>4. QED
  BY <1>1, <1>2, <1>3

\* update_row leaves the table or changes one row that lives, and never its key.
LEMMA UpdateKinds ==
    ASSUME TableTypeOK, NEW r \in RowIds, NEW u, table' \in UpdateRow(table, r, u)
    PROVE  table' = table \/ \E w \in [Stored -> Cell] : Changes(r, w)
<1>1. CASE ~Exists(table, r) \/ KeyTouched(u)
  BY <1>1 DEF UpdateRow
<1>2. CASE Exists(table, r) /\ ~KeyTouched(u)
  <2>1. PICK done \in Applied(u) :
            table' = [table EXCEPT !.cells[r] = [c \in Stored |-> IF c \in done THEN u[c] ELSE @[c]]]
    BY <1>2 DEF UpdateRow
  <2> DEFINE w == [c \in Stored |-> IF c \in done THEN u[c] ELSE table.cells[r][c]]
  <2>2. table.cells[r] \in [Stored -> Cell]
    BY DEF TableTypeOK, Table
  <2>3. \A c \in done : c \in DOMAIN u /\ (c \in Computed \/ (c \in Stored /\ u[c] \in Accepts[c]))
    BY DEF Applied
  <2>4. \A c \in done \cap Stored : u[c] \in Values
    BY <2>3, TableAssumption
  <2>5. w \in [Stored -> Cell] /\ (table.cells[r] \in Row => w \in Row)
    BY <2>2, <2>4 DEF Cell, Row
  <2>6. PrimaryKey # None => w[PrimaryKey] = table.cells[r][PrimaryKey]
    BY <1>2, <2>3, TableAssumption DEF KeyTouched
  <2>7. table' = [table EXCEPT !.cells[r] = w]
    BY <2>1
  <2>8. QED
    BY <1>2, <2>5, <2>6, <2>7 DEF Changes
<1>3. QED
  BY <1>1, <1>2

LEMMA StepKinds ==
    ASSUME TableTypeOK, [TableNext]_table
    PROVE  \/ UNCHANGED table
           \/ \E row \in Row : Stores(row)
           \/ \E w \in [Stored -> Cell] : Torn(w)
           \/ \E r \in RowIds : \E w \in [Stored -> Cell] : Changes(r, w)
           \/ \E r \in RowIds : Deletes(r)
           \/ \E c \in Columns : Indexes(c)
<1>1. CASE Insert
  BY <1>1, InsertKinds DEF Insert
<1>2. CASE Update
  BY <1>2, UpdateKinds DEF Update
<1>3. CASE Delete
  BY <1>3 DEF Delete, DeleteRow, Deletes
<1>4. CASE AddIndex
  BY <1>4, IndexedAssumption DEF AddIndex, AddSecondaryIndex, Indexes
<1>5. QED
  BY <1>1, <1>2, <1>3, <1>4 DEF TableNext

----------------------------------------------------------------------------
(* Types *)

\* The live rows are finitely many, no more than were given out.
LEMMA LiveRowsFinite ==
    ASSUME TableTypeOK
    PROVE  IsFiniteSet(LiveRows(table)) /\ Cardinality(LiveRows(table)) \in 0..table.next
<1>1. table.next \in Nat
  BY TableAssumption DEF TableTypeOK, Table
<1>2. IsFiniteSet(0..(table.next - 1)) /\ Cardinality(0..(table.next - 1)) = table.next
  <2>1. 0 \in Int /\ table.next - 1 \in Int
    BY <1>1
  <2>2. /\ IsFiniteSet(0..(table.next - 1))
        /\ Cardinality(0..(table.next - 1)) =
             IF 0 > table.next - 1 THEN 0 ELSE (table.next - 1) - 0 + 1
    BY <2>1, FS_Interval
  <2>3. QED
    BY <1>1, <2>2
<1>3. LiveRows(table) \in SUBSET (0..(table.next - 1))
  BY DEF LiveRows
<1>4. IsFiniteSet(LiveRows(table)) /\ Cardinality(LiveRows(table)) <= table.next
  BY <1>2, <1>3, FS_Subset
<1>5. QED
  BY <1>1, <1>4, FS_CardinalityType

LEMMA KeyOfRow ==
    ASSUME PrimaryKey # None
    PROVE  /\ PrimaryKey \in Stored
           /\ \A row \in Row : row[PrimaryKey] \in Values
BY TableAssumption DEF Row

LEMMA StoreType ==
    ASSUME TableTypeOK, NEW row, Stores(row)
    PROVE  TableTypeOK' \/ ~CountExact
<1> SUFFICES ASSUME CountExact PROVE TableTypeOK'
  OBVIOUS
<1>1. table.next \in RowIds /\ table.next + 1 \in 0..MaxRows /\ table.next \in Nat
  BY TableAssumption DEF TableTypeOK, Table, RowIds, Stores
<1>2. table.count + 1 \in 0..MaxRows
  <2>1. table.count \in 0..table.next
    BY LiveRowsFinite DEF CountExact
  <2>2. QED
    BY <1>1, <2>1, TableAssumption
<1>3. row \in [Stored -> Cell]
  BY DEF Stores, Row, Cell
<1>4. (IF PrimaryKey = None THEN table.primary ELSE [table.primary EXCEPT ![row[PrimaryKey]] = table.next])
          \in [Values -> RowIds \cup {NoRow}]
  BY <1>1 DEF TableTypeOK, Table
<1>5. QED
  BY <1>1, <1>2, <1>3, <1>4 DEF Stores, StoreRow, TableTypeOK, Table

LEMMA DeleteType ==
    ASSUME TableTypeOK, CountExact, NEW r, Deletes(r)
    PROVE  TableTypeOK'
<1>1. r \in LiveRows(table)
  BY TableAssumption DEF Deletes, Exists, LiveRows, RowIds, TableTypeOK, Table
<1>2. table.count # 0
  BY <1>1, LiveRowsFinite, FS_EmptySet DEF CountExact
<1>3. table.count - 1 \in 0..MaxRows
  <2>1. table.count \in 0..MaxRows
    BY DEF TableTypeOK, Table
  <2>2. QED
    BY <1>2, <2>1, TableAssumption
<1>4. Unindexed(table, r) \in [Values -> RowIds \cup {NoRow}]
  BY DEF TableTypeOK, Table, Unindexed
<1>5. EmptyRow \in [Stored -> Cell]
  BY DEF EmptyRow, Cell
<1>6. QED
  BY <1>3, <1>4, <1>5 DEF Deletes, DeleteRow, TableTypeOK, Table

LEMMA IndexType ==
    ASSUME TableTypeOK, NEW c, Indexes(c)
    PROVE  TableTypeOK'
<1>1. LiveRows(table) \subseteq RowIds
  BY TableAssumption DEF LiveRows, RowIds, TableTypeOK, Table
<1>2. BuildIndex(table, c) \in [Values -> SUBSET RowIds]
  BY <1>1 DEF BuildIndex
<1>3. QED
  BY <1>2 DEF Indexes, TableTypeOK, Table

LEMMA TypeStep == TableInv /\ [TableNext]_table => TableTypeOK'
<1> SUFFICES ASSUME TableInv, [TableNext]_table PROVE TableTypeOK'
  OBVIOUS
<1> USE DEF TableInv
<1>1. CASE UNCHANGED table
  BY <1>1 DEF TableTypeOK
<1>2. ASSUME NEW row \in Row, Stores(row) PROVE TableTypeOK'
  BY <1>2, StoreType
<1>3. ASSUME NEW w \in [Stored -> Cell], Torn(w) PROVE TableTypeOK'
  BY <1>3 DEF Torn, TableTypeOK, Table
<1>4. ASSUME NEW r \in RowIds, NEW w \in [Stored -> Cell], Changes(r, w) PROVE TableTypeOK'
  BY <1>4 DEF Changes, TableTypeOK, Table
<1>5. ASSUME NEW r \in RowIds, Deletes(r) PROVE TableTypeOK'
  BY <1>5, DeleteType
<1>6. ASSUME NEW c \in Columns, Indexes(c) PROVE TableTypeOK'
  BY <1>6, IndexType
<1>7. QED
  BY <1>1, <1>2, <1>3, <1>4, <1>5, <1>6, StepKinds

----------------------------------------------------------------------------
(* Which rows live, and what is in them *)

\* The rows that live after a step, and the cells of those that lived before it.
LEMMA StoreRows ==
    ASSUME TableTypeOK, TombstonesGiven, NEW row, Stores(row)
    PROVE  /\ LiveRows(table)' = LiveRows(table) \cup {table.next}
           /\ table.next \notin LiveRows(table)
           /\ table.cells' = [table.cells EXCEPT ![table.next] = row]
           /\ table.next \in RowIds
           /\ TombstonesGiven'
BY TableAssumption DEF Stores, StoreRow, LiveRows, TombstonesGiven, TableTypeOK, Table, RowIds

LEMMA TornRows ==
    ASSUME TableTypeOK, NEW w, Torn(w)
    PROVE  /\ LiveRows(table)' = LiveRows(table)
           /\ \A r \in LiveRows(table) : table'.cells[r] = table.cells[r]
           /\ table.primary' = table.primary /\ table.count' = table.count /\ table.next' = table.next
           /\ table.deleted' = table.deleted
BY TableAssumption DEF Torn, LiveRows, TableTypeOK, Table, RowIds

LEMMA ChangeRows ==
    ASSUME TableTypeOK, NEW r, NEW w, Changes(r, w)
    PROVE  /\ LiveRows(table)' = LiveRows(table)
           /\ r \in LiveRows(table)
           /\ table.cells' = [table.cells EXCEPT ![r] = w]
           /\ table.primary' = table.primary /\ table.count' = table.count /\ table.next' = table.next
           /\ table.deleted' = table.deleted
BY TableAssumption DEF Changes, Exists, LiveRows, TableTypeOK, Table, RowIds

LEMMA DeleteRows ==
    ASSUME TableTypeOK, TombstonesGiven, NEW r, Deletes(r)
    PROVE  /\ LiveRows(table)' = LiveRows(table) \ {r}
           /\ r \in LiveRows(table)
           /\ table.cells' = [table.cells EXCEPT ![r] = EmptyRow]
           /\ table.primary' = Unindexed(table, r)
           /\ table.count' = table.count - 1 /\ table.next' = table.next
           /\ TombstonesGiven'
BY TableAssumption DEF Deletes, DeleteRow, Exists, LiveRows, TombstonesGiven, TableTypeOK, Table, RowIds

LEMMA IndexRows ==
    ASSUME TableTypeOK, NEW c, Indexes(c)
    PROVE  /\ LiveRows(table)' = LiveRows(table)
           /\ table.cells' = table.cells /\ table.primary' = table.primary /\ table.count' = table.count
           /\ table.next' = table.next /\ table.deleted' = table.deleted
BY DEF Indexes, LiveRows, TableTypeOK, Table

----------------------------------------------------------------------------
(* The invariants *)

LEMMA TombstonesStep == TableInv /\ [TableNext]_table => TombstonesGiven'
<1> SUFFICES ASSUME TableInv, [TableNext]_table PROVE TombstonesGiven'
  OBVIOUS
<1> USE DEF TableInv
<1>1. CASE UNCHANGED table
  BY <1>1 DEF TombstonesGiven
<1>2. ASSUME NEW row \in Row, Stores(row) PROVE TombstonesGiven'
  BY <1>2, StoreRows
<1>3. ASSUME NEW w \in [Stored -> Cell], Torn(w) PROVE TombstonesGiven'
  BY <1>3, TornRows DEF TombstonesGiven
<1>4. ASSUME NEW r \in RowIds, NEW w \in [Stored -> Cell], Changes(r, w) PROVE TombstonesGiven'
  BY <1>4, ChangeRows DEF TombstonesGiven
<1>5. ASSUME NEW r \in RowIds, Deletes(r) PROVE TombstonesGiven'
  BY <1>5, DeleteRows
<1>6. ASSUME NEW c \in Columns, Indexes(c) PROVE TombstonesGiven'
  BY <1>6, IndexRows DEF TombstonesGiven
<1>7. QED
  BY <1>1, <1>2, <1>3, <1>4, <1>5, <1>6, StepKinds

\* A row that lives has all its columns: torn rows were never given out.
LEMMA FullStep == TableInv /\ [TableNext]_table => LiveRowsFull'
<1> SUFFICES ASSUME TableInv, [TableNext]_table PROVE LiveRowsFull'
  OBVIOUS
<1> USE DEF TableInv
<1>0. LiveRows(table) \subseteq RowIds
  BY TableAssumption DEF LiveRows, RowIds, TableTypeOK, Table
<1>1. CASE UNCHANGED table
  BY <1>1 DEF LiveRowsFull, LiveRows
<1>2. ASSUME NEW row \in Row, Stores(row) PROVE LiveRowsFull'
  <2>1. /\ LiveRows(table)' = LiveRows(table) \cup {table.next}
        /\ table'.cells = [table.cells EXCEPT ![table.next] = row]
        /\ table.next \in RowIds /\ table.next \notin LiveRows(table)
    BY <1>2, StoreRows
  <2>2. DOMAIN table.cells = RowIds
    BY DEF TableTypeOK, Table
  <2>3. table'.cells[table.next] = row /\ \A r \in LiveRows(table) : table'.cells[r] = table.cells[r]
    BY <1>0, <2>1, <2>2
  <2>4. \A c \in Stored : row[c] # None
    BY TableAssumption DEF Row
  <2>5. QED
    BY <2>1, <2>3, <2>4 DEF LiveRowsFull
<1>3. ASSUME NEW w \in [Stored -> Cell], Torn(w) PROVE LiveRowsFull'
  BY <1>3, TornRows DEF LiveRowsFull
<1>4. ASSUME NEW r \in RowIds, NEW w \in [Stored -> Cell], Changes(r, w) PROVE LiveRowsFull'
  <2>1. table.cells[r] \in Row
    <3>1. table.cells[r] \in [Stored -> Cell]
      BY DEF TableTypeOK, Table
    <3>2. r \in LiveRows(table)
      BY <1>4, ChangeRows
    <3>3. QED
      BY <3>1, <3>2 DEF LiveRowsFull, Row, Cell
  <2>2. \A c \in Stored : w[c] # None
    BY <1>4, <2>1, TableAssumption DEF Changes, Row
  <2>3. QED
    <3>1. LiveRows(table)' = LiveRows(table) /\ table'.cells = [table.cells EXCEPT ![r] = w]
      BY <1>4, ChangeRows
    <3>2. DOMAIN table.cells = RowIds
      BY DEF TableTypeOK, Table
    <3>3. \A q \in LiveRows(table) : table'.cells[q] = IF q = r THEN w ELSE table.cells[q]
      BY <1>0, <3>1, <3>2
    <3>4. QED
      BY <2>2, <3>1, <3>3 DEF LiveRowsFull
<1>5. ASSUME NEW r \in RowIds, Deletes(r) PROVE LiveRowsFull'
  BY <1>0, <1>5, DeleteRows DEF LiveRowsFull, TableTypeOK, Table
<1>6. ASSUME NEW c \in Columns, Indexes(c) PROVE LiveRowsFull'
  BY <1>6, IndexRows DEF LiveRowsFull
<1>7. QED
  BY <1>1, <1>2, <1>3, <1>4, <1>5, <1>6, StepKinds

\* row_count: a row that is stored did not live, and one that is deleted did.
LEMMA CountStep == TableInv /\ [TableNext]_table => CountExact'
<1> SUFFICES ASSUME TableInv, [TableNext]_table PROVE CountExact'
  OBVIOUS
<1> USE DEF TableInv
<1>0. IsFiniteSet(LiveRows(table))
  BY LiveRowsFinite
<1>1. CASE UNCHANGED table
  BY <1>1 DEF CountExact, LiveRows
<1>2. ASSUME NEW row \in Row, Stores(row) PROVE CountExact'
  <2>1. Cardinality(LiveRows(table) \cup {table.next}) = Cardinality(LiveRows(table)) + 1
    BY <1>0, <1>2, StoreRows, FS_AddElement
  <2>2. table.count' = table.count + 1
    BY <1>2 DEF Stores, StoreRow, TableTypeOK, Table
  <2>3. QED
    BY <1>2, <2>1, <2>2, StoreRows DEF CountExact
<1>3. ASSUME NEW w \in [Stored -> Cell], Torn(w) PROVE CountExact'
  BY <1>3, TornRows DEF CountExact
<1>4. ASSUME NEW r \in RowIds, NEW w \in [Stored -> Cell], Changes(r, w) PROVE CountExact'
  BY <1>4, ChangeRows DEF CountExact
<1>5. ASSUME NEW r \in RowIds, Deletes(r) PROVE CountExact'
  <2>1. Cardinality(LiveRows(table) \ {r}) = Cardinality(LiveRows(table)) - 1
    BY <1>0, <1>5, DeleteRows, FS_RemoveElement
  <2>2. QED
    BY <1>5, <2>1, DeleteRows DEF CountExact
<1>6. ASSUME NEW c \in Columns, Indexes(c) PROVE CountExact'
  BY <1>6, IndexRows DEF CountExact
<1>7. QED
  BY <1>1, <1>2, <1>3, <1>4, <1>5, <1>6, StepKinds

\* The index: a stored key was in no entry, and a deleted row takes its entry with it.
LEMMA IndexStep == TableInv /\ [TableNext]_table => IndexExact'
<1> SUFFICES ASSUME TableInv, [TableNext]_table, PrimaryKey # None, NEW v \in Values, NEW q \in RowIds
             PROVE  table'.primary[v] = q <=> q \in LiveRows(table)' /\ table'.cells[q][PrimaryKey] = v
  BY DEF IndexExact, LiveRows
<1> USE DEF TableInv
<1>0. /\ table.primary \in [Values -> RowIds \cup {NoRow}]
      /\ table.cells \in [RowIds -> [Stored -> Cell]]
      /\ LiveRows(table) \subseteq RowIds
      /\ NoRow \notin RowIds
      /\ PrimaryKey \in Stored
      /\ None \notin Values
      /\ table.primary[v] = q <=> q \in LiveRows(table) /\ table.cells[q][PrimaryKey] = v
  BY TableAssumption DEF IndexExact, LiveRows, RowIds, NoRow, TableTypeOK, Table
<1>1. CASE UNCHANGED table
  BY <1>0, <1>1 DEF LiveRows
<1>2. ASSUME NEW row \in Row, Stores(row)
      PROVE  table'.primary[v] = q <=> q \in LiveRows(table)' /\ table'.cells[q][PrimaryKey] = v
  <2>1. row[PrimaryKey] \in Values /\ table.primary[row[PrimaryKey]] = NoRow
    BY <1>2, KeyOfRow DEF Stores, Duplicate
  <2>2. table.primary' = [table.primary EXCEPT ![row[PrimaryKey]] = table.next]
    BY <1>2 DEF Stores, StoreRow, TableTypeOK, Table
  <2>3. \A r \in LiveRows(table) : table.cells[r][PrimaryKey] # row[PrimaryKey]
    BY <1>0, <2>1 DEF IndexExact
  <2>0. /\ LiveRows(table)' = LiveRows(table) \cup {table.next}
        /\ table.next \in RowIds /\ table.next \notin LiveRows(table)
        /\ table'.cells = [table.cells EXCEPT ![table.next] = row]
    BY <1>2, StoreRows
  <2>6. table'.cells[q] = IF q = table.next THEN row ELSE table.cells[q]
    BY <1>0, <2>0
  <2>7. table'.primary[v] = IF v = row[PrimaryKey] THEN table.next ELSE table.primary[v]
    BY <1>0, <2>1, <2>2
  <2>4. CASE v = row[PrimaryKey]
    BY <2>0, <2>6, <2>7, <2>3, <2>4
  <2>5. CASE v # row[PrimaryKey]
    BY <1>0, <2>0, <2>1, <2>6, <2>7, <2>5
  <2>8. QED
    BY <2>4, <2>5
<1>3. ASSUME NEW w \in [Stored -> Cell], Torn(w)
      PROVE  table'.primary[v] = q <=> q \in LiveRows(table)' /\ table'.cells[q][PrimaryKey] = v
  BY <1>0, <1>3, TornRows
<1>4. ASSUME NEW r \in RowIds, NEW w \in [Stored -> Cell], Changes(r, w)
      PROVE  table'.primary[v] = q <=> q \in LiveRows(table)' /\ table'.cells[q][PrimaryKey] = v
  <2>1. w[PrimaryKey] = table.cells[r][PrimaryKey]
    BY <1>4 DEF Changes
  <2>2. /\ LiveRows(table)' = LiveRows(table) /\ table'.primary = table.primary
        /\ table'.cells = [table.cells EXCEPT ![r] = w]
    BY <1>4, ChangeRows
  <2>3. table'.cells[q] = IF q = r THEN w ELSE table.cells[q]
    BY <1>0, <2>2
  <2>4. QED
    BY <1>0, <2>1, <2>2, <2>3
<1>5. ASSUME NEW r \in RowIds, Deletes(r)
      PROVE  table'.primary[v] = q <=> q \in LiveRows(table)' /\ table'.cells[q][PrimaryKey] = v
  <2> DEFINE key == table.cells[r][PrimaryKey]
  <2>1. table'.primary = IF key = None THEN table.primary ELSE [table.primary EXCEPT ![key] = NoRow]
    BY <1>5, DeleteRows DEF Unindexed
  <2>2. key \in Cell
    BY <1>0
  <2>3. CASE v = key
    <3>1. table'.primary[v] = NoRow
      BY <1>0, <2>1, <2>3
    <3>2. q \in LiveRows(table) /\ table.cells[q][PrimaryKey] = v => q = r
      BY <1>0, <1>5, <2>3, DeleteRows DEF IndexExact
    <3>3. LiveRows(table)' = LiveRows(table) \ {r} /\ table'.cells = [table.cells EXCEPT ![r] = EmptyRow]
      BY <1>5, DeleteRows
    <3>4. q # r => table'.cells[q] = table.cells[q]
      BY <1>0, <3>3
    <3>5. QED
      BY <1>0, <3>1, <3>2, <3>3, <3>4
  <2>4. CASE v # key
    <3>1. table'.primary[v] = table.primary[v]
      BY <1>0, <2>1, <2>2, <2>4 DEF Cell
    <3>2. QED
      BY <1>0, <1>5, <2>4, <3>1, DeleteRows
  <2>5. QED
    BY <2>3, <2>4
<1>6. ASSUME NEW c \in Columns, Indexes(c)
      PROVE  table'.primary[v] = q <=> q \in LiveRows(table)' /\ table'.cells[q][PrimaryKey] = v
  BY <1>0, <1>6, IndexRows
<1>7. QED
  BY <1>1, <1>2, <1>3, <1>4, <1>5, <1>6, StepKinds

LEMMA InvInit == TableInit => TableInv
<1> SUFFICES ASSUME TableInit PROVE TableInv
  OBVIOUS
<1>1. LiveRows(table) = {}
  BY DEF TableInit, NewTable, LiveRows
<1>2. TableTypeOK
  BY TableAssumption DEF TableInit, NewTable, TableTypeOK, Table, EmptyRow, Cell
<1>3. CountExact
  BY <1>1, FS_EmptySet DEF CountExact, TableInit, NewTable
<1>4. IndexExact
  <2>1. \A v \in Values : table.primary[v] = NoRow
    BY DEF TableInit, NewTable
  <2>2. NoRow \notin RowIds
    BY TableAssumption DEF NoRow, RowIds
  <2>3. QED
    BY <1>1, <2>1, <2>2 DEF IndexExact
<1>5. TombstonesGiven /\ LiveRowsFull
  BY <1>1 DEF TombstonesGiven, LiveRowsFull, TableInit, NewTable
<1>6. QED
  BY <1>2, <1>3, <1>4, <1>5 DEF TableInv

LEMMA InvStep == TableInv /\ [TableNext]_table => TableInv'
BY TypeStep, TombstonesStep, IndexStep, CountStep, FullStep DEF TableInv

\* Whatever a host inserts, updates, deletes and indexes, a table is one (TableRuntime), and the
\* invariants that its operations keep up together hold.
THEOREM TableInvariant == TableSpec => []TableInv
BY InvInit, InvStep, PTL DEF TableSpec

\* The counter that delete_row decrements is the number of live rows, so it does not underflow.
THEOREM CountExactHolds == TableSpec => []CountExact
<1>1. TableInv => CountExact
  BY DEF TableInv
<1>2. QED
  BY <1>1, TableInvariant, PTL

\* find_by_primary_key finds the live row with a key, for every key, and no other row.
THEOREM IndexExactHolds == TableSpec => []IndexExact
<1>1. TableInv => IndexExact
  BY DEF TableInv
<1>2. QED
  BY <1>1, TableInvariant, PTL

----------------------------------------------------------------------------
(* The refinement *)

\* A key that is in no entry of the index is the key of no live row.
LEMMA NewKeyOfIndex ==
    ASSUME TableInv, NEW row \in Row, ~Duplicate(table, row)
    PROVE  PrimaryKey = None \/ \A r \in LiveRows(table) : table.cells[r][PrimaryKey] # row[PrimaryKey]
<1> SUFFICES ASSUME PrimaryKey # None, NEW r \in LiveRows(table), table.cells[r][PrimaryKey] = row[PrimaryKey]
             PROVE  FALSE
  OBVIOUS
<1>1. r \in RowIds /\ r # NoRow /\ row[PrimaryKey] \in Values
  BY KeyOfRow, TableAssumption DEF TableInv, LiveRows, RowIds, NoRow, TableTypeOK, Table
<1>2. table.primary[row[PrimaryKey]] = r
  BY <1>1 DEF TableInv, IndexExact
<1>3. QED
  BY <1>1, <1>2 DEF Duplicate

LEMMA LiveRowsTyped ==
    ASSUME TableInv
    PROVE  \A r \in LiveRows(table) : r \in RowIds /\ table.cells[r] \in Row
<1> TAKE r \in LiveRows(table)
<1>1. r \in RowIds
  BY TableAssumption DEF TableInv, LiveRows, RowIds, TableTypeOK, Table
<1>2. table.cells[r] \in [Stored -> Cell]
  BY <1>1 DEF TableInv, TableTypeOK, Table
<1>3. QED
  BY <1>1, <1>2 DEF TableInv, LiveRowsFull, Row, Cell

\* A stored row is an insertion, a changed one an update and a tombstone a deletion of the abstract
\* table; torn rows and indexes are not seen.
LEMMA KeyedStep == TableInv /\ TableInv' /\ [TableNext]_table => [K!Next]_(K!vars)
<1> SUFFICES ASSUME TableInv, TableInv', [TableNext]_table PROVE [K!Next]_(K!vars)
  OBVIOUS
<1> DEFINE rows == [r \in LiveRows(table) |-> table.cells[r]]
           given == 0..(table.next - 1)
<1>0. TableTypeOK /\ TombstonesGiven /\ DOMAIN table.cells = RowIds /\ table.next \in Nat /\ Row = K!Row
  BY TableAssumption DEF TableInv, TableTypeOK, Table, Row, K!Row
<1>1. CASE UNCHANGED table
  BY <1>1 DEF K!vars, LiveRows
<1>2. ASSUME NEW row \in Row, Stores(row) PROVE K!Insert
  <2>1. /\ LiveRows(table)' = LiveRows(table) \cup {table.next}
        /\ table.next \in RowIds /\ table.next \notin LiveRows(table)
        /\ table'.cells = [table.cells EXCEPT ![table.next] = row]
    BY <1>0, <1>2, StoreRows
  <2>2. table'.next = table.next + 1
    BY <1>2 DEF Stores, StoreRow, TableInv, TableTypeOK, Table
  <2>3. table.next \in RowIds \ given /\ 0..(table'.next - 1) = given \cup {table.next}
    BY <1>0, <2>1, <2>2
  <2>4. K!NewKey(row)
    BY <1>2, NewKeyOfIndex DEF K!NewKey, Stores
  <2>5. rows' = [q \in DOMAIN rows \cup {table.next} |-> IF q = table.next THEN row ELSE rows[q]]
    BY <1>0, <2>1, LiveRowsTyped
  <2>6. QED
    BY <1>0, <2>3, <2>4, <2>5 DEF K!Insert
<1>3. ASSUME NEW w \in [Stored -> Cell], Torn(w) PROVE UNCHANGED K!vars
  <2>1. LiveRows(table)' = LiveRows(table) /\ (\A r \in LiveRows(table) : table'.cells[r] = table.cells[r])
        /\ table'.next = table.next
    BY <1>0, <1>3, TornRows
  <2>2. QED
    BY <2>1 DEF K!vars
<1>4. ASSUME NEW r \in RowIds, NEW w \in [Stored -> Cell], Changes(r, w) PROVE K!Update
  <2>1. /\ LiveRows(table)' = LiveRows(table) /\ r \in LiveRows(table)
        /\ table'.cells = [table.cells EXCEPT ![r] = w] /\ table'.next = table.next
    BY <1>0, <1>4, ChangeRows
  <2>2. w \in Row /\ (PrimaryKey # None => w[PrimaryKey] = rows[r][PrimaryKey])
    BY <1>4, <2>1, LiveRowsTyped DEF Changes
  <2>3. rows' = [rows EXCEPT ![r] = w]
    BY <1>0, <2>1, LiveRowsTyped
  <2>4. QED
    BY <1>0, <2>1, <2>2, <2>3 DEF K!Update
<1>5. ASSUME NEW r \in RowIds, Deletes(r) PROVE K!Delete
  <2>1. /\ LiveRows(table)' = LiveRows(table) \ {r} /\ r \in LiveRows(table)
        /\ table'.cells = [table.cells EXCEPT ![r] = EmptyRow] /\ table'.next = table.next
    BY <1>0, <1>5, DeleteRows
  <2>2. rows' = [q \in DOMAIN rows \ {r} |-> rows[q]]
    BY <1>0, <2>1, LiveRowsTyped
  <2>3. QED
    BY <2>1, <2>2 DEF K!Delete
<1>6. ASSUME NEW c \in Columns, Indexes(c) PROVE UNCHANGED K!vars
  <2>1. LiveRows(table)' = LiveRows(table) /\ table'.cells = table.cells /\ table'.next = table.next
    BY <1>0, <1>6, IndexRows
  <2>2. QED
    BY <2>1 DEF K!vars
<1>7. QED
  BY <1>0, <1>1, <1>2, <1>3, <1>4, <1>5, <1>6, StepKinds DEF K!Next

\* A table keeps the promises of KeyedTable.
THEOREM TableImplementsKeyedTable == TableSpec => ImplementsKeyedTable
<1>1. TableInit => K!Init
  BY DEF TableInit, NewTable, LiveRows, K!Init
<1>2. QED
  BY <1>1, KeyedStep, InvStep, InvInit, PTL DEF TableSpec, ImplementsKeyedTable, K!Spec

----------------------------------------------------------------------------
(* The sort of computed columns *)

SortType ==
    /\ reads \in [Computed -> SUBSET Computed]
    /\ degree \in [Computed -> Int]
    /\ order \in Seq(Computed)
    /\ verdict \in {"none", "sorting", "ordered", "circular"}

\* Every column in the order is there once.
PlacedOnce == IsFiniteSet(Placed) /\ Cardinality(Placed) = Len(order)

\* A degree counts the columns that have no place yet.
DegreesCount == \A c \in Computed : degree[c] = Cardinality(reads[c] \ Placed)

\* No column of a circle is ever placed: the one placed first would read an earlier one.
CirclesUnplaced == \A cs \in SUBSET Computed : Circle(cs) => cs \cap Placed = {}

\* Nothing has a place before the sort, and everything or not, when it ends.
VerdictRight ==
    /\ verdict = "none" => order = <<>>
    /\ verdict = "ordered" => Placed = Computed
    /\ verdict = "circular" => Placed # Computed /\ Ready = {}

SortInv == SortType /\ PlacedOnce /\ DegreesCount /\ CirclesUnplaced /\ VerdictRight

\* A column that joins the order is the only new one in it.
LEMMA PlacedAppend ==
    ASSUME order \in Seq(Computed), NEW c \in Computed, order' = Append(order, c)
    PROVE  /\ order' \in Seq(Computed) /\ Len(order') = Len(order) + 1
           /\ Placed' = Placed \cup {c}
<1>1. /\ order' \in Seq(Computed) /\ Len(order) \in Nat /\ Len(order') = Len(order) + 1
      /\ order'[Len(order) + 1] = c
      /\ \A i \in 1..Len(order) : order'[i] = order[i]
  OBVIOUS
<1>2. DOMAIN order = 1..Len(order) /\ DOMAIN order' = 1..Len(order) + 1
  BY <1>1
<1>3. \A i \in DOMAIN order' : i \in DOMAIN order \/ i = Len(order) + 1
  BY <1>1, <1>2
<1>4. Len(order) + 1 \in DOMAIN order' /\ DOMAIN order \subseteq DOMAIN order'
  BY <1>1, <1>2
<1>5. Placed' \subseteq Placed \cup {c}
  BY <1>1, <1>2, <1>3 DEF Placed, ToSet
<1>6. Placed \cup {c} \subseteq Placed'
  BY <1>1, <1>2, <1>4 DEF Placed, ToSet
<1>7. QED
  BY <1>1, <1>5, <1>6

LEMMA PlacedComputed == SortType => Placed \subseteq Computed
BY DEF SortType, Placed, ToSet

LEMMA NothingPlaced == order = <<>> => Placed = {}
BY DEF Placed, ToSet

LEMMA SortInvInit == SortInit => SortInv
<1> SUFFICES ASSUME SortInit PROVE SortInv
  OBVIOUS
<1>1. Placed = {}
  BY NothingPlaced DEF SortInit
<1>2. SortType
  BY DEF SortInit, SortType, NoGraph
<1>3. PlacedOnce
  BY <1>1, FS_EmptySet DEF PlacedOnce, SortInit
<1>4. DegreesCount
  BY FS_EmptySet DEF DegreesCount, SortInit, NoGraph
<1>5. CirclesUnplaced /\ VerdictRight
  BY <1>1 DEF CirclesUnplaced, VerdictRight, SortInit
<1>6. QED
  BY <1>2, <1>3, <1>4, <1>5 DEF SortInv

\* The sort of a graph begins with nothing placed, as before any graph.
LEMMA BeginSortStep ==
    ASSUME SortInv, NEW graph \in [Computed -> SUBSET Computed], BeginSort(graph)
    PROVE  SortInv'
<1>1. Placed' = {} /\ order' = <<>>
  BY NothingPlaced DEF BeginSort, Placed, SortInv, VerdictRight
<1>2. \A c \in Computed : IsFiniteSet(graph[c]) /\ Cardinality(graph[c]) \in Nat
  BY GraphAssumption, FS_Subset, FS_CardinalityType
<1>3. SortType'
  BY <1>1, <1>2 DEF BeginSort, SortType
<1>4. PlacedOnce'
  BY <1>1, FS_EmptySet DEF PlacedOnce
<1>5. DegreesCount'
  BY <1>1 DEF DegreesCount, BeginSort
<1>6. CirclesUnplaced' /\ VerdictRight'
  BY <1>1 DEF CirclesUnplaced, VerdictRight, BeginSort
<1>7. QED
  BY <1>3, <1>4, <1>5, <1>6 DEF SortInv

LEMMA PlaceColumnStep ==
    ASSUME SortInv, PlaceColumn
    PROVE  SortInv'
<1>1. PICK c \in Ready :
          /\ verdict = "sorting" /\ order' = Append(order, c)
          /\ degree' = [d \in Computed |-> IF c \in reads[d] THEN degree[d] - 1 ELSE degree[d]]
          /\ reads' = reads /\ verdict' = verdict
  BY DEF PlaceColumn
<1>2. c \in Computed /\ c \notin Placed /\ degree[c] = 0
  BY DEF Ready
<1>3. /\ order' \in Seq(Computed) /\ Len(order') = Len(order) + 1
      /\ Placed' = Placed \cup {c}
  BY <1>1, <1>2, PlacedAppend DEF SortInv, SortType
<1>4. SortType'
  BY <1>1, <1>3 DEF SortInv, SortType
<1>5. PlacedOnce'
  <2>1. IsFiniteSet(Placed) /\ Cardinality(Placed) = Len(order)
    BY DEF SortInv, PlacedOnce
  <2>2. IsFiniteSet(Placed \cup {c}) /\ Cardinality(Placed \cup {c}) = Cardinality(Placed) + 1
    BY <1>2, <2>1, FS_AddElement
  <2>3. QED
    BY <1>3, <2>1, <2>2 DEF PlacedOnce
<1>6. \A d \in Computed : IsFiniteSet(reads[d] \ Placed) /\ Cardinality(reads[d] \ Placed) \in Nat
  BY GraphAssumption, FS_Subset, FS_CardinalityType DEF SortInv, SortType
<1>7. DegreesCount'
  <2> SUFFICES ASSUME NEW d \in Computed
               PROVE  degree'[d] = Cardinality(reads[d] \ (Placed \cup {c}))
    BY <1>1, <1>3 DEF DegreesCount
  <2>1. degree[d] = Cardinality(reads[d] \ Placed)
    BY DEF SortInv, DegreesCount
  <2>2. CASE c \in reads[d]
    <3>1. Cardinality((reads[d] \ Placed) \ {c}) = Cardinality(reads[d] \ Placed) - 1
      BY <1>2, <1>6, <2>2, FS_RemoveElement
    <3>2. reads[d] \ (Placed \cup {c}) = (reads[d] \ Placed) \ {c}
      OBVIOUS
    <3>3. QED
      BY <1>1, <2>1, <2>2, <3>1, <3>2
  <2>3. CASE c \notin reads[d]
    <3>1. reads[d] \ (Placed \cup {c}) = reads[d] \ Placed
      BY <2>3
    <3>2. QED
      BY <1>1, <2>1, <2>3, <3>1
  <2>4. QED
    BY <2>2, <2>3
<1>8. reads[c] \subseteq Placed
  <2>1. Cardinality(reads[c] \ Placed) = 0
    BY <1>2 DEF SortInv, DegreesCount
  <2>2. QED
    BY <1>2, <1>6, <2>1, FS_EmptySet
<1>9. CirclesUnplaced'
  <2> SUFFICES ASSUME NEW cs \in SUBSET Computed, Circle(cs)
               PROVE  cs \cap (Placed \cup {c}) = {}
    BY <1>1, <1>3 DEF CirclesUnplaced, Circle
  <2>1. cs \cap Placed = {}
    BY DEF SortInv, CirclesUnplaced
  <2>2. c \notin cs
    BY <1>8, <2>1 DEF Circle
  <2>3. QED
    BY <2>1, <2>2
<1>10. VerdictRight'
  BY <1>1 DEF VerdictRight
<1>11. QED
  BY <1>4, <1>5, <1>7, <1>9, <1>10 DEF SortInv

LEMMA EndSortStep ==
    ASSUME SortInv, EndSort
    PROVE  SortInv'
<1>1. /\ reads' = reads /\ degree' = degree /\ order' = order /\ Ready = {}
      /\ verdict' = IF Circular THEN "circular" ELSE "ordered"
  BY DEF EndSort
<1>2. Placed' = Placed /\ Ready' = Ready
  BY <1>1 DEF Placed, Ready
<1>3. Circular <=> Placed # Computed
  <2>1. Placed \subseteq Computed /\ Cardinality(Placed) = Len(order)
    BY PlacedComputed DEF SortInv, PlacedOnce
  <2>2. Placed # Computed => Cardinality(Placed) # Cardinality(Computed)
    BY <2>1, GraphAssumption, FS_Subset
  <2>3. QED
    BY <2>1, <2>2 DEF Circular
<1>4. VerdictRight'
  BY <1>1, <1>2, <1>3 DEF VerdictRight
<1>5. QED
  BY <1>1, <1>2, <1>4 DEF SortInv, SortType, PlacedOnce, DegreesCount, CirclesUnplaced, Circle

LEMMA SortInvStep == SortInv /\ [SortNext]_sortVars => SortInv'
<1> SUFFICES ASSUME SortInv, [SortNext]_sortVars PROVE SortInv'
  OBVIOUS
<1>1. ASSUME NEW graph \in [Computed -> SUBSET Computed], BeginSort(graph) PROVE SortInv'
  BY <1>1, BeginSortStep
<1>2. CASE PlaceColumn
  BY <1>2, PlaceColumnStep
<1>3. CASE EndSort
  BY <1>3, EndSortStep
<1>4. CASE UNCHANGED sortVars
  BY <1>4 DEF sortVars, SortInv, SortType, PlacedOnce, DegreesCount, CirclesUnplaced, VerdictRight,
     Circle, Placed, Ready
<1>5. QED
  BY <1>1, <1>2, <1>3, <1>4 DEF SortNext

\* The sort accepts the schemas without a circle of computed columns, and those only, although
\* it looks at no more than how many columns each one still waits for (topological_sort).
THEOREM CyclesRefusedHolds == SortSpec => []CyclesRefused
<1>1. SortInv => CyclesRefused
  <2> SUFFICES ASSUME SortInv PROVE CyclesRefused
    OBVIOUS
  <2>1. ASSUME verdict = "ordered", NEW cs \in SUBSET Computed
        PROVE  ~Circle(cs)
    BY <2>1 DEF SortInv, VerdictRight, CirclesUnplaced, Circle
  <2>2. ASSUME verdict = "circular"
        PROVE  Circle(Computed \ Placed)
    <3>1. Computed \ Placed # {} /\ Ready = {}
      BY <2>2, PlacedComputed DEF SortInv, VerdictRight
    <3>2. ASSUME NEW c \in Computed \ Placed
          PROVE  reads[c] \cap (Computed \ Placed) # {}
      <4>1. Cardinality(reads[c] \ Placed) # 0
        BY <3>1, <3>2 DEF SortInv, DegreesCount, Ready
      <4>2. reads[c] \ Placed # {} /\ reads[c] \subseteq Computed
        BY <4>1, FS_EmptySet DEF SortInv, SortType
      <4>3. QED
        BY <4>2
    <3>3. QED
      BY <3>1, <3>2 DEF Circle
  <2>3. QED
    BY <2>1, <2>2 DEF CyclesRefused
<1>2. QED
  BY <1>1, SortInvInit, SortInvStep, PTL DEF SortSpec
=============================================================================
