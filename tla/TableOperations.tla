-------------------------- MODULE TableOperations --------------------------
(***************************************************************************)
(* One table (table_runtime.rs, TableRuntime): cells, tombstones, the      *)
(* primary index and the secondary indexes.  A table is a value and each   *)
(* operation an operator on it, so that the query engine and asynchronous  *)
(* access can be built on the same definitions as the table itself.        *)
(*                                                                         *)
(* Storage is by column in the code and by row here: cells[r][c] is what   *)
(* ColumnData::get_value(r) returns for column c, None for an empty slot   *)
(* and for one past the end of the vector alike.  A row id that was given  *)
(* out stays below next, and next is never lowered.                        *)
(***************************************************************************)
EXTENDS Integers, FiniteSets

CONSTANTS Stored,      \* columns with data of their own
          Computed,    \* columns that are evaluated on demand
          PrimaryKey,  \* the column annotated "primary", or None
          Values,      \* column values
          Accepts,     \* per stored column, the values validate_column_value lets in
          CanHold,       \* per stored column, the values its vector can hold
          Default,     \* per stored column, the value of its default, or None
          None,        \* Option::None
          MaxRows      \* bound: rows ever inserted

Columns == Stored \cup Computed

ASSUME TableAssumption ==
    /\ Stored \cap Computed = {}
    /\ PrimaryKey \in Stored \cup {None}
    /\ None \notin Columns \cup Values
    /\ CanHold \in [Stored -> SUBSET Values]
    /\ Accepts \in [Stored -> SUBSET Values]
    /\ \A c \in Stored : Accepts[c] \subseteq CanHold[c]
    /\ Default \in [Stored -> Values \cup {None}]
    /\ MaxRows \in Nat

RowIds == 0..(MaxRows - 1)
NoRow == -1

Cell == Values \cup {None}
EmptyRow == [c \in Stored |-> None]
NoIndex == [v \in {} |-> {}]

Table == [cells     : [RowIds -> [Stored -> Cell]],
          primary   : [Values -> RowIds \cup {NoRow}],
          secondary : [Columns -> {NoIndex} \cup [Values -> SUBSET RowIds]],
          deleted   : SUBSET RowIds,
          count     : 0..MaxRows,
          next      : 0..MaxRows]

NewTable == [cells     |-> [r \in RowIds |-> EmptyRow],
             primary   |-> [v \in Values |-> NoRow],
             secondary |-> [c \in Columns |-> NoIndex],
             deleted   |-> {},
             count     |-> 0,
             next      |-> 0]

----------------------------------------------------------------------------
\* Rows that every read, update and delete lets through: given out, no tombstone.
LiveRows(t) == {r \in 0..(t.next - 1) : r \notin t.deleted}

Exists(t, r) == r \notin t.deleted /\ r < t.next

\* What insert_row stores: what was given, else the default.
Complete(given) ==
    [c \in Stored |-> IF c \in DOMAIN given THEN given[c] ELSE Default[c]]

Admissible(given) ==
    \A c \in Stored : IF c \in DOMAIN given THEN given[c] \in Accepts[c] ELSE Default[c] # None

Duplicate(t, row) == PrimaryKey # None /\ t.primary[row[PrimaryKey]] # NoRow

\* Mutant of StoreRow: the new row takes the place of the last one deleted.
StoreInGap(t, row) ==
    LET r == IF t.next - 1 \in t.deleted THEN t.next - 1 ELSE t.next
    IN  [t EXCEPT !.cells[r] = row,
                  !.primary = IF PrimaryKey = None THEN @ ELSE [@ EXCEPT ![row[PrimaryKey]] = r],
                  !.count = @ + 1, !.deleted = @ \ {r}, !.next = r + 1]

StoreRow(t, row) ==
    [t EXCEPT !.cells[t.next] = row,
              !.primary = IF PrimaryKey = None THEN @ ELSE [@ EXCEPT ![row[PrimaryKey]] = t.next],
              !.count = @ + 1,
              !.next = @ + 1]

\* The tables insert_row may leave.  A default is not validated: if some vector cannot hold
\* its default, the columns that come before it in the iteration are written all the same.
InsertRow(t, given) ==
    IF ~Admissible(given) \/ Duplicate(t, Complete(given)) THEN {t}
    ELSE LET row == Complete(given)
             fits == {c \in Stored : row[c] \in CanHold[c]}
         IN  IF fits = Stored THEN {StoreRow(t, row)}
             ELSE {[t EXCEPT !.cells[t.next] = [c \in Stored |-> IF c \in done THEN row[c] ELSE @[c]]] :
                       done \in SUBSET fits}

\* Mutant of Unindexed: the entry of the key is kept.
StillIndexed(t, r) == t.primary

Unindexed(t, r) ==
    IF PrimaryKey = None \/ t.cells[r][PrimaryKey] = None THEN t.primary
    ELSE [t.primary EXCEPT ![t.cells[r][PrimaryKey]] = NoRow]

DeleteRow(t, r) ==
    IF ~Exists(t, r) THEN t
    ELSE [t EXCEPT !.primary = Unindexed(t, r),
                   !.cells[r] = EmptyRow,
                   !.deleted = @ \cup {r},
                   !.count = @ - 1]

KeyTouched(updates) == PrimaryKey # None /\ PrimaryKey \in DOMAIN updates

\* The updates that are applied: all of them or, when one is refused, those that come before
\* it in the iteration of the hash map.  A computed column has no slot to write to.
Applied(updates) ==
    LET good == {c \in DOMAIN updates : c \in Computed \/ (c \in Stored /\ updates[c] \in Accepts[c])}
    IN  IF good = DOMAIN updates THEN {good} ELSE SUBSET good

UpdateRow(t, r, updates) ==
    IF ~Exists(t, r) \/ KeyTouched(updates) THEN {t}
    ELSE {[t EXCEPT !.cells[r] = [c \in Stored |-> IF c \in done THEN updates[c] ELSE @[c]]] :
              done \in Applied(updates)}

\* Filled from the rows that live now; nothing maintains it afterwards.  A computed column
\* has no data, so its index is empty.
BuildIndex(t, c) ==
    [v \in Values |-> IF c \in Stored THEN {r \in LiveRows(t) : t.cells[r][c] = v} ELSE {}]

AddSecondaryIndex(t, c) ==
    IF t.secondary[c] # NoIndex THEN t
    ELSE [t EXCEPT !.secondary[c] = BuildIndex(t, c)]

FindByPrimaryKey(t, v) == t.primary[v]
=============================================================================
