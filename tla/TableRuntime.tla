---------------------------- MODULE TableRuntime ----------------------------
(***************************************************************************)
(* A table that its host inserts into, updates, deletes from and indexes,  *)
(* in any order (table_runtime.rs).                                        *)
(***************************************************************************)
EXTENDS TableOperations

VARIABLE table

CONSTANTS Rows,        \* what hosts pass to insert_row: functions from columns to values
          Updates,     \* what hosts pass to update_row
          Indexed      \* columns hosts index

ASSUME IndexedAssumption == Indexed \subseteq Columns

TableInit == table = NewTable

Insert == \E given \in Rows :
    /\ table.next < MaxRows
    /\ table' \in InsertRow(table, given)

Update == \E r \in RowIds, u \in Updates : table' \in UpdateRow(table, r, u)

Delete == \E r \in RowIds : table' = DeleteRow(table, r)

AddIndex == \E c \in Indexed : table' = AddSecondaryIndex(table, c)

TableNext == Insert \/ Update \/ Delete \/ AddIndex

TableSpec == TableInit /\ [][TableNext]_table

----------------------------------------------------------------------------
TableTypeOK == table \in Table

\* find_by_primary_key finds a live row by its key, and nothing else: the index is kept in
\* step with cells and tombstones by three operations, one of which reads the key it is
\* about to erase.
IndexExact ==
    PrimaryKey # None =>
        \A v \in Values, r \in RowIds :
            table.primary[v] = r <=> r \in LiveRows(table) /\ table.cells[r][PrimaryKey] = v

\* row_count, an unsigned counter that delete_row decrements, counts the live rows.
CountExact == table.count = Cardinality(LiveRows(table))

\* A live row has a value in every column, or get_row takes it for deleted.
LiveRowsFull == \A r \in LiveRows(table) : \A c \in Stored : table.cells[r][c] # None

\* What the table promises.
K == INSTANCE KeyedTable WITH
         rows <- [r \in LiveRows(table) |-> table.cells[r]],
         used <- 0..(table.next - 1)
ImplementsKeyedTable == K!Spec
=============================================================================
