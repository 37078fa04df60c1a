----------------------------- MODULE KeyedTable -----------------------------
(***************************************************************************)
(* What a table promises (table_runtime.rs): rows under ids that are given *)
(* out once and never again, no two rows with one primary key, a key that  *)
(* stays with its row, and one row changed at a time.                      *)
(***************************************************************************)
EXTENDS Integers

CONSTANTS Stored, PrimaryKey, Values, None, RowIds

VARIABLES rows,  \* from the ids of the rows that exist to their values
          used   \* ids ever given out

vars == <<rows, used>>

Row == [Stored -> Values]

Init == rows = [r \in {} |-> None] /\ used = {}

NewKey(row) ==
    PrimaryKey = None \/ \A r \in DOMAIN rows : rows[r][PrimaryKey] # row[PrimaryKey]

Insert == \E r \in RowIds \ used, row \in Row :
    /\ NewKey(row)
    /\ used' = used \cup {r}
    /\ rows' = [q \in DOMAIN rows \cup {r} |-> IF q = r THEN row ELSE rows[q]]

Update == \E r \in DOMAIN rows, row \in Row :
    /\ PrimaryKey # None => row[PrimaryKey] = rows[r][PrimaryKey]
    /\ rows' = [rows EXCEPT ![r] = row]
    /\ UNCHANGED used

Delete == \E r \in DOMAIN rows :
    /\ rows' = [q \in DOMAIN rows \ {r} |-> rows[q]]
    /\ UNCHANGED used

Next == Insert \/ Update \/ Delete

Spec == Init /\ [][Next]_vars
=============================================================================
