-------------------------- MODULE DependencyGraph --------------------------
(***************************************************************************)
(* The graph of the computed columns of a schema (computed_columns.rs,     *)
(* DependencyGraph) and the sort that accepts or refuses it, one column at *)
(* a time.                                                                 *)
(***************************************************************************)
EXTENDS TableOperations, SequencesExt

ASSUME GraphAssumption == IsFiniteSet(Computed)

VARIABLES
    reads,    \* the computed columns that the expression of each names
    degree,   \* in_degree: how many of them have no place yet
    order,    \* the columns placed so far
    verdict   \* "none" before the sort, "sorting", "ordered" or "circular"

sortVars == <<reads, degree, order, verdict>>

NoGraph == [c \in Computed |-> {}]

SortInit ==
    /\ reads = NoGraph
    /\ degree = [c \in Computed |-> 0]
    /\ order = <<>>
    /\ verdict = "none"

\* A column counts once for another, however often the expression names it.
BeginSort(graph) ==
    /\ verdict = "none"
    /\ reads' = graph
    /\ degree' = [c \in Computed |-> Cardinality(graph[c])]
    /\ verdict' = "sorting"
    /\ UNCHANGED order

Placed == ToSet(order)

\* The queue.  Its first columns are in the order of a hash map, and so are those that a
\* column releases together.
Ready == {c \in Computed \ Placed : degree[c] = 0}

PlaceColumn == \E c \in Ready :
    /\ verdict = "sorting"
    /\ order' = Append(order, c)
    /\ degree' = [d \in Computed |-> IF c \in reads[d] THEN degree[d] - 1 ELSE degree[d]]
    /\ UNCHANGED <<reads, verdict>>

\* Mutant of Circular: only a column that names itself is refused.
CircularDirectly == \E c \in Computed : c \in reads[c]

\* Columns are left over.
Circular == Len(order) # Cardinality(Computed)

EndSort ==
    /\ verdict = "sorting" /\ Ready = {}
    /\ verdict' = IF Circular THEN "circular" ELSE "ordered"
    /\ UNCHANGED <<reads, degree, order>>

SortNext == (\E graph \in [Computed -> SUBSET Computed] : BeginSort(graph)) \/ PlaceColumn \/ EndSort

SortSpec == SortInit /\ [][SortNext]_sortVars

----------------------------------------------------------------------------
\* Columns each of which reads another one of them, or itself: evaluating one never ends.
Circle(cs) == cs # {} /\ \A c \in cs : reads[c] \cap cs # {}

\* The sort accepts exactly the schemas without a circle, so that the mutual recursion of
\* get_computed_value and evaluate_expression ends (topological_sort).
CyclesRefused ==
    /\ verdict = "ordered" => \A cs \in SUBSET Computed : ~Circle(cs)
    /\ verdict = "circular" => \E cs \in SUBSET Computed : Circle(cs)
=============================================================================
