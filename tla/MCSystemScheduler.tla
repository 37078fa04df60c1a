------------------------- MODULE MCSystemScheduler -------------------------
(* Small instances of SystemScheduler for TLC. *)
EXTENDS SystemScheduler, TLC

CONSTANTS s1, s2, s3, r1

Par(r, a) == [name |-> r, type |-> "T", access |-> a]

\* Every use of one resource, and an ill-formed definition that names it twice.
OneResource ==
    {{Par(r1, "Immutable")}, {Par(r1, "Mutable")}, {Par(r1, "Owned")},
     {Par(r1, "Immutable"), Par(r1, "Mutable")}}

ReadOrWrite == {{Par(r1, "Immutable")}, {Par(r1, "Mutable")}}

Chain == {<<s2, s1>>, <<s3, s2>>}
Ring == Chain \cup {<<s1, s3>>}
NoDependencies == {}

Perms == Permutations(Systems)

\* The symmetries of the ring.
Rotations == {p \in Permutations(Systems) : \A e \in Ring : <<p[e[1]], p[e[2]]>> \in Ring}

\* Systems with dependencies wait two at a time, in the order of their arrival and with
\* the normal priority; those without wait three at a time, under every strategy.
Narrow ==
    (\E s \in Systems : deps[s] # <<>>) =>
        /\ strategy = "FCFS" /\ Len(pending) <= 2
        /\ \A s \in Systems : savedPrio[s] = Normal

NarrowSpec == Init /\ [][Next /\ Narrow']_vars
============================================================================
