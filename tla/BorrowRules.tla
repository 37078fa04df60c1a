----------------------------- MODULE BorrowRules -----------------------------
(***************************************************************************)
(* What the scheduler promises of the systems it runs: a system runs with  *)
(* a set of granted uses that is compatible with everything granted to the *)
(* others, keeps it as it is while it runs, and gives all of it back when  *)
(* it ends.  No queue, no dependencies, no conflict graph, no strategy.    *)
(***************************************************************************)
CONSTANTS Systems, Resources

VARIABLES running,  \* the systems that run
          grant     \* for each system, the claims <<resource, access>> it holds

vars == <<running, grant>>

Claim == Resources \X {"Immutable", "Mutable", "Owned"}

ReadOnly(c) == c[2] = "Immutable"

\* No claim of C needs a resource that D uses, unless both only read it.
Disjoint(C, D) == \A c \in C, d \in D : c[1] = d[1] => ReadOnly(c) /\ ReadOnly(d)

Init == running = {} /\ grant = [s \in Systems |-> {}]

Start(s) ==
    /\ s \notin running
    /\ running' = running \cup {s}
    /\ \E C \in SUBSET Claim :
          /\ \A u \in Systems \ {s} : Disjoint(C, grant[u])
          /\ grant' = [grant EXCEPT ![s] = C]

Finish(s) ==
    /\ s \in running
    /\ running' = running \ {s}
    /\ grant' = [grant EXCEPT ![s] = {}]

Next == \E s \in Systems : Start(s) \/ Finish(s)

Spec == Init /\ [][Next]_vars
============================================================================
