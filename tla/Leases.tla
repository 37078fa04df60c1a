------------------------------- MODULE Leases -------------------------------
(***************************************************************************)
(* Leases on resources and the timeouts that end them                      *)
(* (resource_lifecycle.rs), as values: what ResourceLifecycle does in      *)
(* critical sections, and AsyncTable in whole calls.                       *)
(***************************************************************************)
EXTENDS Integers, Sequences, SequencesExt

CONSTANTS Tasks, NoTask, Leasable

LeaseAccess == {"Immutable", "Mutable", "Owned"}
NoLease == [task |-> NoTask, access |-> "Owned"]
Lease == [task : Tasks, access : LeaseAccess]
Timeout == [res : Leasable, task : Tasks, left : Nat]

\* Mutant of Feasible: an Owned lease is taken for no obstacle to a Mutable one.
FeasibleUnlessMutable(leases, r, a) ==
    \/ leases[r] = NoLease
    \/ leases[r].access # "Mutable" /\ a # "Owned"

\* check_acquisition_feasibility
Feasible(leases, r, a) ==
    \/ leases[r] = NoLease
    \/ leases[r].access = "Immutable" /\ a = "Immutable"

\* schedule_timeout: behind all that end no later.
Position(timeouts, n) ==
    CHOOSE i \in 1..Len(timeouts) + 1 :
        /\ \A j \in 1..i - 1 : timeouts[j].left <= n
        /\ i <= Len(timeouts) => n < timeouts[i].left

Scheduled(timeouts, r, t, n) ==
    InsertAt(timeouts, Position(timeouts, n), [res |-> r, task |-> t, left |-> n])

LeasedTo(leases, t) == {r \in Leasable : leases[r].task = t}

\* retain: what is at the positions I of q, in its order (a set of one sequence).
KeptAt(q, I) ==
    {[i \in DOMAIN f |-> q[f[i]]] :
        f \in {g \in [1..Cardinality(I) -> I] : \A i, j \in DOMAIN g : i < j => g[i] < g[j]}}

\* Mutant of OthersKept: the resource is not looked at.
OthersKeptByTask(timeouts, r, t) ==
    KeptAt(timeouts, {i \in DOMAIN timeouts : timeouts[i].task # t})

\* cancel_timeout
OthersKept(timeouts, r, t) ==
    KeptAt(timeouts, {i \in DOMAIN timeouts : ~(timeouts[i].res = r /\ timeouts[i].task = t)})

\* get_expired_timeouts pops those at the front that are over.
Expired(timeouts) == {i \in DOMAIN timeouts : \A j \in 1..i : timeouts[j].left = 0}

\* Time passes for what is not over.
Later(timeouts) ==
    [i \in DOMAIN timeouts |-> [timeouts[i] EXCEPT !.left = IF @ > 0 THEN @ - 1 ELSE 0]]
=============================================================================
