-------------------------- MODULE ResourceLifecycle --------------------------
(***************************************************************************)
(* ResourceLifecycleManager of resource_lifecycle.rs: tasks acquire and    *)
(* release leases on resources, and a reaper (process_expired_leases) ends *)
(* those whose time is over.  A step is one critical section of            *)
(* active_leases or of timeout_manager; the async functions never wait, so *)
(* on an executor with one thread every call runs to its end (Serial).  On *)
(* several threads two acquisitions may both pass the check before either  *)
(* inserts its lease.                                                      *)
(*                                                                         *)
(* Anyone may call release_resource for any resource, and it removes the   *)
(* lease before it looks whose it is; a second reader's lease overwrites   *)
(* the first; and a release that fails ends the reaper's pass.  The        *)
(* history variable disturbed names the resources to which one of the      *)
(* three has happened, and the properties say what holds of the others.    *)
(*                                                                         *)
(* Left out: the dependency graph and the pools, to which nothing adds an  *)
(* edge or a pool, so that detect_deadlock never finds a cycle; the answer *)
(* of a refused acquisition; policies other than the default one; events   *)
(* and statistics.  Time is what is left of each lease, down to zero.      *)
(***************************************************************************)
EXTENDS Leases

CONSTANTS
    Reaper,         \* the thread that calls process_expired_leases
    Accesses,       \* uses that are asked for
    Durations,      \* lease durations that are asked for
    MaxTimeouts,    \* bound on the queue of timeouts
    Serial          \* is each call run to its end before the next?

Workers == Tasks \cup {Reaper}
NoWant == [access |-> "Owned", span |-> 0]
Place == {"idle", "insert", "schedule", "remove", "cancel"}

ASSUME LifecycleAssumption ==
    /\ {NoTask, Reaper} \cap Tasks = {} /\ NoTask # Reaper
    /\ Accesses \subseteq LeaseAccess
    /\ Durations \subseteq Nat
    /\ MaxTimeouts \in Nat
    /\ Serial \in BOOLEAN

VARIABLES
    leases,      \* active_leases
    timeouts,    \* timeout_manager.timeouts
    pc,          \* where the call of each worker is
    jobs,        \* pairs of a resource and a task that the call still deals with
    wants,       \* the use and the duration a call of acquire_resource asks for
    believes,    \* history: the uses a task was granted, has not given back
                 \* itself, and whose time the reaper has not found over
    disturbed    \* history: the resources of which a lease was overwritten,
                 \* removed for another than its task, or left by a pass

calls == <<pc, jobs, wants>>
leaseVars == <<leases, timeouts, calls, believes, disturbed>>

In(w, place) == pc[w] = place
GoesTo(w, place) == pc' = [pc EXCEPT ![w] = place]

\* A call may begin.
Free(w) == In(w, "idle") /\ (Serial => \A v \in Workers : In(v, "idle"))

Res(w) == Head(jobs[w])[1]
For(w) == Head(jobs[w])[2]

----------------------------------------------------------------------------
(* acquire_resource *)

\* A call that is refused changes nothing.
AcquireCheck(t, r, a, n) ==
    /\ Free(t)
    /\ Len(timeouts) < MaxTimeouts
    /\ Feasible(leases, r, a)
    /\ GoesTo(t, "insert")
    /\ jobs' = [jobs EXCEPT ![t] = <<<<r, t>>>>]
    /\ wants' = [wants EXCEPT ![t] = [access |-> a, span |-> n]]
    /\ UNCHANGED <<leases, timeouts, believes, disturbed>>

\* Whatever was stored under the name of the resource is lost: disturbed, if
\* both are readers.
AcquireInsert(t) ==
    /\ In(t, "insert")
    /\ leases' = [leases EXCEPT ![Res(t)] = [task |-> t, access |-> wants[t].access]]
    /\ disturbed' = disturbed \cup
          {r \in {Res(t)} : leases[r] # NoLease /\ leases[r].access = "Immutable"
                           /\ wants[t].access = "Immutable"}
    /\ GoesTo(t, "schedule")
    /\ UNCHANGED <<timeouts, jobs, wants, believes>>

\* schedule_timeout
AcquireTimeout(t) ==
    /\ In(t, "schedule")
    /\ timeouts' = Scheduled(timeouts, Res(t), t, wants[t].span)
    /\ believes' = [believes EXCEPT ![t] = @ \cup {<<Res(t), wants[t].access>>}]
    /\ GoesTo(t, "idle")
    /\ jobs' = [jobs EXCEPT ![t] = <<>>]
    /\ wants' = [wants EXCEPT ![t] = NoWant]
    /\ UNCHANGED <<leases, disturbed>>

----------------------------------------------------------------------------
(* release_resource, release_all_task_resources, process_expired_leases *)

\* Any task may give back any resource ...
ReleaseResource(t, r) ==
    /\ Free(t)
    /\ jobs' = [jobs EXCEPT ![t] = <<<<r, t>>>>]
    /\ GoesTo(t, "remove")
    /\ UNCHANGED <<leases, timeouts, wants, believes, disturbed>>

\* ... or all that are leased to it, in the order of the map.
ReleaseAllTaskResources(t) ==
    /\ Free(t)
    /\ LeasedTo(leases, t) # {}
    /\ \E order \in SetToSeqs(LeasedTo(leases, t)) :
          jobs' = [jobs EXCEPT ![t] = [i \in DOMAIN order |-> <<order[i], t>>]]
    /\ GoesTo(t, "remove")
    /\ UNCHANGED <<leases, timeouts, wants, believes, disturbed>>

\* The uses whose timeouts are popped are over, whatever becomes of the leases.
ProcessExpiredLeases ==
    /\ Free(Reaper)
    /\ Expired(timeouts) # {}
    /\ LET n == Cardinality(Expired(timeouts))
           over == [i \in 1..n |-> <<timeouts[i].res, timeouts[i].task>>]
       IN  /\ jobs' = [jobs EXCEPT ![Reaper] = over]
           /\ timeouts' = SubSeq(timeouts, n + 1, Len(timeouts))
           /\ believes' = [t \in Tasks |->
                 {c \in believes[t] : \A i \in 1..n : over[i] # <<c[1], t>>}]
    /\ GoesTo(Reaper, "remove")
    /\ UNCHANGED <<leases, wants, disturbed>>

\* What a call that fails leaves undone.
Skipped(w) == {jobs[w][i][1] : i \in 2..Len(jobs[w])}

\* The first half of release_resource.  The lease is gone before its owner is
\* looked at; an error ends the call, and with it the jobs that were left.
RemoveLease(w) ==
    /\ In(w, "remove")
    /\ leases' = [leases EXCEPT ![Res(w)] = NoLease]
    /\ \/ /\ leases[Res(w)].task = For(w)
          /\ GoesTo(w, "cancel")
          /\ UNCHANGED <<jobs, disturbed>>
       \/ /\ leases[Res(w)].task # For(w)
          /\ GoesTo(w, "idle")
          /\ jobs' = [jobs EXCEPT ![w] = <<>>]
          /\ disturbed' = disturbed \cup Skipped(w)
                             \cup {r \in {Res(w)} : leases[r] # NoLease}
    /\ believes' = [believes EXCEPT ![For(w)] = {c \in @ : c[1] # Res(w)}]
    /\ UNCHANGED <<timeouts, wants>>

\* Mutant of CancelTimeout: the call ends with its first job.
CancelTimeoutOnce(w) ==
    /\ In(w, "cancel")
    /\ timeouts' \in OthersKept(timeouts, Res(w), For(w))
    /\ jobs' = [jobs EXCEPT ![w] = <<>>]
    /\ GoesTo(w, "idle")
    /\ UNCHANGED <<leases, wants, believes, disturbed>>

CancelTimeout(w) ==
    /\ In(w, "cancel")
    /\ timeouts' \in OthersKept(timeouts, Res(w), For(w))
    /\ jobs' = [jobs EXCEPT ![w] = Tail(@)]
    /\ GoesTo(w, IF Len(jobs[w]) = 1 THEN "idle" ELSE "remove")
    /\ UNCHANGED <<leases, wants, believes, disturbed>>

\* Time passes.
Tick ==
    /\ \E i \in DOMAIN timeouts : timeouts[i].left > 0
    /\ timeouts' = Later(timeouts)
    /\ UNCHANGED <<leases, calls, believes, disturbed>>

----------------------------------------------------------------------------
LeaseInit ==
    /\ leases = [r \in Leasable |-> NoLease]
    /\ timeouts = <<>>
    /\ pc = [w \in Workers |-> "idle"]
    /\ jobs = [w \in Workers |-> <<>>]
    /\ wants = [t \in Tasks |-> NoWant]
    /\ believes = [t \in Tasks |-> {}]
    /\ disturbed = {}

Goes(w) == \/ w \in Tasks /\ (AcquireInsert(w) \/ AcquireTimeout(w))
           \/ RemoveLease(w) \/ CancelTimeout(w)

LeaseNext ==
    \/ \E t \in Tasks, r \in Leasable :
          \/ \E a \in Accesses, n \in Durations : AcquireCheck(t, r, a, n)
          \/ ReleaseResource(t, r)
    \/ \E t \in Tasks : ReleaseAllTaskResources(t)
    \/ ProcessExpiredLeases
    \/ \E w \in Workers : Goes(w)
    \/ Tick

LeaseSpec == LeaseInit /\ [][LeaseNext]_leaseVars

\* Calls that have begun end, time passes, and the host goes on reaping, for
\* which it finds a moment when calls are serial.
LeaseFairness ==
    /\ \A w \in Workers : WF_leaseVars(Goes(w))
    /\ WF_leaseVars(Tick)
    /\ SF_leaseVars(ProcessExpiredLeases)

FairLeaseSpec == LeaseSpec /\ LeaseFairness

----------------------------------------------------------------------------
(* Properties *)

LeaseTypeOK ==
    /\ leases \in [Leasable -> Lease \cup {NoLease}]
    /\ timeouts \in Seq(Timeout)
    /\ pc \in [Workers -> Place]
    /\ jobs \in [Workers -> Seq(Leasable \X Tasks)]
    /\ wants \in [Tasks -> [access : LeaseAccess, span : Nat]]
    /\ believes \in [Tasks -> SUBSET (Leasable \X LeaseAccess)]
    /\ disturbed \subseteq Leasable

\* What two tasks may rely on at once: a resource that one of them may write is
\* not leased to the other (acquire_resource).
ExclusiveOn(r) ==
    \A t, u \in Tasks : \A c \in believes[t], d \in believes[u] :
        t # u /\ c[1] = r /\ d[1] = r => c[2] = "Immutable" /\ d[2] = "Immutable"

\* Borrow safety, whoever calls release_resource.  It fails: the owner is verified
\* when the lease is already gone.
LeasesExclusive == \A r \in Leasable : ExclusiveOn(r)

\* Through expiries, releases in time and too late, passes that are cut short and
\* second readers: writers are exclusive wherever no lease has been overwritten,
\* removed for a stranger or left by a pass.  No other resource is touched by the error.
UndisturbedExclusive == \A r \in Leasable \ disturbed : ExclusiveOn(r)

\* The front of the queue is what ends first, however durations and releases
\* mix; get_expired_timeouts stops at the first timeout that is not over.
ExpiredInFront ==
    \A i, j \in DOMAIN timeouts : i < j => timeouts[i].left <= timeouts[j].left

\* The timeouts are in order; and between calls a lease that was not disturbed has
\* the one timeout that will end it, and where there is no lease no timeout is left
\* to end the next one (cancel_timeout, process_expired_leases).
TimeoutsMatchLeases ==
    ExpiredInFront /\ ((\A w \in Workers : In(w, "idle")) => \A r \in Leasable \ disturbed :
        /\ \A i, j \in DOMAIN timeouts : timeouts[i].res = r /\ timeouts[j].res = r => i = j
        /\ leases[r] # NoLease <=>
              \E i \in DOMAIN timeouts : timeouts[i].res = r /\ timeouts[i].task = leases[r].task)

\* A lease that its task forgets about is taken back, also when several are over
\* at once, unless it was disturbed: a pass ends at the first release that fails,
\* and what it then leaves is the only way to a lease without an end.
LeasesEnd ==
    \A r \in Leasable, t \in Tasks :
        leases[r].task = t ~> (leases[r].task # t \/ r \in disturbed)
==============================================================================
