-------------------------- MODULE MCResourceManagers --------------------------
(***************************************************************************)
(* The two components that decide who may use a resource: the scheduler,   *)
(* which lends it to systems, and the lifecycle manager, which leases it   *)
(* to tasks.  They share no state, so a behaviour is one of one of them,   *)
(* under its fairness; the other is idle, so that its own asks for nothing.*)
(***************************************************************************)
EXTENDS MCSystemScheduler, ResourceLifecycle

CONSTANTS t1, t2, r2

VARIABLE manager

ManagersInit ==
    /\ manager \in {"scheduler", "leases"} /\ Init /\ LeaseInit
    /\ manager = "leases" => strategy = "FCFS"

ManagersNext ==
    \/ manager = "scheduler" /\ Next /\ UNCHANGED <<leaseVars, manager>>
    \/ manager = "leases" /\ LeaseNext /\ UNCHANGED <<vars, manager>>

ManagersSpec ==
    /\ ManagersInit /\ [][ManagersNext]_<<vars, leaseVars, manager>>
    /\ Fairness /\ LeaseFairness
===============================================================================
