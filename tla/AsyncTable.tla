----------------------------- MODULE AsyncTable -----------------------------
(***************************************************************************)
(* AsyncTableRuntime (async_table_integration.rs) on top of the leases of  *)
(* the resource lifecycle: queries, batches and transactions of tasks that *)
(* share tables with other tasks.  The async functions never wait: a call  *)
(* runs to its end before the next, and its steps are those of its loops.  *)
(*                                                                         *)
(* Left out: the cache of results, which nothing fills, plans, which       *)
(* nothing executes, and isolation levels and savepoints, which nothing    *)
(* reads.  The futures that queries return are in QueryFuture.             *)
(***************************************************************************)
EXTENDS Leases

CONSTANTS
    Batches,       \* the batches that hosts execute: sequences of queries
    LockTimeout,   \* config.lock_timeout
    MaxQueries,    \* bound: queries ever started or put to wait
    MaxTimeouts    \* bound: timeouts there may be when a host writes

\* A query is the sequence of its tables: from_table and those it joins.
ASSUME AsyncTableAssumption ==
    /\ \A b \in Batches : b \in Seq(Seq(Leasable) \ {<<>>}) /\ b # <<>>
    /\ NoTask \notin Tasks
    /\ {LockTimeout, MaxQueries, MaxTimeouts} \subseteq Nat

VARIABLES
    leases, timeouts,   \* the resource manager
    active,             \* number of futures given out or registered
    call,               \* the call under way with its local variables, or how a batch ended
    jobs                \* pairs of a resource and a task it has yet to release

asyncVars == <<leases, timeouts, active, call, jobs>>

NoCall == [phase |-> "idle", by |-> NoTask,
           batch |-> <<>>,                   \* the queries of execute_batch
           rest |-> <<>>, passed |-> <<>>,   \* in no group yet: to be looked at in this pass, or passed over
           group |-> <<>>,                   \* queries of the group that have no future yet
           wanted |-> <<>>,                  \* tables to acquire, for the group or for its first query
           started |-> 0]                    \* queries that did not have to wait

In(phase) == call.phase = phase
Idle == call.phase \in {"idle", "accepted", "refused"}

Tables(query) == ToSet(query)

----------------------------------------------------------------------------
(* The resource manager. *)

Acquire(t, r, a) ==
    /\ leases' = [leases EXCEPT ![r] = [task |-> t, access |-> a]]
    /\ timeouts' = Scheduled(timeouts, r, t, LockTimeout)

ReleaseSet(t, rs) ==
    /\ leases' = [r \in Leasable |-> IF r \in rs THEN NoLease ELSE leases[r]]
    /\ timeouts' = SelectSeq(timeouts, LAMBDA x : ~(x.res \in rs /\ x.task = t))

\* Mutant of ReleaseAll: what was acquired before the last resource is kept.
ReleaseLastOnly(t) ==
    ReleaseSet(t, IF LeasedTo(leases, t) = {} THEN {} ELSE {CHOOSE r \in LeasedTo(leases, t) : TRUE})

\* release_all_task_resources
ReleaseAll(t) == ReleaseSet(t, LeasedTo(leases, t))

Releasing == [NoCall EXCEPT !.phase = "release"]

\* release_resource: the lease is gone whoever owns it, and the first that is not the task's
\* ends the call.
ReleaseNext ==
    LET r == Head(jobs)[1]
        t == Head(jobs)[2]
    IN  /\ In("release")
        /\ \/ /\ leases[r].task = t
              /\ ReleaseSet(t, {r})
              /\ jobs' = Tail(jobs)
           \/ /\ leases[r].task # t
              /\ leases' = [leases EXCEPT ![r] = NoLease]
              /\ jobs' = <<>>
              /\ UNCHANGED timeouts
        /\ call' = IF jobs' = <<>> THEN NoCall ELSE Releasing
        /\ UNCHANGED active

\* process_expired_leases
ProcessExpired ==
    LET n == Cardinality(Expired(timeouts))
    IN  /\ Idle /\ n > 0
        /\ timeouts' = SubSeq(timeouts, n + 1, Len(timeouts))
        /\ jobs' = [i \in 1..n |-> <<timeouts[i].res, timeouts[i].task>>]
        /\ call' = Releasing
        /\ UNCHANGED <<leases, active>>

----------------------------------------------------------------------------
(* execute_batch *)

BeginBatch(t, queries) ==
    /\ Idle /\ active + Len(queries) <= MaxQueries
    /\ call' = [NoCall EXCEPT !.phase = "gather", !.by = t, !.batch = queries, !.rest = queries]
    /\ UNCHANGED <<leases, timeouts, active, jobs>>

\* The tables of a query that a group does not have yet, each once (a set of one sequence).
MoreTables(query) ==
    KeptAt(query, {i \in DOMAIN query : query[i] \notin ToSet(call.wanted)
                                        /\ \A j \in 1..i - 1 : query[j] # query[i]})

\* group_queries_by_resources: the first query that is left makes a group, and in one pass
\* those that share a table with it join it, and their tables with them.  A query that was
\* passed over stays out.  Groups depend on the queries only, so each is made when its turn
\* comes.
Gather ==
    LET query == Head(call.rest)
        gathered == [call EXCEPT !.phase = IF Len(call.rest) = 1 THEN "lock" ELSE "gather",
                                 !.rest = Tail(@)]
    IN  /\ In("gather")
        /\ \/ /\ call.group = <<>>
              /\ call' = [gathered EXCEPT !.group = <<query>>, !.wanted = query]
           \/ /\ call.group # <<>> /\ Tables(query) \cap ToSet(call.wanted) # {}
              /\ \E more \in MoreTables(query) :
                     call' = [gathered EXCEPT !.group = Append(@, query), !.wanted = @ \o more]
           \/ /\ call.group # <<>> /\ Tables(query) \cap ToSet(call.wanted) = {}
              /\ call' = [gathered EXCEPT !.passed = Append(@, query)]
        /\ UNCHANGED <<leases, timeouts, active, jobs>>

\* A group acquires all its tables ...
LockTable ==
    /\ In("lock") /\ call.wanted # <<>>
    /\ Feasible(leases, Head(call.wanted), "Immutable")
    /\ Acquire(call.by, Head(call.wanted), "Immutable")
    /\ call' = [call EXCEPT !.wanted = Tail(@)]
    /\ UNCHANGED <<active, jobs>>

\* ... or the batch is refused.  The futures of earlier groups stay registered.
Refuse ==
    /\ In("lock") /\ call.wanted # <<>>
    /\ ~Feasible(leases, Head(call.wanted), "Immutable")
    /\ ReleaseAll(call.by)
    /\ call' = [call EXCEPT !.phase = "refused"]
    /\ UNCHANGED <<active, jobs>>

Locked ==
    /\ In("lock") /\ call.wanted = <<>>
    /\ call' = [call EXCEPT !.phase = "start"]
    /\ UNCHANGED <<leases, timeouts, active, jobs>>

\* After the queries of a group comes the next group.
GroupOver ==
    /\ In("start") /\ call.group = <<>>
    /\ call' = IF call.passed # <<>>
               THEN [call EXCEPT !.phase = "gather", !.rest = call.passed, !.passed = <<>>]
               ELSE IF call.batch # <<>> THEN [call EXCEPT !.phase = "accepted"] ELSE NoCall
    /\ UNCHANGED <<leases, timeouts, active, jobs>>

----------------------------------------------------------------------------
(* execute_query, of a host or of a batch, whose queries acquire their tables again *)

BeginQuery(t, query) ==
    /\ Idle /\ active < MaxQueries
    /\ call' = [NoCall EXCEPT !.phase = "start", !.by = t, !.group = <<query>>]
    /\ UNCHANGED <<leases, timeouts, active, jobs>>

StartQuery ==
    /\ In("start") /\ call.group # <<>>
    /\ call' = [call EXCEPT !.phase = "read", !.wanted = Head(call.group), !.group = Tail(@)]
    /\ UNCHANGED <<leases, timeouts, active, jobs>>

ReadTable ==
    /\ In("read") /\ call.wanted # <<>>
    /\ Feasible(leases, Head(call.wanted), "Immutable")
    /\ Acquire(call.by, Head(call.wanted), "Immutable")
    /\ call' = [call EXCEPT !.wanted = Tail(@)]
    /\ UNCHANGED <<active, jobs>>

\* The future waits for the table that was refused; what was acquired until then is kept.
WaitForTable ==
    /\ In("read") /\ call.wanted # <<>>
    /\ ~Feasible(leases, Head(call.wanted), "Immutable")
    /\ active' = active + 1
    /\ call' = [call EXCEPT !.phase = "start", !.wanted = <<>>]
    /\ UNCHANGED <<leases, timeouts, jobs>>

QueryStarted ==
    /\ In("read") /\ call.wanted = <<>>
    /\ active' = active + 1
    /\ call' = [call EXCEPT !.phase = "start", !.started = @ + 1]
    /\ UNCHANGED <<leases, timeouts, jobs>>

----------------------------------------------------------------------------
(* Transactions and what else happens to tables. *)

\* commit_transaction in time and rollback_transaction release the locks that the host put
\* on record, in any order, be they still leased to the task or no longer.
EndTransaction(t, locks) ==
    /\ Idle
    /\ \E order \in SetToSeqs(locks) : jobs' = [i \in DOMAIN order |-> <<order[i], t>>]
    /\ call' = Releasing
    /\ UNCHANGED <<leases, timeouts, active>>

\* Another component writes a table.
WriteTable(t, r) ==
    /\ Idle /\ Len(timeouts) < MaxTimeouts
    /\ Feasible(leases, r, "Mutable")
    /\ Acquire(t, r, "Mutable")
    /\ call' = NoCall
    /\ UNCHANGED <<active, jobs>>

Tick ==
    /\ Idle /\ Later(timeouts) # timeouts
    /\ timeouts' = Later(timeouts)
    /\ call' = NoCall
    /\ UNCHANGED <<leases, active, jobs>>

----------------------------------------------------------------------------
AsyncInit ==
    /\ leases = [r \in Leasable |-> NoLease]
    /\ timeouts = <<>>
    /\ active = 0
    /\ call = NoCall
    /\ jobs = <<>>

Call(t) ==
    \/ \E b \in Batches : BeginBatch(t, b) \/ BeginQuery(t, b[1])
    \/ \E locks \in SUBSET Leasable : locks # {} /\ EndTransaction(t, locks)
    \/ \E r \in Leasable : WriteTable(t, r)

AsyncNext ==
    \/ \E t \in Tasks : Call(t)
    \/ Gather \/ LockTable \/ Refuse \/ Locked \/ GroupOver
    \/ StartQuery \/ ReadTable \/ WaitForTable \/ QueryStarted
    \/ ReleaseNext \/ ProcessExpired \/ Tick

AsyncSpec == AsyncInit /\ [][AsyncNext]_asyncVars

----------------------------------------------------------------------------
(* Properties *)

Reads(t, query) == \A r \in Tables(query) : leases[r] = [task |-> t, access |-> "Immutable"]

\* Right after execute_batch its task reads the tables of every query and has a future for
\* each, none of which waits for a table that the batch itself or an earlier query of it
\* took, or it holds no lease at all, whichever group was refused.
BatchAllOrNothing ==
    /\ In("accepted") => /\ call.started = Len(call.batch)
                         /\ \A q \in ToSet(call.batch) : Reads(call.by, q)
    /\ In("refused") => LeasedTo(leases, call.by) = {}

=============================================================================
