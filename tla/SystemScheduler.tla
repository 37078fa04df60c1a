-------------------------- MODULE SystemScheduler --------------------------
(***************************************************************************)
(* SystemScheduler of scheduler.rs: systems are registered with the        *)
(* resources they use, wait in a queue for a slot, and run while they hold *)
(* their borrows.  Every method takes &mut self, so one operation runs at  *)
(* a time; schedule_batch is a loop, taken here one iteration a step, and  *)
(* no other operation is enabled until it returns.                         *)
(*                                                                         *)
(* Left out: nodes of the conflict graph that have no edge, the kind of a  *)
(* conflict, and last_execution_time, of which only "has it been set since *)
(* the system was registered" is kept (ran); no system in the queue ever   *)
(* has it set (PendingNeverStarted).                                       *)
(***************************************************************************)
EXTENDS ResourceTracker, Integers, Sequences

CONSTANTS
    Definitions,    \* the parameter lists systems are registered with
    Dependencies,   \* pairs <<dependent, dependency>> that are declared
    Strategies,     \* scheduling strategies in use
    Priorities,     \* priorities in use, a subset of 0..3
    Estimates,      \* runtime estimates in use
    MaxConcurrent,  \* max_concurrent_systems
    DirectStarts,   \* is schedule_system called from outside schedule_batch?
    LateChanges,    \* are systems changed after they have started?
    DoubleEnqueue,  \* is a name enqueued again while it waits?
    MaxPending,     \* bound: length of the queue
    MaxDeps         \* bound: dependencies of one system

Strategy == {"FCFS", "Priority", "SJF", "RoundRobin", "WorkStealing"}

\* SystemPriority::Normal, the default, and unwrap_or(u64::MAX) of an estimate.
Normal == 1
NoEstimate == 1000

\* A resource parameter: its name, the type it is declared with, and its use.
Parameter == [name : Resources, type : STRING, access : Access]

ASSUME SchedulerAssumption ==
    /\ Definitions \subseteq SUBSET Parameter
    /\ Dependencies \subseteq Systems \X Systems
    /\ Strategies \subseteq Strategy /\ Strategies # {}
    /\ Priorities \subseteq 0..3
    /\ Estimates \subseteq 0..NoEstimate
    /\ MaxConcurrent \in Nat
    /\ DirectStarts \in BOOLEAN
    /\ LateChanges \in BOOLEAN
    /\ DoubleEnqueue \in BOOLEAN
    /\ MaxPending \in Nat
    /\ MaxDeps \in Nat

VARIABLES
    systems,     \* names registered
    claims,      \* resource uses of each registered definition
    deps,        \* dependencies of each system, in the order declared
    prio,        \* priority stored with the system
    savedPrio,   \* system_priorities, kept for systems yet to be registered
    estimate,    \* estimated_runtime
    ran,         \* last_execution_time is set
    strategy,
    edges,       \* conflict_graph.edges
    tracker,
    executing,
    completed,
    pending,
    batch,       \* the locals of a schedule_batch that is running
    panicked     \* a checked subtraction overflowed

registry == <<systems, claims, deps, prio, savedPrio, estimate>>
config == <<registry, strategy, edges>>
vars == <<config, ran, tracker, executing, completed, pending, batch, panicked>>

NoBatch == [list |-> <<>>, at |-> 0, stop |-> 0, scheduled |-> <<>>]
InBatch == batch.stop > 0
Ready == ~InBatch /\ ~panicked

SeqElements(q) == {q[i] : i \in DOMAIN q}

----------------------------------------------------------------------------
(* Registration *)

\* validate_system_resources: one name is declared with one type and one use.
WellFormed(d) ==
    \A p, q \in d : p.name = q.name => p.type = q.type /\ p.access = q.access

\* extract_resource_accesses: the type of a resource plays no part from here.
ClaimsOf(d) == {<<p.name, p.access>> : p \in d}

\* can `to` be reached from `from` along dependencies?  Every closed set of
\* systems that holds the one then holds the other.
Reaches(from, to) ==
    \A C \in SUBSET Systems :
        /\ from \in C
        /\ \A s \in C : SeqElements(deps[s]) \subseteq C
        => to \in C

\* Mutant of WouldCreateCycle: only a cycle of two is noticed.
WouldCreateDirectCycle(s, d) == s = d \/ s \in SeqElements(deps[d])

\* would_create_cycle: the DFS that starts at the dependency finds the dependent.
WouldCreateCycle(s, d) == Reaches(d, s)

\* A system is changed only while nothing is known to run with its definition.
MayChange(s) == LateChanges \/ s \notin executing \cup completed

\* insert into the map of systems: whatever was stored under the name is lost.
Register(s, d, ds, p, e) ==
    /\ systems' = systems \cup {s}
    /\ claims' = [claims EXCEPT ![s] = ClaimsOf(d)]
    /\ deps' = [deps EXCEPT ![s] = ds]
    /\ prio' = [prio EXCEPT ![s] = p]
    /\ estimate' = [estimate EXCEPT ![s] = e]
    /\ ran' = [ran EXCEPT ![s] = FALSE]
    /\ UNCHANGED <<savedPrio, strategy, edges, tracker, executing, completed, pending, batch, panicked>>

AddSystem(s, d) ==
    /\ Ready /\ MayChange(s)
    /\ WellFormed(d)
    /\ Register(s, d, <<>>, savedPrio[s], NoEstimate)

\* Its dependencies exist by then, and none of them leads back to s.
AddSystemWithMetadata(s, d, p, e, ds) ==
    /\ Ready /\ MayChange(s)
    /\ WellFormed(d)
    /\ SeqElements(ds) \subseteq systems
    /\ \A x \in SeqElements(ds) : ~WouldCreateCycle(s, x)
    /\ Register(s, d, ds, p, e)

\* The dependency need not exist; without a dependent the call does nothing.
AddDependency(s, d) ==
    /\ Ready /\ MayChange(s)
    /\ Len(deps[s]) < MaxDeps
    /\ ~WouldCreateCycle(s, d)
    /\ s \in systems
    /\ deps' = [deps EXCEPT ![s] = Append(@, d)]
    /\ UNCHANGED <<systems, claims, prio, savedPrio, estimate, strategy, edges,
                   ran, tracker, executing, completed, pending, batch, panicked>>

SetSystemPriority(s, p) ==
    /\ Ready
    /\ savedPrio' = [savedPrio EXCEPT ![s] = p]
    /\ prio' = IF s \in systems THEN [prio EXCEPT ![s] = p] ELSE prio
    /\ UNCHANGED <<systems, claims, deps, estimate, strategy, edges,
                   ran, tracker, executing, completed, pending, batch, panicked>>

SetStrategy(st) ==
    /\ Ready
    /\ strategy' = st
    /\ UNCHANGED <<registry, edges, ran, tracker, executing, completed, pending, batch, panicked>>

\* check_system_conflict: they share a resource and not both only read it.
Conflicting(s, u) == \E c \in claims[s], d \in claims[u] : ~Compatible(c, d)

\* Edges are only ever added: those of an overwritten definition stay.
BuildConflictGraph ==
    /\ Ready
    /\ edges' = edges \cup {e \in systems \X systems : e[1] # e[2] /\ Conflicting(e[1], e[2])}
    /\ UNCHANGED <<registry, strategy, ran, tracker, executing, completed, pending, batch, panicked>>

----------------------------------------------------------------------------
(* The queue *)

\* Mutant of EnqueueSystem: a completed system may be queued again.
EnqueueUnlessExecuting(s) ==
    /\ Ready
    /\ Len(pending) < MaxPending
    /\ DoubleEnqueue \/ s \notin SeqElements(pending)
    /\ s \notin executing
    /\ pending' = Append(pending, s)
    /\ UNCHANGED <<config, ran, tracker, executing, completed, batch, panicked>>

EnqueueSystem(s) ==
    /\ Ready
    /\ Len(pending) < MaxPending
    /\ DoubleEnqueue \/ s \notin SeqElements(pending)
    /\ s \notin executing \cup completed
    /\ pending' = Append(pending, s)
    /\ UNCHANGED <<config, ran, tracker, executing, completed, batch, panicked>>

\* Mutants of CanSchedule: a name that is not registered passes; a dependency
\* that has started counts as completed.
CanScheduleUnknown(s) ==
    /\ SeqElements(deps[s]) \subseteq completed
    /\ \A u \in executing : <<s, u>> \notin edges
    /\ \A c \in claims[s] : CanAccess(tracker, c[1], s, c[2])
CanScheduleOnceStarted(s) ==
    /\ s \in systems
    /\ SeqElements(deps[s]) \subseteq completed \cup executing
    /\ \A u \in executing : <<s, u>> \notin edges
    /\ \A c \in claims[s] : CanAccess(tracker, c[1], s, c[2])

CanSchedule(s) ==
    /\ s \in systems
    /\ SeqElements(deps[s]) \subseteq completed
    /\ \A u \in executing : <<s, u>> \notin edges
    /\ \A c \in claims[s] : CanAccess(tracker, c[1], s, c[2])

\* Mutant of Rank: priorities compared the other way round.
RankReversed(s) ==
    CASE strategy = "Priority" -> prio[s]
      [] strategy = "SJF"      -> estimate[s]
      [] OTHER                 -> 0

\* The sort key of each strategy, smaller first.
Rank(s) ==
    CASE strategy = "FCFS"         -> 0
      [] strategy = "Priority"     -> -prio[s]
      [] strategy = "SJF"          -> estimate[s]
      [] strategy = "RoundRobin"   -> IF ran[s] THEN 1 ELSE 0
      [] strategy = "WorkStealing" -> -Len(deps[s])

\* The stable order: by rank, and by position among equals.
SortsBefore(i, j) ==
    \/ Rank(pending[i]) < Rank(pending[j])
    \/ Rank(pending[i]) = Rank(pending[j]) /\ i < j

\* The ways to list the positions I of the queue without repetition.
Listings(I) == {f \in [1..Cardinality(I) -> I] : \A i, j \in DOMAIN f : f[i] = f[j] => i = j}

\* get_schedulable_systems: the one sorted listing of what can start now.
SchedulableLists ==
    IF Cardinality(executing) >= MaxConcurrent THEN {<<>>}
    ELSE LET I == {i \in DOMAIN pending : CanSchedule(pending[i])}
         IN {[i \in DOMAIN f |-> pending[f[i]]] :
                f \in {g \in Listings(I) :
                         \A i, j \in DOMAIN g : i < j => SortsBefore(g[i], g[j])}}

\* Mutant of WithoutSystem: only the first copy leaves.
WithoutFirstCopy(s) ==
    LET I == {i \in DOMAIN pending :
                  pending[i] = s => \E j \in DOMAIN pending : j < i /\ pending[j] = s}
    IN {[i \in DOMAIN f |-> pending[f[i]]] :
            f \in {g \in Listings(I) : \A i, j \in DOMAIN g : i < j => g[i] < g[j]}}

\* retain(|x| x != s): every copy of s leaves, the others keep their order.
WithoutSystem(s) ==
    LET I == {i \in DOMAIN pending : pending[i] # s}
    IN {[i \in DOMAIN f |-> pending[f[i]]] :
            f \in {g \in Listings(I) : \A i, j \in DOMAIN g : i < j => g[i] < g[j]}}

----------------------------------------------------------------------------
(* Running *)

\* The body of schedule_system once can_schedule_system has said yes.
Start(s) ==
    /\ pending' \in WithoutSystem(s)
    /\ executing' = executing \cup {s}
    /\ ran' = [ran EXCEPT ![s] = TRUE]
    /\ tracker' = Acquire(tracker, s, claims[s])

ScheduleSystem(s) ==
    /\ Ready /\ DirectStarts
    /\ CanSchedule(s)
    /\ Start(s)
    /\ UNCHANGED <<config, completed, batch, panicked>>

\* What is released is what the definition stored now declares.
CompleteSystem(s) ==
    /\ Ready
    /\ s \in executing
    /\ tracker' = Release(tracker, s, claims[s])
    /\ executing' = executing \ {s}
    /\ completed' = completed \cup {s}
    /\ UNCHANGED <<config, ran, pending, batch, panicked>>

\* Mutant of Smaller: the free slots are not counted.
SmallerUncapped(m, n) == n

Smaller(m, n) == IF m < n THEN m ELSE n

\* schedule_batch up to its loop; with nothing to pick it returns at once.
BatchBegin ==
    /\ Ready
    /\ Cardinality(executing) < MaxConcurrent
    /\ \E list \in SchedulableLists :
          /\ list # <<>>
          /\ batch' = [NoBatch EXCEPT
                         !.list = list,
                         !.stop = Smaller(MaxConcurrent - Cardinality(executing), Len(list))]
    /\ UNCHANGED <<config, ran, tracker, executing, completed, pending, panicked>>

\* More systems run than the limit allows: max_concurrent_systems minus their
\* number underflows, and a build with overflow checks panics.
BatchUnderflow ==
    /\ Ready
    /\ Cardinality(executing) > MaxConcurrent
    /\ panicked' = TRUE
    /\ UNCHANGED <<config, ran, tracker, executing, completed, pending, batch>>

\* WorkStealing asks for a new list after each start and goes on at the next
\* index; the other strategies walk the list they began with.
CurrentLists == IF strategy = "WorkStealing" THEN SchedulableLists ELSE {batch.list}

\* One iteration: the next name is started, or skipped if it no longer can be.
BatchStep ==
    /\ batch.at < batch.stop
    /\ \E list \in CurrentLists :
          LET at == batch.at + 1
          IN  \/ /\ at <= Len(list) /\ CanSchedule(list[at])
                 /\ Start(list[at])
                 /\ batch' = [batch EXCEPT !.at = at, !.scheduled = Append(@, list[at])]
              \/ /\ ~(at <= Len(list) /\ CanSchedule(list[at]))
                 /\ batch' = [batch EXCEPT !.at = at]
                 /\ UNCHANGED <<ran, tracker, executing, pending>>
    /\ UNCHANGED <<config, completed, panicked>>

BatchReturn ==
    /\ InBatch /\ batch.at = batch.stop
    /\ batch' = NoBatch
    /\ UNCHANGED <<config, ran, tracker, executing, completed, pending, panicked>>

----------------------------------------------------------------------------
Init ==
    /\ systems = {}
    /\ claims = [s \in Systems |-> {}]
    /\ deps = [s \in Systems |-> <<>>]
    /\ prio = [s \in Systems |-> Normal]
    /\ savedPrio = [s \in Systems |-> Normal]
    /\ estimate = [s \in Systems |-> NoEstimate]
    /\ ran = [s \in Systems |-> FALSE]
    /\ strategy \in Strategies
    /\ edges = {}
    /\ tracker = EmptyTracker
    /\ executing = {}
    /\ completed = {}
    /\ pending = <<>>
    /\ batch = NoBatch
    /\ panicked = FALSE

\* Dependency lists add_system_with_metadata is called with.
DependencyLists(s) ==
    {<<>>} \cup {<<p[2]>> : p \in {q \in Dependencies : q[1] = s}}

Next ==
    \/ \E s \in Systems, d \in Definitions : AddSystem(s, d)
    \/ \E s \in Systems, d \in Definitions, p \in Priorities, e \in Estimates :
          \E ds \in DependencyLists(s) : AddSystemWithMetadata(s, d, p, e, ds)
    \/ \E p \in Dependencies : AddDependency(p[1], p[2])
    \/ \E s \in Systems, p \in Priorities : SetSystemPriority(s, p)
    \/ \E st \in Strategies : SetStrategy(st)
    \/ BuildConflictGraph
    \/ \E s \in Systems : EnqueueSystem(s)
    \/ \E s \in Systems : ScheduleSystem(s)
    \/ \E s \in Systems : CompleteSystem(s)
    \/ BatchBegin
    \/ BatchUnderflow
    \/ BatchStep
    \/ BatchReturn

Spec == Init /\ [][Next]_vars

\* The host keeps calling schedule_batch, whose loop runs to its end, and every
\* system that was started ends.
Fairness ==
    /\ WF_vars(BatchBegin)
    /\ WF_vars(BatchStep)
    /\ WF_vars(BatchReturn)
    /\ \A s \in Systems : WF_vars(CompleteSystem(s))

FairSpec == Spec /\ Fairness

----------------------------------------------------------------------------
(* Properties *)

\* The abstract view: what runs, and what the borrow table grants it.
Rules == INSTANCE BorrowRules
            WITH running <- executing,
                 grant <- [s \in Systems |-> HeldBy(tracker, s)]

\* With definitions that do not change under way, the scheduler implements
\* BorrowRules: schedule_system starts a system, complete_system ends it, and
\* starting a system that already runs changes nothing that can be seen.
ImplementsBorrowRules == Rules!Spec

\* The types of all variables (SystemScheduler, scheduler.rs:500).
TypeOK ==
    /\ systems \subseteq Systems
    /\ claims \in [Systems -> SUBSET Claim]
    /\ deps \in [Systems -> Seq(Systems)]
    /\ prio \in [Systems -> 0..3]
    /\ savedPrio \in [Systems -> 0..3]
    /\ estimate \in [Systems -> 0..NoEstimate]
    /\ ran \in [Systems -> BOOLEAN]
    /\ strategy \in Strategy
    /\ edges \subseteq Systems \X Systems
    /\ tracker \in Tracker
    /\ executing \subseteq systems
    /\ completed \subseteq systems
    /\ pending \in Seq(Systems)
    /\ batch \in [list : Seq(Systems), at : Nat, stop : Nat, scheduled : Seq(Systems)]
    /\ batch.at <= batch.stop
    /\ panicked \in BOOLEAN

\* Whatever is registered, redefined, started and completed in whatever order,
\* no two systems ever hold borrows that Rust's aliasing rule forbids
\* (can_access_resource, add_access, remove_access).
BorrowSafety == BorrowSafe(tracker)

\* The borrow table says exactly what runs: a system holds the uses its
\* definition declares from schedule_system to complete_system, and nothing
\* before or after.  It needs definitions that do not change under way.
GrantsMatch ==
    \A s \in Systems :
        HeldBy(tracker, s) = IF s \in executing THEN claims[s] ELSE {}

\* No name in the queue stands for a system that was started before, although
\* the queue may hold a name twice, schedule_system takes systems that are not
\* in the queue, and a completed system may run again.  So round robin, which
\* sorts by the last start, never tells two waiting systems apart.
PendingNeverStarted ==
    \A i \in DOMAIN pending : /\ pending[i] \notin executing \cup completed
                              /\ ~ran[pending[i]]

\* A system that has started has its dependencies behind it, and with them, as
\* this holds of each, all that they depend on (can_schedule_system).
DependenciesDoneFirst ==
    \A s \in executing \cup completed : SeqElements(deps[s]) \subseteq completed

\* No set of systems in which every one waits for another of the set: the cycle
\* checks of add_dependency and add_system_with_metadata suffice even when a
\* registered system is registered again.
NoMutualWait ==
    \A C \in SUBSET Systems :
        C # {} => \E s \in C : SeqElements(deps[s]) \cap C = {}

\* max_concurrent_systems, "Maximum number of concurrent systems".
WithinLimit == Cardinality(executing) <= MaxConcurrent

\* s is what this step of schedule_batch starts.
BatchStarts(s) == batch'.scheduled = Append(batch.scheduled, s)

\* While no name waits twice, a batch never starts what runs or has run before:
\* what schedule_batch returns is run by its caller, once for each name.
BatchStartsFresh ==
    [][\A s \in Systems : BatchStarts(s) => s \notin executing \cup completed]_vars

\* The order the strategies document: priority "higher first", SJF "shorter jobs
\* first", work stealing "more dependencies first", the queue's order otherwise.
Outranks(s, u) ==
    \/ strategy = "Priority" /\ prio[s] > prio[u]
    \/ strategy = "SJF" /\ estimate[s] < estimate[u]
    \/ strategy = "WorkStealing" /\ Len(deps[s]) > Len(deps[u])

\* Nothing that could start now comes before s in the strategy's order.
FirstInOrder(s) ==
    \E i \in DOMAIN pending :
        /\ pending[i] = s
        /\ \A j \in DOMAIN pending :
              CanSchedule(pending[j]) => /\ ~Outranks(pending[j], s)
                                         /\ i <= j \/ Outranks(s, pending[j])

\* A batch walks a list sorted before its first start, when later starts may
\* have taken borrows; it still never starts a system while one that comes
\* earlier in the strategy's order could start.
StrategyRespected == [][\A s \in Systems : BatchStarts(s) => FirstInOrder(s)]_vars

\* s waits, and so does or did everything it needs.
Served(s) == s \in SeqElements(pending) \cup executing \cup completed
Supported(s) == \A u \in Systems : Reaches(s, u) => Served(u) /\ u \in systems

\* A queued system whose dependencies are all registered and queued, or done,
\* runs to its end: conflicts, the slot limit, skipped picks and the order of
\* the strategy only delay it.
QueuedSystemsComplete ==
    \A s \in Systems :
        s \in SeqElements(pending) /\ Supported(s) ~> s \in completed \/ ~Supported(s)
============================================================================
