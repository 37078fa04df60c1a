# A TLA+ model of TriCTI

TriCTI compiles a language of *systems*: functions that declare which
resources they use and how (`Immutable`, `Mutable`, `Owned`), which the runtime
schedules, steps and cancels, and *tables* that they query. The modules here
model the runtime (schedulers, event loop, leases, tables, queries) and the
stages of the compiler that keep state while they work: the semantic analysis,
the generation of a function's code, the lowering of a system to a plan. File
names below are relative to `src/src/` unless they say otherwise.

## 1. Inventory

| component | state it keeps | operations | what makes it correct |
| --- | --- | --- | --- |
| borrow table (`ResourceTracker`, scheduler.rs) | three maps: owners, mutable borrowers, sets of readers | `can_access_resource`, `add_access`, `remove_access` | never a writer beside anyone else |
| system scheduler (scheduler.rs) | registry, dependencies, priorities, conflict graph, queue, executing, completed | registration, `add_dependency`, `enqueue_system`, `schedule_system`, `schedule_batch`, `complete_system`, `set_strategy` | dependencies first and never circular, no aliasing, the slot limit, the order of the strategy, nobody starves |
| async runtime (async_runtime.rs) | tasks, a FIFO of ready tasks, plans, results, wakers, its own borrow table | `submit_system`, `attach_execution_plan`, `tick`, `cancel_task`, `drain_completed_tasks`, `SystemFuture::poll` | a task is executed by one thread at a time, borrows are given back, futures resolve, calls return |
| event loop (event_loop_manager.rs) | a heap of events, timers, counters, `is_running`, the shutdown flag | `start`, `stop`, `submit_system`, `schedule_timer`, `cancel_timer`, the handlers | one loop at a time, `stop` returns and only when the loop it found is over, events in order |
| resource lifecycle (resource_lifecycle.rs) | one lease per resource, a sorted queue of timeouts | `acquire_resource`, `release_resource`, `release_all_task_resources`, `process_expired_leases` | leases exclude each other and end |
| async scheduler integration (async_scheduler_integration.rs) | conflict matrix, batches, dependency graph, resource usage | `schedule_systems`, `schedule_single_system`, `record_task_completion` | batches are free of conflicts and complete |
| system executor (system_executor.rs) | a numbered list of states per plan; local variables and resources of a run | lowering, `execute_step` | steps follow the order of the statements |
| table runtime (table_runtime.rs) | columns, tombstones, key index, secondary indexes, `row_count` | `insert_row`, `update_row`, `delete_row`, `add_secondary_index`, scans | indexes and count agree with live rows |
| computed columns (computed_columns.rs) | dependency graph, evaluation order, cache, dirty marks | `mark_row_dirty`, `mark_column_dirty`, `get_computed_value` | no stale value is served, circles are refused |
| queries (query.rs, query_executor.rs) | none between queries | planning, four optimizer passes, scans, joins | the answer is that of the query, whatever the plan |
| async table integration (async_table_integration.rs) | query futures, transactions, leases | `execute_query`, `execute_batch`, transactions, `poll` | a batch starts whole or leaves nothing, a result is given once |
| semantic analysis (semantic.rs) | a context: variables, scopes, loop depth, return type, module path, definitions | `analyze_program` and the function per construct | scopes are lexical, the context is restored, column types do not depend on the order of maps |
| code generation (codegen.rs) | blocks, the builder's position, variables, owned locals, the stack of loops | `generate_program`, statements, expressions | a run goes where the body goes; what is owned is dropped once |
| error propagation, tri runtime bridge | error chains; a list of ready tasks | | not modelled, section 7 |
| parser, syntax tree, packages, CLI, standard libraries, foreign functions | none | | not modelled, section 7 |

How they interact. `main.rs` starts the loop on a thread of its own (it builds a
request for each async system but submits none; the tests under `src/tests/`
submit through `EventLoopManager::submit_system`, before or after the start).
The loop polls the async runtime (`tick`, then
`drain_completed_tasks`), fires timers and handles one event per turn. Clients
reach the runtime through `schedule_single_system`, which submits a task,
lowers the system and attaches the plan, and hold a `SystemFuture` whose waker
`complete_task` and `cancel_task` call. Each step of a task uses the runtime's
own `ResourceTracker`. Everything is shared through `Arc<Mutex<_>>` and
`Arc<RwLock<_>>`, so the loop, several loops, clients and cancelling threads
interleave between critical sections. The `SystemScheduler` is a library that
its host drives with `&mut self` calls: nothing interleaves inside one. The
resource lifecycle manager serves the async table integration, which starts
queries and hands out futures but never runs a query: the executor of queries
is called by its host, on tables the host registers. `main.rs` parses, analyzes
(`analyze_program`) and generates code; a system is lowered to a plan when it
is scheduled.

Hard behaviours: critical sections of one operation with others between them;
locks taken in different orders, or twice; results, wakers and releases in an
order of their own; stop racing start; lists and definitions that are stale
when used; cancellation, failure and timeout at any step; in the compiler,
errors that are dropped half way through a construct, maps iterated in
arbitrary order, and constructs nested in each other. `PROJECT.json` lists each
under `hazards` with its line.

## 2. Modules

```
BorrowRules              what the scheduler promises (abstract)
ResourceTracker          the borrow table; used by the next two
 +- ResourceTrackerProofs        lemmas for both
 +- SystemScheduler      registration, queue, batches         <- refines BorrowRules
 |   +- MCSystemScheduler
 |   +- SystemSchedulerProofs    theorems
 +- AsyncRuntime         tasks, loops, clients, cancellation  <- refines BorrowRules
     +- MCAsyncRuntime
     +- AsyncRuntimeProofs       theorems
EventLoop                start, stop, events, timers
 +- MCEventLoop
 +- EventLoopProofs      theorems
Leases                   leases and their queue of timeouts; used by the next two
 +- ResourceLifecycle    acquire, release, reap, by critical sections
 |   +- ResourceLifecycleProofs  theorems
 +- AsyncTable           queries, batches, transactions, by steps of their loops
QueryFuture              the future of a query and its clones
AsyncTableProofs         theorems about AsyncTable and QueryFuture
KeyedTable               what a table promises (abstract)
TableOperations          one table as a value, and its operations
 +- TableRuntime         its host, in any order               <- refines KeyedTable
 |   +- ComputedColumns          evaluation on demand, over the table and the graph
 |       +- MCComputedColumns
 +- DependencyGraph      the sort of the computed columns; used by ComputedColumns
 +- TableRuntimeProofs   theorems about TableRuntime and DependencyGraph
 +- TablePredicates      predicates and their evaluation by column
     +- QueryPlanner     plans, optimizer passes
         +- QueryExecutor        scans, joins, projections
             +- MCQueryExecutor
MCResourceManagers       composes SystemScheduler, ResourceLifecycle
MCRuntimeTables          composes AsyncRuntime, ComputedColumns
MCTableServices          composes QueryExecutor, AsyncTable, QueryFuture
PlanExecutor             steps of a plan
 +- StateMachine         lowering of a system to a plan
BatchPlanner             conflict matrix, batches, dependency graph
PlanningProofs           theorems about PlanExecutor and BatchPlanner
SemanticTypes            the types of expressions
 +- SemanticContext      the context, scopes, lookups
     +- Semantic         the analysis of each construct
         +- SemanticProgram      the two passes over a program
             +- MCSemantic
CodeBuilder              blocks, slots, owned locals
 +- CodeGenerator        the code of each construct
     +- CodeMachine      verification and runs of the code; what a body means
         +- MCCodeMachine
MCToolchain              composes SemanticProgram, CodeMachine, StateMachine, BatchPlanner
```

### The runtime

*ResourceTracker* has one operator per method of the borrow table. `Acquire`
and `Release` take a set of uses, since both callers loop over all parameters
of a system. As in the code, `Mutable` is granted to the only reader, while
`Owned` is refused even if the requester itself is the only one that reads.

*SystemScheduler*. The methods take `&mut self`, so each is one action.
`schedule_batch` is a loop whose picks change what later picks may do: its
local variables are `batch`, each iteration is a step, and no other operation
is enabled meanwhile. Its order is not `SelectSeq` and a sort but the one
listing of the eligible positions that is sorted (`SchedulableLists`), which
can be reasoned about. `last_execution_time` becomes a flag (`ran`), for the
reason PendingNeverStarted states. Dropped: `stats`, the estimate of
completion times, and `detect_deadlocks`, which only read the state.

*AsyncRuntime* models the default build (no `tri-runtime`). A step is one
critical section. Two locks are held across others: `active_tasks` by
`cancel_task` and `fail_task`, `completed_tasks` by `drain_completed_tasks`.
`ActiveFree` and `CompletedFree` say when they can be taken, so lock-order
deadlocks and the self-deadlock of `fail_task` are in the model as they are in
the code. A plan is a number of steps (`left`), after which it completes; it
may fail or yield at any of them. Each client belongs to one task.

*EventLoop* has the threads that start and stop it, clients and the loop. The
runtime below it is reduced to "a submitted task completes at some poll".
Timestamps are distinct and in the order of insertion; the heap gives out the
maximum of the order `PriorityEvent::cmp` defines, as `BinaryHeap::pop` does.
`awaited` is a history variable: the threads in the loop when a `stop` signals.

*ResourceLifecycle* has a step per critical section. As in the code, anyone may
release any resource at any time, and the lease is removed before its owner is
looked at; a release that fails ends the call it belongs to. Two history
variables: `believes` is what each task was granted, has not given back, and
whose time the reaper has not found over; `disturbed` names the resources of
which a lease was overwritten by a second reader, removed by a call for another
task, or left behind by a call that failed. `acquire_resource` and the other functions are `async` without ever
waiting, so on an executor with one thread each call runs to its end
(`Serial`). `retain` on the queue of timeouts is KeptAt: the positions that
stay, in order. Releases by a task, of all its leases, and by the reaper are one
piece of code called with different jobs, and so they are here.

*AsyncTable* is the asynchronous table runtime on top of the same leases. Its
functions never wait, so no call begins before the last is over, but a call is
made of the steps of its loops: `call` holds its local variables, and each
query looked at, table acquired and lease released is a step. So what a loop
leaves behind when one of its steps is refused is there to see, and properties
of a call have inductive invariants. `group_queries_by_resources` runs before
the first group is locked; since groups depend on the queries only, the model
makes each when its turn comes. A query is the sequence of its tables. The
record of a transaction's locks is the host's to fill, so a transaction ends
with any set of leases of its task, in any order.

*QueryFuture* is one future and its clones: one shared result, one slot for a
waker. A poll is two critical sections, a completion too.

### Tables

*TableOperations* keeps a table as one record: cells by row and column (in the
code vectors by column), tombstones, the next row, the key index, secondary
indexes and the count. An operation takes a table to a table, or to the set of
tables that a write refused half way may leave (the columns are written in the
order of a map). *TableRuntime* is the table and a host that calls the
operations in any order; it is what the theorems are about. Executing queries
needs several tables as values, which is why the operations are apart.

*DependencyGraph* is the graph of the computed columns and `topological_sort`,
which places one column per step; columns that are ready together come out of a
hash map, so any of them is next. *ComputedColumns* adds the schema's
expressions, runs the sort when a table is made and then evaluates on demand.
`update_row` marks nothing, so marking is the host's duty;
the host here marks after each update what it wrote and what is computed from
it, row by row, or column by column with `MarksColumns`. An update may be refused
half way: the instance has one that writes `a` before or after it meets a name
that is no column.

*TablePredicates*, *QueryPlanner*, *QueryExecutor*: a query is planned, the
optimizer's passes rewrite its plan one step each, as the flags of the context
and the hints say, and the plan is executed. A result is a set of rows with the
ids they come from.

### From a program to what runs

*SemanticContext*, *Semantic*, *SemanticProgram*. An analysis is a function
from a construct and a context to a result `[c, t, e]`: the context after it, a
type, an error. The context is returned with an error too, since the code
changes it through `&mut` and leaves by `?`: what it had entered stays entered
when a caller drops the error. Maps are iterated in the order `ctx.order`, which
an instance varies. A program is collected first and analyzed statement by
statement (`phase`, `next`).

*CodeBuilder*, *CodeGenerator*. The generator is the record `g`: the blocks
with their instructions, the block the builder is at, variables and slots,
owned locals, the stack of loops, the parts given up with an error. Values are
abstracted to "plain" or the identity of something that may have to be dropped;
arithmetic, layouts and types of values are left out. *CodeMachine* checks the
function as `write_object_file` does (every block ends, once) and runs it,
with any outcome of each condition, while `Paths` says without blocks which
sequences of calls and decisions a body can go through. `Paths` knows the language, not the generator: a
`loop` goes round until something leaves it, and a `for` over anything goes
round, although the generator passes both over. Only the parts the generator
gave up with an error are taken out of a body (`skipped`), and SettledIsWhole says
when there are none.

*PlanExecutor* is `execute_step`, for any plan; *StateMachine* makes the plan:
`BuildStateMachine` lowers a body, with the numbering of successors as the code
does it.

*BatchPlanner* takes the requests of a batch out of the hash set in any order.
The plan is read off in two nested loops, so `place` is a batch and a position
in it. The tasks of a system are a set: they are numbered in the order of
submission, so the latest is the greatest. The queues of waiting tasks are left
out, since nothing reads them.

*MCResourceManagers*, *MCRuntimeTables*, *MCTableServices* and *MCToolchain* put
components side by side that share no state in these models: a behaviour is of
one of them, and the others stay as they began.

## 3. Runs

All runs of concurrent components use at least two actors, and three where a
property needs a third (a ring of three systems is the smallest a check for
direct cycles misses; a batch of two needs a third system to be passed over).

| run | what it asks | bounds |
| --- | --- | --- |
| `sched_borrow` | do types, the aliasing rule and "what waits has not started" survive every operation in any order, with redefinition of running systems, direct starts and double enqueueing? | 3 systems, every use of 1 resource, queue of 2, no priorities |
| `sched_deps` | are dependencies kept and acyclic and slots respected, do batches follow FCFS, priority and SJF and start only fresh systems, and does the scheduler implement `BorrowRules`? | 3 systems, a ring of dependencies, 1 resource read or written, 2 slots, 2 priorities, 2 estimates; queue of 2 and FCFS with dependencies, of 3 and every strategy without (`Narrow`) |
| `managers_live` | does every queued system with served dependencies complete? Do leases that nobody disturbed exclude each other, match their timeouts and end? | 3 systems, a chain, FCFS, round robin and work stealing; 2 tasks, 2 resources read or written, durations 1 and 2, 2 timeouts at once |
| `lease_stolen` | violation: are leases exclusive (LeasesExclusive)? | the same tasks, 3 timeouts |
| `runtime_safe` | is a task in one place, are borrows safe, complete and returned? | 2 tasks, 2 loops, 2 resources, drains, cancellations, failures, yields, timeouts, plans of up to 2 steps |
| `runtime_live` | do futures resolve? Is the key index exact, does the table implement `KeyedTable`, are circles refused (CyclesRefused)? | 2 tasks, one of which never ends, 2 loops, cancellations; no drains; key, a column with a default and 2 computed columns under 5 schemas, 2 rows, 4 updates |
| `runtime_fail_hangs` | violation: does `tick` return (TickReturns)? | 1 task, 1 loop, failing plan |
| `loop` | one loop at a time, the counter and the queue, does `stop` end the loops it found and return? | 2 starters, 2 stoppers, 1 task, timers of 2 kinds, 1 at a time |
| `loop_order` | violation: are events taken in the order the comment on `cmp` gives (EventsInOrder)? | 1 starter, 1 stopper, 1 task, no timers |
| `computed_marks` | violation: are served values fresh if the host marks columns (ServedValuesFresh)? | the table of `runtime_live` |
| `table_services` | is an answer that of its query whatever the plan; do batches start whole; is a result given once? | 3 tables of up to 4 rows with columns of 2 numeric types, conditions with literals of both, every set of flags, 3 sets of hints, 4 kinds of join; 2 tasks, 2 tables, 3 batches, leases of 1 tick, 3 queries; 3 clones, a timeout of 2 ticks |
| `toolchain` | does the analysis keep its scopes and restore its context, does code follow the body and drop once, do plans follow it, are batches exact? | some 6,600 programs, 2,450 functions with loops of up to 2 rounds, every body of up to 3 statements as a plan with 6 statements executed, every list of 3 requests over 2 resources from 7 lists of parameters |

Why the bounds suffice. The borrow table treats resources separately, so one
resource already shows every combination of uses; two appear where the order
of acquisition matters (`runtime_safe`: a second parameter refused after the
first was taken). Slots and queue are smaller than the number of systems, so
that both are full in reachable states. `MaxDeps`, `MaxPending`, `MaxTimers`,
`MaxQueries`, `MaxRows` and `MaxSteps` bound what clients ask for and block no
handler. In `runtime_safe` a plan ends with its second step at the latest
(`MaxSteps = 1`), so that a task also goes back to the queue between two steps;
the plans of `runtime_live` include one that never ends. Symmetry is
used in runs without liveness only; `sched_deps` uses the rotations of its ring.

Two timeouts at once show what a pass of the reaper does when it pops two, one
of which fails; the safety properties of the leases were also checked with three
(591,268 states), which takes too long beside liveness. In `sched_deps` systems
with dependencies wait two at a time and first-come, since a pick, one it depends
on and one that is passed over make three; the strategies differ in the order of
systems that are ready, where dependencies add nothing.

Two rows suffice for the table: the engine treats rows separately but for the
dirty mark of a column, and a duplicate key needs two. The tables of
`table_services` have a deleted row, a row on either side that matches none and
one that matches two, and a pair of tables of which either is the larger. The
programs and functions of `toolchain` nest each construct in each other one
level deep and put a statement behind it, which is where an unfinished block, a
scope left open or a local forgotten becomes visible; a loop that goes round
twice shows what the second round finds. `MaxTrace` cuts only plans that jump
back to themselves (section 6).

`CHECK_DEADLOCK FALSE` is set everywhere because each system may really stop:
when all is completed and the queue is full, when every submitted task is done,
when the loop was stopped, when a program, plan or function has come to its end,
when a query is answered, a table full or a future resolved, or, in
`runtime_safe`, in the deadlocks of section 6.

Fairness. `managers_live`: the host keeps calling `schedule_batch` and every
started system ends; that is the contract of a host that has systems queued,
and nothing obliges it to enqueue. Of the leases, calls that began end and time
passes; the reaper gets its turn although it is enabled only between calls,
hence strong fairness for `process_expired_leases` (its caller is the host:
nothing in `src/` calls it). `runtime_live`: threads that loop over `tick` run
on, clients poll when woken, and a `cancel_task` that has begun goes on; nobody
has to cancel. `loop`: weak fairness for each thread and for a submission or a
stop that has begun, none for beginning one.

Preconditions worth knowing. Where a property leaves a case out because the code
goes wrong in it, section 6 says how:
- GrantsMatch, DependenciesDoneFirst and ImplementsBorrowRules need definitions
  that do not change once a system has started (`LateChanges = FALSE`), and
  WithinLimit needs starts through `schedule_batch` only. BorrowSafety and
  PendingNeverStarted need neither.
- BatchStartsFresh needs names that are not enqueued twice: a list computed
  from a queue with two copies holds the name twice.
- StrategyRespected holds for the strategies of `sched_deps`; work stealing
  breaks it.
- BorrowsReturned excepts a task that a drain has taken away.
- FutureResolves is checked without drains and failures and with plans attached
  before the loops start, as in `src/tests/async_execution_tests.rs:658`.
- PendingCovers is exact until a loop that ends clears the queue, and "not less"
  from then on.
- StopIsComplete is about stops whose signal does not cross the end of an
  earlier stop (`Crossed`).
- UndisturbedExclusive, TimeoutsMatchLeases and LeasesEnd except the resources in
  `disturbed`, and are checked for serial calls.
- ImplementsKeyedTable lets an update that is refused change the row it is for:
  what was written before the refusal stays.
- SelectsExact is for conditions that are `Faithful` (no strict ranges, no `<>`
  on an index, no terms of an AND beside one on the key, no lookup by a literal
  of another type than the column) and can be tested where the plan tests them
  (`Tested`); JoinsExact for joins on equal columns of one type without renaming.
- PlanFollowsBody says of every plan that its states are those of the body's
  statements, in order. The order in which they are *executed* is for bodies that
  yield (query, await) at most in their first statement: a later query or await is
  misnumbered and may be made again and again. That no statement runs twice is
  about synchronous statements, in every plan.
- ScopesLexical and ContextRestored are for analyses that drop no error;
  ScopesLexical accepts what is lexically closed always, and refuses what is not
  unless a loop declares a function.
- CodeFollowsBody is about functions that are generated once (not `Doubled`) and in
  which no loop is passed over (`PassedOver`). RegularCompiles is for functions
  without dead code whose generation met no error; DropsOnce for `Tame` bodies,
  whose typed variables are declared on the top level and dropped there, and its
  part "nothing is lost" for `Straightforward` ones, where no path ends or drops
  early.

## 4. Properties worth a second look

- *NoMutualWait*: no set of systems in which each waits for another one of the
  set. `add_system_with_metadata` checks each new dependency against the graph
  as it was before the registration; the property says this suffices even when
  it replaces other dependencies.
- *StrategyRespected*: the list of picks is sorted before the first start of
  the batch and used after borrows were taken; still no pick comes before one
  that could start and precedes it. It compares the pick with the queue, not
  with the list.
- *QueuedOnce*: a task has one place (queue, hand of a loop, client between
  registering and queueing), and has one as long as it is to run.
- *BorrowsReturned*: what a system holds is explained by a task of it that
  runs, is suspended or is being ended, through partial acquisition, failure
  and cancellation. A task that was drained first is excepted (section 6).
- *FutureResolves*: the second look of `poll` after the waker is registered is
  what makes it true; its mutant drops that look.
- *StopIsComplete*, *StopReturns*: a `stop` looks at a flag only, which others
  raise and take down meanwhile; still, when it returns, every thread it found in
  the loop has left it. And it does return, unless another `stop` raised the flag
  again after the last loop had left.
- *UndisturbedExclusive*, *TimeoutsMatchLeases*, *LeasesEnd*: late releases,
  releases by strangers, second readers and passes cut short do harm, but only to
  the resources they touch: all other leases are exclusive, have their one timeout
  in the order of their ends, and end.
- *ServedValuesFresh*: what the cache would serve for a row is what its
  expression evaluates to now, through chains of columns and a dependency that
  is met in one branch of an if only. Violated if the host marks columns.
- *SelectsExact*, *JoinsExact*: the answer is defined from the rows and the
  condition alone, and compared with whichever of the plans was executed, for
  the conditions and joins named in section 3.
- *BatchAllOrNothing*: each query of a batch acquires its tables again after its
  group has; a batch that is accepted has started every query and reads the
  tables of all of them, and one that is refused in a later group holds nothing
  of the earlier ones.
- *CyclesRefused*: the sort knows counts only, and still accepts exactly the
  graphs in which no set of columns reads within itself.
- *ResultGivenOnce*: the completion, the polls of the clones and the timeout
  interleave; one clone gets the result, and none before it is there.
- *PlanFollowsBody*: successors are numbered while states are pushed, loops
  flattened; where the numbers agree (bodies that yield at most first) the plan
  goes through the body in order, and where they do not, a query or an await is
  made again or left out. Its parts *StatementsOnce* (synchronous statements) and
  *RunsInOrder* are about the executor and any plan.
- *BatchesExact*: batches in whatever order the hash set yields are free of
  conflicts and complete, and a request is put off only for one it conflicts with.
  *UsageExclusive*: the graph that is kept meanwhile has no reader beside a writer.
- *ScopesLexical*: the analysis accepts what a definition of lexical closure
  accepts, which knows nothing of scopes that are entered and left, and nothing
  else, but for functions declared in loops.
- *ColumnTypesExact*: column types are those of the expressions whatever the
  order of three maps, and exactly the circles are refused.
- *CodeFollowsBody*: every run of the blocks is a path of the body, however
  constructs are nested, breaks and continues to their own loop. What is left out:
  parts given up with an error (none where every name is known, SettledIsWhole),
  loops passed over and struct functions.
- *DropsOnce*: in `Tame` bodies what has a destructor is dropped at most once on
  each path, never before it is stored and never after it was returned; and in
  `Straightforward` ones every value is.

## 5. Theorems

Every theorem is for all values of the constants that satisfy the assumptions
of its module (types, and that `NoSystem` is no system); what a theorem assumes
beyond them is in the tables. Each inductive invariant was first checked as an
invariant of a run's instance.

### The borrow table

`ResourceTrackerProofs` has the lemmas both users of the table need: what
`Acquire` and `Release` do to what a system holds (AcquireGrants,
ReleaseGrants), that they keep the aliasing rule (AcquireSafe, ReleaseSafe), and
that claims which pass the check are compatible with what others hold.

### System scheduler

`SystemSchedulerProofs`:

| theorem | assumes | inductive invariant |
| --- | --- | --- |
| TypeCorrect: `Spec => []TypeOK` | | `Typed`: TypeOK and finitely many systems execute |
| BorrowSafetyHolds | | itself, with `Typed` |
| NoMutualWaitHolds | | itself; see below |
| PendingNeverStartedHolds | | `PendingInv`: and whatever `ran` executes or has completed |
| WithinLimitHolds | `~DirectStarts` | `SlotsFree`: executing plus what the batch may still start is within the limit |
| BatchStartsFreshHolds | `~DoubleEnqueue` | PendingInv, QueueDistinct and PicksInv |
| StrategyRespectedHolds | `~DoubleEnqueue`, no WorkStealing | the same |
| GrantsMatchHolds | `~LateChanges` | itself, with `Typed` |
| DependenciesDoneFirstHolds | `~LateChanges` | itself, with `Typed` |
| SchedulerImplementsBorrowRules | `~LateChanges` | GrantsMatch, before and after the step |

`StepKinds` sorts the steps by what they do to what is running (start one
system, end one, neither), so that each invariant is argued for the few kinds
that can disturb it. WithinLimit is not inductive: in the middle of a batch it
allows a state with no slot and two picks to go; SlotsFree adds the picks.
PendingNeverStarted is not: `enqueue_system` looks at executing and completed
only, so one has to know that a started system is in one of them.

StrategyRespected compares a pick with the queue, and the code walks a list it
sorted before the first start. `PicksInv` says that the rest of this list stays
as good as a new one: its names still wait, they stand in the order of the
strategy, and whatever can be scheduled now is among them. The last holds since
starts only take borrows (StartHinders: who is ready after a start was ready
before it), and since a pick that is passed over could not be started. Taking a
name out of the queue moves the others, so the order is carried over by the
increasing map from new positions to old ones (WithoutSystemEffect). With
WorkStealing the theorem is false, and section 6 says why.

The argument for NoMutualWait is UnblockedUpdate. `Reaches` says that every set
closed under dependencies that contains the one contains the other. Let Away be
the systems that do not reach `s`. Away is closed, and if the new dependencies
of `s` lie in Away (or were there before), a set in which everyone waits would
have to be such a set inside Away or outside it already before the step. No
induction over paths is needed. Finiteness of `Systems` is not assumed.

### Async runtime

`AsyncRuntimeProofs`, for any number of tasks, loops, clients and cancellers:

| theorem | assumes | inductive invariant |
| --- | --- | --- |
| QueuedOnceHolds | | `WayInv`: TypeOK, a task has at most one place, and one while it is to run |
| RunningHoldsAllHolds | `OwnSystems` | `BorrowInv`: the table is safe and names no unknown task's system, what runs holds all it asked for, and what is held is held for a task |
| NoLostWakeupHolds | | `WakeInv`, with TypeOK; see below |
| TasksBorrowSafeHolds | `OwnSystems` | WayInv and BorrowInv |
| BorrowsReturnedHolds | `OwnSystems` | WayInv and BorrowInv |
| RuntimeImplementsBorrowRules | `OwnSystems` | BorrowInv, before and after the step |

`OwnSystems` says that no two tasks are of one system. Nothing in the code
enforces it, and without it the three safety properties are false: a system
holds its borrows once for both of its tasks, and the first to end gives them
back (section 6). With it the runtime keeps the same abstract rules as the
scheduler, although it acquires parameter by parameter, undoes a refused
acquisition, and releases in a critical section of its own.

NoLostWakeup is the safety half of FutureResolves: a client that sleeps on a
task that is over was called, or its waker is registered and somebody has begun
who goes on to call it. It holds with drains, failures, yields and timeouts too,
where FutureResolves does not: what a drain takes away is the result, not the
call. It is not inductive, and `WakeInv` splits it by what happens in which
order: a waker once registered stays until it is called (Listening, which covers
the client between its two looks), an end without a result has someone about to
store one (ResultsComing), and a stored result is told to whoever sleeps
(CallsComing, where the second look of `poll` is needed: nobody goes to sleep
beside a result). What fairness adds is that whoever has begun goes on.

### Event loop

`EventLoopProofs`, for any number of threads, clients and timers:

| theorem | inductive invariant |
| --- | --- |
| TypeCorrect, PendingCoversHolds | `Inv`: both together, since a count that may fall behind the queue is not known to be a natural number after it was lowered; and the count is exact until a clear (Exact) |
| OneLoopHolds | and `Flagged`: whoever is in the loop has the flag up |
| StopIsCompleteHolds (an action property) | and `Held`, below |

`Held`: a thread that a stop awaits, and that is still in the loop, sees the flag
up, and no other thread is about to take it down. This is what OneLoop is needed
for: whoever could take the flag down has been in the loop, and only one is. A
`stop` that signals while another thread stands before NotifyStopped has nothing
to hold on to, which is the case `Crossed` leaves out.

### Leases

`ResourceLifecycleProofs`, for any number of tasks, threads and resources:

| theorem | assumes | inductive invariant |
| --- | --- | --- |
| TypeCorrect | | `Typed`: TypeOK, a call under way has jobs, finitely many leases |
| ExpiredInFrontHolds | | the queue of timeouts is in the order of their ends |
| PassesMeetTheirLeases | `Serial` | `SerialInv`, below |
| UndisturbedExclusiveHolds | `Serial` | SerialInv |
| TimeoutsMatchLeasesHolds | `Serial` | SerialInv |

`SerialInv`: one call is under way (OneCall); what it is about to insert may be
inserted (Acquiring); what a pass of the reaper has yet to release is leased to
the task it releases it for, or was disturbed (Reaping), and between the two
halves of a release the resource is free (Freed); every timeout of an undisturbed
resource belongs to its lease and every lease has its timeout, unless the call
under way is about to add or remove it (TimeoutsLeased, LeasesTimed); and who
believes to hold an undisturbed resource is its lessee (BelievedLeased). Nothing is assumed of what
callers ask for: they read and write, release late and release what is not
theirs. PassesMeetTheirLeases says where the reaper's pass, which ends with the
first error, can be cut short at all. `Serial` is needed: on two threads two
acquisitions pass the check together (section 6). The lemmas
on the queue (ScheduledEffect, KeptAtEffect, PoppedEffect, ExpiredFront) speak
of positions; the place a timeout is pushed to exists because the naturals have
least elements (LeastNatural).

### Asynchronous tables

`AsyncTableProofs`, for any number of tasks and tables and any batches:

| theorem | inductive invariant |
| --- | --- |
| BatchAllOrNothingHolds | `CallInv`, below |
| ResultGivenOnceHolds | `FutureInv`: the result is in one hand, the shared slot's or one clone's; for any number of clones and any deadline |

Neither assumes more than types. `CallInv` follows a batch through its loops.
The tables of the group whose turn it is are read by the task or still to be
acquired for the whole group (GroupLocked). So what a query of it acquires a
second time is read by its task already (QueryLocked), which is why the query
cannot be refused: a lease is granted again to its reader. No query is lost
between passes and groups, nor counted twice (Counted), and what has left them
has its tables read (Covered), because later groups only acquire. A refused
batch keeps nothing (NothingKept), since `release_all_task_resources` releases
all that is leased to the task, not what this batch acquired.

### Batches of requests

`PlanningProofs`, for any list of requests:

| theorem | inductive invariant |
| --- | --- |
| BatchesExactHolds | `BatchInv`: the three parts of BatchesExact for the closed batches, and what a pass over the hash set builds up: what it has seen is in the open batch or excludes somebody in it (SeenPutOff), what is in the open batch was seen, and what is not to be scheduled any more is what the closed batches hold |
| UsageExclusiveHolds | `GraphInv`: the tasks noted for a system run it and came before the next task |

FitsMeans and UnfitMeans say that the two looks `resolve_conflicts_and_batch`
takes at a batch agree with each other and with "exclude each other", in either
order of the two indices.

### Plans

`PlanningProofs`, for any plans that go from Initialize to Complete over states
of different statements (`WellMade`):

| theorem | inductive invariant |
| --- | --- |
| StatementsOnceHolds | `ExecutorInv`: the plan keeps its shape, and a synchronous statement is in the trace at most once, and not at all before it is marked as executed (TracedOnce) |
| RunsInOrderHolds | and, when each successor is the next state, the trace is the front of the plan up to `current`, nothing ahead is executed, and resources are held exactly between the two ends (Following) |

StatementsOnce needs no order of successors: the mark is in the plan, so a plan
that jumps back finds it. That what `build_state_machine` makes is well made is
PlansAssumption, which TLC evaluates on every plan of `toolchain`; that such a
plan is in the order of its body is the rest of PlanFollowsBody, checked there.

### Tables

`TableRuntimeProofs`, for every schema, set of values and bound on rows:

| theorem | what it says |
| --- | --- |
| TableInvariant: `Spec => []TableInv` | the inductive invariant the others rest on |
| IndexExactHolds | the key index holds exactly the keys of the live rows |
| CountExactHolds | `row_count` is the number of live rows |
| TableImplementsKeyedTable | every step of the table is a step of KeyedTable or leaves it as it is |

`TableInv` is TypeOK, TombstonesGiven, IndexExact, CountExact and LiveRowsFull,
and they need each other. The next row must carry no tombstone
(TombstonesGiven), or a stored row would be born dead, indexed and counted.
`count` stays a natural number under `delete_row` only because the row that is
deleted was counted (CountExact), so even the type is not inductive alone. Rows
map to the rows of KeyedTable, which have a value in every column, only because
live rows are full (LiveRowsFull): a refused insertion may have written some
columns of the next row, but that row is torn and not given out, and the next
insertion writes over it. `insert_row` looks for duplicates in the index, and
KeyedTable among its rows: IndexExact is why they agree. `StepKinds` sorts the
steps into five effects (a row stored, a torn one left, a row changed under its
key, deleted, an index built) and a stutter, and each part of the invariant is
argued once per kind. The assumptions are TableAssumption (types; defaults are
values or none) and IndexedAssumption.

### The sort of computed columns

`TableRuntimeProofs` proves CyclesRefusedHolds, about DependencyGraph, for any
finite set of computed columns (GraphAssumption: a schema is a list) and any
graph between them. `SortInv`: an in-degree counts the columns that are read and
have no place yet (DegreesCount), the order has each column once (PlacedOnce,
which is what makes the comparison of two lengths at the end a test for columns
left over), and no column of a circle is placed (CirclesUnplaced): the one placed
first would read an earlier one. Conversely, what is left over when nothing is
ready is itself a circle. Every step of ComputedColumns is one of SortNext or
leaves the graph alone, but ComputedColumns declares RECURSIVE operators, so
that the theorem is about DependencyGraph and the run about both.

### Only model-checked

- All liveness: fairness and `ENABLED` are out of the prover's reach
  (QueuedSystemsComplete, FutureResolves, StopReturns, LeasesEnd).
- What is computed by recursion over trees: SelectsExact and JoinsExact (conditions and plans), ScopesLexical,
  ColumnTypesExact and ContextRestored (the semantic analysis), CodeFollowsBody and
  DropsOnce (the generator), and of PlanFollowsBody what relates a plan to its
  body. That needs induction over data, and the modules use RECURSIVE operators.

TickReturns, LeasesExclusive, EventsInOrder and ServedValuesFresh are violated.

## 6. Where the code disagrees with its documentation

Checked by runs:
- `fail_task` keeps the write lock of `active_tasks` and calls `complete_task`,
  which reads it: the thread waits for itself, and every later tick and
  submission waits too (`runtime_fail_hangs`).
- `release_resource` removes the lease under a name before it looks whose it is
  ("// Verify task ownership", resource_lifecycle.rs:243): a task that releases what
  it never held, or holds no more, is refused with an error, and the holder's lease
  is gone. Another task is then granted the resource beside it, by a manager "for
  async context with borrow safety" (:7) (`lease_stolen`).
- `PriorityEvent::cmp` promises "Higher priority first, then earlier timestamp"
  (event_loop_manager.rs:133); in a max-heap it gives the lowest priority first,
  and of those the latest (`loop_order`). Events of a higher priority, or older
  ones, wait as long as such others arrive.
- `get_computed_value` takes a column off the list of dirty columns when it has
  computed one row of it, so that its other rows are served stale ("Mark a column
  as dirty (needs recomputation)", computed_columns.rs:752) (`computed_marks`).

Seen while modelling. Where constants and a property are named, setting the one
and checking the other reproduces it; the rest is in the named definitions or was
read in the code.

Scheduling:
- `complete_system` releases what the definition stored *now* declares; with
  `LateChanges`, a system registered again while it runs leaks its borrows.
- `schedule_system` ignores `max_concurrent_systems`; with `DirectStarts`
  WithinLimit fails, and the next `schedule_batch` subtracts past zero
  (`BatchUnderflow`).
- A pick of `schedule_batch` that fails uses up its slot, so it may return with
  a free slot and a system that could take it.
- Work stealing computes its list anew after each start and goes on at the next
  index, passing over the head (StrategyRespected with `"WorkStealing"`).
- A loop that runs while a task is submitted may step it before its plan is
  attached, and fails it (`SubmitFirst = FALSE`; StepWithoutPlan).
- `cancel_task` takes `active_tasks` then `completed_tasks`, a drain the other
  way round: both may wait for ever (`Cancels` and `Drains`).
- A drain removes results that a woken client has yet to look for: its future
  never resolves (FutureResolves with `Drains`).
- A drain by a second loop between storing a result and releasing the borrows
  removes the handles, and the borrows stay (BorrowsReturned without its last
  disjunct).
- Two tasks of one system may both hold a resource mutably: borrows are kept by
  the system's name (TasksBorrowSafe with `SystemOf` constant).
- A task that yields is put in no queue and never resumes (`Yields`).
- A cancellation and the completion of the same task overwrite each other's
  result.
- `stop` without a running loop waits for ever (StopReturns without `LoopThere`). A
  loop started while the last one is between clearing `is_running` and notifying
  has the flag of its own stop taken down: that `stop` returns and the loop runs on
  (StopIsComplete with `awaited` filled whatever `Crossed` says).
- `shutdown_cleanup` clears the queue and not its count, which a second loop then
  starts with (PendingCovers without NoneCleared).
- The capacity of the event queue is compared with a list nothing is put in, so
  it never refuses an event.
- `active_systems` stays one too high when a completion is handled before its
  start.
- The counts of tasks and timers are lowered with saturation and not always in
  step with what they count: cancelling a timer that has fired lowers the count
  again, firing does not.

Leases and the asynchronous tables:
- The lease of a second reader overwrites that of the first. When either
  releases, the resource is free and a writer is granted it beside the other
  reader.
- A release that fails ends a pass of the reaper; the timeouts that were popped
  with it are gone, and their leases have no end any more (LeasesEnd without
  `disturbed`).
- Two threads that acquire one resource may both pass the check before either
  inserts its lease (UndisturbedExclusive with `Serial = FALSE`, six steps).
- A batch acquires each table twice and leaves two timeouts. The second release
  by the reaper fails and ends its pass, and the other leases that were popped
  with it are never given back.
- A query whose table is refused waits for a future that nobody completes; a
  query that started is never executed. When a later group of a batch is
  refused, the futures of the earlier ones stay registered.
- A commit after the timeout of its transaction keeps the locks.
- A poll that has found no result and stores its waker after a completion looked
  for one is never woken (the gap between FindsNothing and StoresWaker). The waker
  of one clone replaces another's.

Plans and batches:
- `state_index` counts a query or an await twice and a statement not at all, and
  the numbers in a loop start at 1 again. A plan with a statement before a query
  jumps back to itself for ever, later queries are skipped, and a plan that ends
  by running past its last state never releases what it holds (PlanFollowsBody
  without YieldsAtMostFirst). Bodies of loops run once.
- `record_task_completion` leaves the readers and the writer of a resource as they
  are and promotes nothing that waits; `wait_for_batch_completion` waits for nothing.

Tables and queries:
- Secondary indexes are not maintained after they were built; the index of a
  computed column is empty.
- A refused update has applied those before the refused entry, in the order of a
  map; an update of a computed column does nothing and reports success. Defaults
  are not validated and may leave a torn row.
- `compare_column_values` lets strict comparisons include their bound.
- Marks of computed columns reach direct dependents only, and `update_row` makes
  none. A host that marks row by row what it wrote and everything computed from it
  is served fresh values (ServedValuesFresh with `MarksColumns = FALSE`, 204,636
  states).
- An equality with a literal of another numeric type than its column finds its rows
  by a scan (values_equal) and misses them by the key index, which is asked for the
  literal as it is (query.rs:1061-1064, table_runtime.rs:612-626): the answer
  depends on the plan (SelectsExact without LooksUpType).
- A join of columns of two numeric types compares numbers in nested loops
  (query_executor.rs:808, 1533) and wants values of one type in hash and index joins
  (506-519, 646), so that its rows depend on the sizes of the tables (JoinsExact
  without OneType).
- A condition on the key drops the other terms of its AND (`residual_predicate:
  None, // TODO`, query.rs:619); a range merged with another on the same side keeps
  the later bound. AND and OR of terms of two kinds read the whole table.
- Hash and index joins ignore the operator; renamed columns are lost in joins.
- `generate_statistics` swaps minimum and maximum; `range_scan` inverts its tests.

Semantic analysis:
- A type mismatch in the body of a function is dropped in the second pass after
  the error left by `?`: scopes, loop depth, return type and module path stay as
  they were inside (ScopesLexical and ContextRestored without `dropped`). Errors in
  elements of vectors and matrices are swallowed likewise.
- Branches of an if and blocks used as expressions are not analyzed.
- Names bound by patterns of enum variants become global variables (against the
  comment on `var_scopes`, semantic.rs:9).
- A function declared in a loop keeps the loop depth, so `break` is accepted in
  it, and its parameters stay in the scope of the loop (semantic.rs:1578-1612;
  ScopesLexical without LoopsDeclareNone).
- A call of an associated function that takes no parameters through a value subtracts
  past zero (`sig.parameters.len() - 1`, semantic.rs:2410, 2451): a panic in builds
  that check, a count no argument list has in others (`checks` in CallMethod).
- Functions of a module cannot call their siblings; glob imports and `m::f()`
  resolve nothing.
- Operands of casts are no dependencies of a computed column: their order is
  arbitrary and circles through casts are accepted. A column that negates an
  untyped computed column passes the first pass and is refused in the second.

Code generation:
- A method whose body ends in `ret`, and a system that returns none, are refused by
  the verifier (the methods of `src/tests/drop_semantics.rs` are only compared as text).
- The body of a struct function is generated twice unless a struct literal ends
  it ("No struct-literal tail; evaluate the block", codegen.rs:13219-13261;
  CodeFollowsBody without Doubled).
- After a `ret` in one branch the owned locals are gone for the other: later uses
  are undefined, their statements are skipped, and nothing is dropped.
- A variable declared in a branch or loop that is not run is dropped without a
  value; a copy is dropped beside the original; a variable that is the value of a
  block is returned and dropped; the failure path of `?` drops nothing; systems
  drop nothing at their end, nor are locals without annotation dropped.
- `loop` has no arm in `generate_expression`, and `for` over what is no range, vector
  or slice is skipped (codegen.rs:6314): their bodies are lost without an error
  (CodeFollowsBody without PassedOver), although the analysis checks them
  (semantic.rs:2776). An arm of a match with a return anywhere
  gets no jump to what follows.

## 7. Plan

Done: every component of section 1 but the following. PROJECT.json lists under each
component what is left out of it.

Not modelled:
- *Error propagation* (error_propagation.rs): chains of errors and a bounded
  history. No other component calls it.
- *Tri runtime bridge*: a list of ready tasks behind the feature `tri-runtime`,
  which is off by default.
- *Parser*: a function from text to trees, mostly generated from a grammar, with
  no state. *Syntax tree*: data types.
- *Standard libraries*, *foreign functions*, *packages*, *command line*: calls of
  the operating system, files, or wiring without state of its own.

What would add most next:
1. EventLoop with AsyncRuntime in place of its reduced runtime.
2. Proofs: EventLoop composed with AsyncRuntime, on the invariants of both. New
   theorems fit best into the proof modules there are.
3. Types and layouts in the generator, now abstracted to "plain" and "owned".
