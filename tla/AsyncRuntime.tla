---------------------------- MODULE AsyncRuntime ----------------------------
(***************************************************************************)
(* AsyncSystemRuntime of async_runtime.rs, built without tri-runtime: the  *)
(* threads that tick it, the clients that submit systems and await their   *)
(* futures, and a thread that cancels tasks.  Clients are named by their   *)
(* task: TaskId::new never repeats an id.                                  *)
(*                                                                         *)
(* A step is a critical section.  The mutexes of the queue, the tracker,   *)
(* the wakers and the plans are held only inside one; active_tasks and     *)
(* completed_tasks are also held while a thread waits for another lock,    *)
(* and ActiveFree and CompletedFree say that nobody is in such a place.    *)
(* fail_task reads active_tasks while it holds the write lock: std's lock  *)
(* then waits for itself on Linux, and the thread stays "stuck".           *)
(*                                                                         *)
(* Left out: values, time (a timeout may strike at any step), and the      *)
(* branches of execute_task_step for suspended and completed tasks: no     *)
(* such task is in the queue (QueuedOnce).                                 *)
(***************************************************************************)
EXTENDS ResourceTracker, Integers, Sequences

CONSTANTS
    Tasks,        \* tasks that are submitted, each by a client of its own
    NoTask,
    SystemOf,     \* the system a task runs
    Parameters,   \* the resource parameters of a system, in their order
    Tickers,      \* threads that loop over tick and drain
    Endless,      \* tasks whose plan never completes
    SubmitFirst,  \* are the loops started after every plan is attached?
    Drains,       \* do the loops drain completed tasks?
    Cancels,      \* does anyone cancel tasks?
    Failures,     \* may a step of a plan fail?
    Yields,       \* may a step of a plan yield?
    Timeouts,     \* may a task exceed its timeout?
    MaxSteps      \* bound: steps of a plan before it completes

ASSUME RuntimeAssumption ==
    /\ NoTask \notin Tasks
    /\ SystemOf \in [Tasks -> Systems]
    /\ Parameters \in [Systems -> Seq(Claim)]
    /\ Endless \subseteq Tasks
    /\ {SubmitFirst, Drains, Cancels, Failures, Yields, Timeouts} \subseteq BOOLEAN
    /\ MaxSteps \in Nat

TaskState == {"Pending", "Running", "Suspended", "Completed", "Failed", "Cancelled"}
Result == {"none", "ok", "error", "cancelled"}
TickerPlace == {"idle", "step", "requeue", "store", "wake", "release",
                "fail", "failStore", "failWake", "stuck", "drain", "draining"}
ClientPlace == {"new", "registered", "queued", "check", "register", "recheck",
                "parked", "done"}
CancelPlace == {"idle", "store", "wake"}

VARIABLES
    state,      \* active_tasks: the state of a task, or "Absent"
    handles,    \* resource_handles of each task
    tracker,    \* resource_tracker
    queue,      \* task_queue
    results,    \* completed_tasks
    plans,      \* execution_handles: tasks with a plan
    left,       \* steps of a plan before the one that completes it
    wakers,     \* tasks with a registered waker
    woken,      \* tasks whose waker was called and not yet noticed
    client,     \* where each client is
    answer,     \* what each future has returned
    ticker,     \* where each loop is, and the task in its hand
    canceller   \* where the cancelling thread is, and its task

runtime == <<state, handles, tracker, queue, results, plans, left>>
futures == <<wakers, woken, client, answer>>
vars == <<runtime, futures, ticker, canceller>>

\* The threads that keep active_tasks, or completed_tasks, between two steps.
ActiveFree == /\ \A k \in Tickers : ticker[k].pc \notin {"failStore", "failWake", "stuck"}
              /\ canceller.pc = "idle"
CompletedFree == \A k \in Tickers : ticker[k].pc # "draining"

SystemClaims(t) == LET ps == Parameters[SystemOf[t]] IN {ps[i] : i \in DOMAIN ps}

\* release_task_resources: what the handles name, by the name of the system.
ReleaseTask(t) == Release(tracker, SystemOf[t], handles[t])

----------------------------------------------------------------------------
(* Clients: schedule_single_system, then the future is polled *)

\* submit_system: the task is registered ...
RegisterTask(t) ==
    /\ client[t] = "new" /\ ActiveFree
    /\ client' = [client EXCEPT ![t] = "registered"]
    /\ state' = [state EXCEPT ![t] = "Pending"]
    /\ UNCHANGED <<handles, tracker, queue, results, plans, left, wakers, woken,
                   answer, ticker, canceller>>

\* ... and then queued,
EnqueueTask(t) ==
    /\ client[t] = "registered"
    /\ client' = [client EXCEPT ![t] = "queued"]
    /\ queue' = Append(queue, t)
    /\ UNCHANGED <<state, handles, tracker, results, plans, left, wakers, woken,
                   answer, ticker, canceller>>

\* and attach_execution_plan comes after both.
AttachPlan(t) ==
    /\ client[t] = "queued"
    /\ client' = [client EXCEPT ![t] = "check"]
    /\ plans' = plans \cup {t}
    /\ \E n \in 0..MaxSteps : left' = [left EXCEPT ![t] = n]
    /\ UNCHANGED <<state, handles, tracker, queue, results, wakers, woken,
                   answer, ticker, canceller>>

\* poll: the result is there, or the client goes on to the given place.
Look(t, else) ==
    /\ CompletedFree
    /\ IF results[t] # "none"
       THEN /\ client' = [client EXCEPT ![t] = "done"]
            /\ answer' = [answer EXCEPT ![t] = results[t]]
       ELSE /\ client' = [client EXCEPT ![t] = else]
            /\ UNCHANGED answer
    /\ UNCHANGED <<runtime, wakers, woken, ticker, canceller>>

Check(t) == client[t] = "check" /\ Look(t, "register")

RegisterWaker(t) ==
    /\ client[t] = "register"
    /\ client' = [client EXCEPT ![t] = "recheck"]
    /\ wakers' = wakers \cup {t}
    /\ UNCHANGED <<runtime, woken, answer, ticker, canceller>>

\* Mutant of Recheck: a registered waker is trusted to be called.
RecheckNothing(t) ==
    /\ client[t] = "recheck"
    /\ client' = [client EXCEPT ![t] = "parked"]
    /\ UNCHANGED <<runtime, wakers, woken, answer, ticker, canceller>>

Recheck(t) == client[t] = "recheck" /\ Look(t, "parked")

\* The executor polls a future again once its waker was called.
PollAgain(t) ==
    /\ client[t] = "parked" /\ t \in woken
    /\ client' = [client EXCEPT ![t] = "check"]
    /\ woken' = woken \ {t}
    /\ UNCHANGED <<runtime, wakers, answer, ticker, canceller>>

Client(t) == \/ RegisterTask(t) \/ EnqueueTask(t) \/ AttachPlan(t)
             \/ Check(t) \/ RegisterWaker(t) \/ Recheck(t) \/ PollAgain(t)

\* Result and waker of a task, as complete_task and cancel_task write them.
Store(t, r) == results' = [results EXCEPT ![t] = r]
Wake(t) == /\ wakers' = wakers \ {t}
           /\ woken' = woken \cup ({t} \cap wakers)

----------------------------------------------------------------------------
(* tick: take a task from the queue and execute one step of it *)

At(k, place) == ticker[k].pc = place
GoTo(k, place) == ticker' = [ticker EXCEPT ![k].pc = place]

\* tick has returned; a loop that drains does so next.
Rest(k) == ticker' = [ticker EXCEPT ![k] = [pc |-> IF Drains THEN "drain" ELSE "idle",
                                            task |-> NoTask]]

Started == SubmitFirst => \A t \in Tasks : client[t] \notin {"new", "registered", "queued"}

\* Mutant of TakeTask: the task is left at the front of the queue.
TakeTaskPeek(k) ==
    /\ At(k, "idle") /\ Started
    /\ queue # <<>>
    /\ ticker' = [ticker EXCEPT ![k] = [pc |-> "step", task |-> Head(queue)]]
    /\ UNCHANGED <<runtime, futures, canceller>>

TakeTask(k) ==
    /\ At(k, "idle") /\ Started
    /\ queue # <<>>
    /\ queue' = Tail(queue)
    /\ ticker' = [ticker EXCEPT ![k] = [pc |-> "step", task |-> Head(queue)]]
    /\ UNCHANGED <<state, handles, tracker, results, plans, left, futures, canceller>>

\* With an empty queue tick returns false, and the loop drains all the same.
TakeNothing(k) ==
    /\ At(k, "idle") /\ Started
    /\ queue = <<>> /\ Drains
    /\ GoTo(k, "drain")
    /\ UNCHANGED <<runtime, futures, canceller>>

\* execute_task_step begins with the task it found in active_tasks.
Holds(k, t, s) == At(k, "step") /\ ticker[k].task = t /\ ActiveFree /\ state[t] = s

StepOfMissing(k, t) ==
    /\ Holds(k, t, "Absent")
    /\ GoTo(k, "fail")
    /\ UNCHANGED <<runtime, futures, canceller>>

StepTimesOut(k, t) ==
    /\ Timeouts /\ \E s \in TaskState : Holds(k, t, s)
    /\ GoTo(k, "fail")
    /\ UNCHANGED <<runtime, futures, canceller>>

\* Mutant of Granted: only the first parameter is checked.
GrantedUnchecked(t) ==
    LET ps == Parameters[SystemOf[t]]
    IN  IF ps # <<>> /\ CanAccess(tracker, ps[1][1], SystemOf[t], ps[1][2])
        THEN SystemClaims(t) ELSE {}

\* acquire_task_resources stops at the first parameter that is not free, and
\* keeps those before it.
Granted(t) ==
    LET s == SystemOf[t]
        ps == Parameters[s]
    IN  {ps[i] : i \in {j \in DOMAIN ps :
            \A n \in 1..j : CanAccess(tracker, ps[n][1], s, ps[n][2])}}

\* Mutant of AcquireResources: a task runs with what it got.
AcquireSome(k, t) ==
    /\ Holds(k, t, "Pending")
    /\ tracker' = Acquire(tracker, SystemOf[t], Granted(t))
    /\ handles' = [handles EXCEPT ![t] = Granted(t)]
    /\ state' = [state EXCEPT ![t] = "Running"]
    /\ GoTo(k, "requeue")
    /\ UNCHANGED <<queue, results, plans, left, futures, canceller>>

AcquireResources(k, t) ==
    /\ Holds(k, t, "Pending")
    /\ tracker' = Acquire(tracker, SystemOf[t], Granted(t))
    /\ handles' = [handles EXCEPT ![t] = Granted(t)]
    /\ IF Granted(t) = SystemClaims(t)
       THEN state' = [state EXCEPT ![t] = "Running"] /\ GoTo(k, "requeue")
       ELSE UNCHANGED state /\ GoTo(k, "fail")
    /\ UNCHANGED <<queue, results, plans, left, futures, canceller>>

\* The outcomes of SystemStateMachineExecutor::execute_step.
StepWithoutPlan(k, t) ==
    /\ Holds(k, t, "Running") /\ t \notin plans
    /\ GoTo(k, "fail")
    /\ UNCHANGED <<runtime, futures, canceller>>

StepFails(k, t) ==
    /\ Holds(k, t, "Running") /\ t \in plans
    /\ Failures
    /\ GoTo(k, "fail")
    /\ UNCHANGED <<runtime, futures, canceller>>

StepContinues(k, t) ==
    /\ Holds(k, t, "Running") /\ t \in plans
    /\ \/ t \in Endless /\ UNCHANGED left
       \/ t \notin Endless /\ left[t] > 0 /\ left' = [left EXCEPT ![t] = @ - 1]
    /\ GoTo(k, "requeue")
    /\ UNCHANGED <<state, handles, tracker, queue, results, plans, futures, canceller>>

StepYields(k, t) ==
    /\ Holds(k, t, "Running") /\ t \in plans
    /\ Yields
    /\ state' = [state EXCEPT ![t] = "Suspended"]
    /\ Rest(k)
    /\ UNCHANGED <<handles, tracker, queue, results, plans, left, futures, canceller>>

StepCompletes(k, t) ==
    /\ Holds(k, t, "Running") /\ t \in plans
    /\ t \notin Endless /\ left[t] = 0
    /\ state' = [state EXCEPT ![t] = "Completed"]
    /\ GoTo(k, "store")
    /\ UNCHANGED <<handles, tracker, queue, results, plans, left, futures, canceller>>

\* A task that was cancelled while it waited is dropped from the queue.
StepOfCancelled(k, t) ==
    /\ Holds(k, t, "Cancelled")
    /\ Rest(k)
    /\ UNCHANGED <<runtime, futures, canceller>>

ExecuteTaskStep(k, t) ==
    \/ StepOfMissing(k, t) \/ StepTimesOut(k, t) \/ AcquireResources(k, t)
    \/ StepWithoutPlan(k, t) \/ StepFails(k, t) \/ StepContinues(k, t)
    \/ StepYields(k, t) \/ StepCompletes(k, t) \/ StepOfCancelled(k, t)

\* NeedsContinuation
Requeue(k, t) ==
    /\ At(k, "requeue") /\ ticker[k].task = t
    /\ queue' = Append(queue, t)
    /\ Rest(k)
    /\ UNCHANGED <<state, handles, tracker, results, plans, left, futures, canceller>>

----------------------------------------------------------------------------
(* complete_task and fail_task *)

StoreResult(k, t) ==
    /\ At(k, "store") /\ ticker[k].task = t /\ CompletedFree
    /\ Store(t, "ok")
    /\ GoTo(k, "wake")
    /\ UNCHANGED <<state, handles, tracker, queue, plans, left, futures, canceller>>

WakeFuture(k, t) ==
    /\ At(k, "wake") /\ ticker[k].task = t
    /\ Wake(t)
    /\ GoTo(k, "release")
    /\ UNCHANGED <<runtime, client, answer, canceller>>

\* Mutant of ReleaseAndForget: the borrows are left where they are.
ForgetOnly(k, t) ==
    /\ At(k, "release") /\ ticker[k].task = t /\ ActiveFree
    /\ plans' = plans \ {t}
    /\ Rest(k)
    /\ UNCHANGED <<state, handles, tracker, queue, results, left, futures, canceller>>

\* Resources are released if the task is still there, and its plan is removed;
\* nobody looks at the plan of a completed task in between.
ReleaseAndForget(k, t) ==
    /\ At(k, "release") /\ ticker[k].task = t /\ ActiveFree
    /\ tracker' = IF state[t] = "Absent" THEN tracker ELSE ReleaseTask(t)
    /\ plans' = plans \ {t}
    /\ Rest(k)
    /\ UNCHANGED <<state, handles, queue, results, left, futures, canceller>>

\* fail_task takes active_tasks and does not let go of it.
MarkFailed(k, t) ==
    /\ At(k, "fail") /\ ticker[k].task = t /\ ActiveFree
    /\ IF state[t] = "Absent"
       THEN UNCHANGED <<state, tracker>>
       ELSE /\ state' = [state EXCEPT ![t] = "Failed"]
            /\ tracker' = ReleaseTask(t)
    /\ GoTo(k, "failStore")
    /\ UNCHANGED <<handles, queue, results, plans, left, futures, canceller>>

StoreError(k, t) ==
    /\ At(k, "failStore") /\ ticker[k].task = t /\ CompletedFree
    /\ Store(t, "error")
    /\ GoTo(k, "failWake")
    /\ UNCHANGED <<state, handles, tracker, queue, plans, left, futures, canceller>>

\* Next it would read active_tasks, which it holds itself.
WakeFailed(k, t) ==
    /\ At(k, "failWake") /\ ticker[k].task = t
    /\ Wake(t)
    /\ GoTo(k, "stuck")
    /\ UNCHANGED <<runtime, client, answer, canceller>>

CompleteTask(k, t) == StoreResult(k, t) \/ WakeFuture(k, t) \/ ReleaseAndForget(k, t)
FailTask(k, t) == MarkFailed(k, t) \/ StoreError(k, t) \/ WakeFailed(k, t)

----------------------------------------------------------------------------
(* drain_completed_tasks *)

DrainNothing(k) ==
    /\ At(k, "drain") /\ CompletedFree
    /\ \A t \in Tasks : results[t] = "none"
    /\ GoTo(k, "idle")
    /\ UNCHANGED <<runtime, futures, canceller>>

\* It keeps completed_tasks and asks for active_tasks ...
DrainBegin(k) ==
    /\ At(k, "drain") /\ CompletedFree
    /\ \E t \in Tasks : results[t] # "none"
    /\ GoTo(k, "draining")
    /\ UNCHANGED <<runtime, futures, canceller>>

\* ... and removes every result and its task.
DrainTake(k) ==
    /\ At(k, "draining") /\ ActiveFree
    /\ state' = [t \in Tasks |-> IF results[t] # "none" THEN "Absent" ELSE state[t]]
    /\ handles' = [t \in Tasks |-> IF results[t] # "none" THEN {} ELSE handles[t]]
    /\ results' = [t \in Tasks |-> "none"]
    /\ GoTo(k, "idle")
    /\ UNCHANGED <<tracker, queue, plans, left, futures, canceller>>

Drain(k) == DrainNothing(k) \/ DrainBegin(k) \/ DrainTake(k)

----------------------------------------------------------------------------
(* cancel_task, which keeps active_tasks to its end *)

CancelBegin(t) ==
    /\ Cancels /\ ActiveFree
    /\ state[t] \notin {"Absent", "Cancelled"}   \* input bound: once per task
    /\ tracker' = ReleaseTask(t)
    /\ state' = [state EXCEPT ![t] = "Cancelled"]
    /\ canceller' = [pc |-> "store", task |-> t]
    /\ UNCHANGED <<handles, queue, results, plans, left, futures, ticker>>

CancelStore(t) ==
    /\ canceller = [pc |-> "store", task |-> t] /\ CompletedFree
    /\ Store(t, "cancelled")
    /\ canceller' = [canceller EXCEPT !.pc = "wake"]
    /\ UNCHANGED <<state, handles, tracker, queue, plans, left, futures, ticker>>

CancelWake(t) ==
    /\ canceller = [pc |-> "wake", task |-> t]
    /\ Wake(t)
    /\ canceller' = [pc |-> "idle", task |-> NoTask]
    /\ UNCHANGED <<runtime, client, answer, ticker>>

----------------------------------------------------------------------------
Init ==
    /\ state = [t \in Tasks |-> "Absent"]
    /\ handles = [t \in Tasks |-> {}]
    /\ tracker = EmptyTracker
    /\ queue = <<>>
    /\ results = [t \in Tasks |-> "none"]
    /\ plans = {}
    /\ left = [t \in Tasks |-> 0]
    /\ wakers = {}
    /\ woken = {}
    /\ client = [t \in Tasks |-> "new"]
    /\ answer = [t \in Tasks |-> "none"]
    /\ ticker = [k \in Tickers |-> [pc |-> "idle", task |-> NoTask]]
    /\ canceller = [pc |-> "idle", task |-> NoTask]

TickerStep(k) ==
    \/ TakeTask(k) \/ TakeNothing(k) \/ Drain(k)
    \/ \E t \in Tasks : \/ ExecuteTaskStep(k, t) \/ Requeue(k, t)
                        \/ CompleteTask(k, t) \/ FailTask(k, t)

CancelRest(t) == CancelStore(t) \/ CancelWake(t)

Next == \/ \E t \in Tasks : Client(t) \/ CancelBegin(t) \/ CancelRest(t)
        \/ \E k \in Tickers : TickerStep(k)

Spec == Init /\ [][Next]_vars

\* The loops tick for ever, each thread runs on when it can, and a call to
\* cancel_task that has begun is not abandoned; nobody has to call it.
FairSpec == /\ Spec
            /\ \A k \in Tickers : WF_vars(TickerStep(k))
            /\ \A t \in Tasks : WF_vars(Client(t)) /\ WF_vars(CancelRest(t))

----------------------------------------------------------------------------
(* Properties *)

TypeOK ==
    /\ state \in [Tasks -> TaskState \cup {"Absent"}]
    /\ handles \in [Tasks -> SUBSET Claim]
    /\ tracker \in Tracker
    /\ queue \in Seq(Tasks)
    /\ results \in [Tasks -> Result]
    /\ plans \subseteq Tasks
    /\ left \in [Tasks -> 0..MaxSteps]
    /\ wakers \subseteq Tasks
    /\ woken \subseteq Tasks
    /\ client \in [Tasks -> ClientPlace]
    /\ answer \in [Tasks -> Result]
    /\ ticker \in [Tickers -> [pc : TickerPlace, task : Tasks \cup {NoTask}]]
    /\ canceller \in [pc : CancelPlace, task : Tasks \cup {NoTask}]

\* Where a task can be before it is finished: a place in the queue, the hand of
\* a loop, or its client, who has registered and not yet queued it.
Places(t) == {<<"queue", i>> : i \in {j \in DOMAIN queue : queue[j] = t}}
             \cup {<<"hand", k>> : k \in {j \in Tickers : ticker[j].task = t}}
             \cup {<<"client", c>> : c \in {t} \cap {u \in Tasks : client[u] = "registered"}}

\* No task is twice on its way through the queue and the loops, where two of
\* them would execute it at once, and none that has still to run is lost.
QueuedOnce ==
    \A t \in Tasks :
        /\ \A p, q \in Places(t) : p = q
        /\ state[t] \in {"Pending", "Running"} => Places(t) # {}

\* Two tasks never run with uses of one resource of which one writes it.
TasksBorrowSafe ==
    \A t, u \in Tasks :
        t # u /\ state[t] = "Running" /\ state[u] = "Running"
        => \A c \in SystemClaims(t), d \in SystemClaims(u) : Compatible(c, d)

\* A task that runs holds all its system has declared, through cancellations,
\* failures and drains of the tasks beside it.
RunningHoldsAll ==
    \A t \in Tasks : state[t] = "Running" => SystemClaims(t) \subseteq HeldBy(tracker, SystemOf[t])

\* Borrows are given back: a system holds something only while a task of it
\* runs, is suspended, or is in the hand of the loop that will end it, however
\* completions, failures, partial acquisitions and cancellations interleave.
\* A task that is drained before its loop has released its borrows is the
\* exception: its handles go with it (ReleaseAndForget, DrainTake).
Ending(t) == \E k \in Tickers : /\ ticker[k].task = t
                                /\ ticker[k].pc \in {"fail", "store", "wake", "release"}
Drained(t) == state[t] = "Absent" /\ client[t] # "new"
BorrowsReturned ==
    \A s \in Systems :
        HeldBy(tracker, s) # {} =>
            \E t \in Tasks : /\ SystemOf[t] = s
                             /\ state[t] \in {"Running", "Suspended"} \/ Ending(t) \/ Drained(t)

\* The future of every submitted task whose plan ends returns: no wakeup is
\* lost, and no other task keeps it from running.
FutureResolves == \A t \in Tasks \ Endless : client[t] = "registered" ~> client[t] = "done"

\* tick returns, whatever becomes of the task.
TickReturns == \A k \in Tickers : At(k, "step") ~> At(k, "idle")
============================================================================
