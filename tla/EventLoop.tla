------------------------------ MODULE EventLoop ------------------------------
(***************************************************************************)
(* EventLoopManager of event_loop_manager.rs: threads that start the loop, *)
(* threads that stop it, clients that submit systems and timers, and the   *)
(* loop itself, which polls the async runtime, looks for a shutdown, fires *)
(* timers and takes one event from the queue on every turn.                *)
(*                                                                         *)
(* The queue is kept in the order of the timestamps, which are taken under *)
(* its lock and are distinct here.  The runtime is reduced to what the     *)
(* loop sees of it: a task that was submitted completes at some poll (the  *)
(* module AsyncRuntime says when it does).  Left out: the executor pool,   *)
(* to which nobody submits work, latencies, and errors of a poll.          *)
(***************************************************************************)
EXTENDS Integers, Sequences

CONSTANTS
    Systems,       \* systems that clients submit, one task each
    PriorityOf,    \* the priority of each task
    Starters,      \* threads that call start, once each: numbers, and since the threads
                   \* are alike, each starts after those with smaller ones
    Stoppers,      \* threads that call stop, once each, numbered likewise
    TimerEvents,   \* events that clients schedule timers for
    MaxTimers      \* bound: timers before clients schedule no more

Kind == {"Start", "Complete", "Yield", "Resume", "Available", "Cancel", "Shutdown"}
LoopPlace == {"out", "refused", "poll", "check", "timers", "dequeue", "process",
              "cleanup", "clear", "stopping", "notify", "done"}
Nobody == "no task"
NoEvent == [kind |-> "none", task |-> Nobody, prio |-> 0]

\* TaskPriority
Normal == 1
Critical == 3

Event == [kind : Kind \ {"Shutdown"}, task : Systems, prio : 0..3]
         \cup [kind : {"Shutdown"}, task : {Nobody}, prio : {Critical}]

ASSUME EventLoopAssumption ==
    /\ PriorityOf \in [Systems -> 0..3]
    /\ Starters \subseteq Nat /\ Stoppers \subseteq Nat
    /\ TimerEvents \subseteq [kind : Kind \ {"Shutdown"}, task : Systems]
    /\ MaxTimers \in Nat

VARIABLES
    events,      \* the event queue, in the order of the timestamps
    pending,     \* pending_events
    active,      \* active_systems
    timers,      \* timers that have not fired, as pairs of an id and an event
    scheduled,   \* scheduled_timers
    nextTimer,   \* next_timer_id
    isRunning,   \* is_running
    shutdown,    \* the flag of shutdown_signal
    loop,        \* where each thread that starts the loop is
    current,     \* the event it processes
    stopper,     \* where each thread that stops it is
    client,      \* where each submission is
    inRuntime,   \* tasks the runtime has and has not completed
    awaited      \* history: the threads in the loop when a stop signals, unless some
                 \* thread is about to take the flag down; forgotten when stop returns

queue == <<events, pending>>
timing == <<timers, scheduled, nextTimer>>
threads == <<loop, current, stopper, client>>
loopVars == <<queue, active, timing, isRunning, shutdown, threads, inRuntime, awaited>>

At(k, place) == loop[k] = place
GoTo(k, place) == loop' = [loop EXCEPT ![k] = place]
InLoop(k) == loop[k] \notin {"out", "refused", "notify", "done"}

\* enqueue_event: the capacity is compared with a list nothing is ever put in,
\* so no event is refused.
Enqueue(kind, t, p) ==
    /\ events' = Append(events, [kind |-> kind, task |-> t, prio |-> p])
    /\ pending' = pending + 1

\* Mutant of Put: the counter is forgotten.
PutOnly(kind, t, p) ==
    /\ events' = Append(events, [kind |-> kind, task |-> t, prio |-> p])
    /\ UNCHANGED pending

\* The events of timers and of what they make known have the normal priority.
Put(kind, t, p) == Enqueue(kind, t, p)

\* saturating_sub(1)
LessOne(n) == IF n = 0 THEN 0 ELSE n - 1

----------------------------------------------------------------------------
(* submit_system, schedule_timer and cancel_timer *)

\* The runtime has the task ...
SubmitToRuntime(t) ==
    /\ client[t] = "new"
    /\ client' = [client EXCEPT ![t] = "submitted"]
    /\ inRuntime' = inRuntime \cup {t}
    /\ UNCHANGED <<queue, active, timing, isRunning, shutdown, loop, current, stopper>>

\* ... before its start is put into the queue.
EnqueueStart(t) ==
    /\ client[t] = "submitted"
    /\ client' = [client EXCEPT ![t] = "done"]
    /\ Enqueue("Start", t, PriorityOf[t])
    /\ UNCHANGED <<active, timing, isRunning, shutdown, loop, current, stopper, inRuntime>>

AddTimer(e) ==
    /\ timers' = timers \cup {<<nextTimer, e>>}
    /\ nextTimer' = nextTimer + 1
    /\ scheduled' = scheduled + 1

ScheduleTimer(e) ==
    /\ nextTimer < MaxTimers
    /\ AddTimer(e)
    /\ UNCHANGED <<queue, active, isRunning, shutdown, threads, inRuntime>>

\* The count is lowered whether or not the timer is still there.
CancelTimer(id) ==
    /\ id < nextTimer
    /\ timers' = {m \in timers : m[1] # id}
    /\ scheduled' = LessOne(scheduled)
    /\ UNCHANGED <<queue, active, nextTimer, isRunning, shutdown, threads, inRuntime>>

----------------------------------------------------------------------------
(* start and run_event_loop *)

Turn(k) == \A l \in Starters : l < k => loop[l] # "out"

\* Mutant of Start: it does not look for a loop that runs.
StartAnyway(k) ==
    /\ At(k, "out") /\ Turn(k)
    /\ isRunning' = TRUE
    /\ GoTo(k, "poll")
    /\ UNCHANGED <<queue, active, timing, shutdown, current, stopper, client, inRuntime>>

Start(k) ==
    /\ At(k, "out") /\ Turn(k)
    /\ isRunning' = TRUE
    /\ GoTo(k, IF isRunning THEN "refused" ELSE "poll")
    /\ UNCHANGED <<queue, active, timing, shutdown, current, stopper, client, inRuntime>>

\* poll_async_runtime: one step of one task, and the completions it drains.
Poll(k) ==
    /\ At(k, "poll")
    /\ \/ UNCHANGED <<queue, inRuntime>>
       \/ \E t \in inRuntime : /\ Enqueue("Complete", t, PriorityOf[t])
                               /\ inRuntime' = inRuntime \ {t}
    /\ GoTo(k, "check")
    /\ UNCHANGED <<active, timing, isRunning, shutdown, current, stopper, client>>

\* Mutant of CheckShutdown: the flag is reset where it is read.
CheckShutdownOnce(k) ==
    /\ At(k, "check")
    /\ shutdown' = FALSE
    /\ GoTo(k, IF shutdown THEN "cleanup" ELSE "timers")
    /\ UNCHANGED <<queue, active, timing, isRunning, current, stopper, client, inRuntime>>

CheckShutdown(k) ==
    /\ At(k, "check")
    /\ GoTo(k, IF shutdown THEN "cleanup" ELSE "timers")
    /\ UNCHANGED <<queue, active, timing, isRunning, shutdown, current, stopper, client, inRuntime>>

\* process_timer_events: some timers have fired, one at a time,
FireTimer(k) ==
    /\ At(k, "timers")
    /\ \E m \in timers : /\ timers' = timers \ {m}
                         /\ Put(m[2].kind, m[2].task, Normal)
    /\ UNCHANGED <<active, scheduled, nextTimer, isRunning, shutdown, threads, inRuntime>>

\* and the others have not, or it is too early to look.
TimersDone(k) ==
    /\ At(k, "timers")
    /\ GoTo(k, "dequeue")
    /\ UNCHANGED <<queue, active, timing, isRunning, shutdown, current, stopper, client, inRuntime>>

\* PriorityEvent::cmp calls the event with the lower priority the greater one,
\* and of two with one priority the later; the heap gives out the greatest.
TakenBefore(i, j) ==
    \/ events[i].prio < events[j].prio
    \/ events[i].prio = events[j].prio /\ i > j

Greatest == {i \in DOMAIN events : \A j \in DOMAIN events : i = j \/ TakenBefore(i, j)}

WithoutIndex(q, i) == SubSeq(q, 1, i - 1) \o SubSeq(q, i + 1, Len(q))

Dequeue(k) ==
    /\ At(k, "dequeue")
    /\ \E i \in Greatest : /\ events' = WithoutIndex(events, i)
                           /\ current' = [current EXCEPT ![k] = events[i]]
    /\ pending' = LessOne(pending)
    /\ GoTo(k, "process")
    /\ UNCHANGED <<active, timing, isRunning, shutdown, stopper, client, inRuntime>>

\* The loop sleeps for a moment when the queue is empty.
Sleep(k) ==
    /\ At(k, "dequeue")
    /\ events = <<>>
    /\ GoTo(k, "poll")
    /\ UNCHANGED <<queue, active, timing, isRunning, shutdown, current, stopper, client, inRuntime>>

\* Back to the top of the loop once the event is dealt with.
Processed(k) ==
    /\ current' = [current EXCEPT ![k] = NoEvent]
    /\ GoTo(k, "poll")
    /\ UNCHANGED <<isRunning, shutdown, stopper, client, inRuntime>>

Processes(k, kinds) == At(k, "process") /\ current[k].kind \in kinds

HandleSystemStart(k) ==
    /\ Processes(k, {"Start"})
    /\ active' = active + 1
    /\ Processed(k) /\ UNCHANGED <<queue, timing>>

\* handle_system_complete and handle_system_cancellation
HandleSystemEnd(k) ==
    /\ Processes(k, {"Complete", "Cancel"})
    /\ active' = LessOne(active)
    /\ Processed(k) /\ UNCHANGED <<queue, timing>>

\* The only yield that does something is a sleep, which ends with a timer.
HandleSystemYield(k) ==
    /\ Processes(k, {"Yield"})
    /\ AddTimer([kind |-> "Resume", task |-> current[k].task])
    /\ Processed(k) /\ UNCHANGED <<queue, active>>

HandleResourceAvailable(k) ==
    /\ Processes(k, {"Available"})
    /\ Put("Resume", current[k].task, Normal)
    /\ Processed(k) /\ UNCHANGED <<active, timing>>

\* Resumptions and shutdown requests change nothing.
HandleOther(k) ==
    /\ Processes(k, {"Resume", "Shutdown"})
    /\ Processed(k) /\ UNCHANGED <<queue, active, timing>>

\* shutdown_cleanup: the timers go, then the events; no counter is reset.
CancelAllTimers(k) ==
    /\ At(k, "cleanup")
    /\ timers' = {}
    /\ GoTo(k, "clear")
    /\ UNCHANGED <<queue, active, scheduled, nextTimer, isRunning, shutdown, current, stopper, client, inRuntime>>

ClearEvents(k) ==
    /\ At(k, "clear")
    /\ events' = <<>>
    /\ GoTo(k, "stopping")
    /\ UNCHANGED <<pending, active, timing, isRunning, shutdown, current, stopper, client, inRuntime>>

MarkStopped(k) ==
    /\ At(k, "stopping")
    /\ isRunning' = FALSE
    /\ GoTo(k, "notify")
    /\ UNCHANGED <<queue, active, timing, shutdown, current, stopper, client, inRuntime>>

\* Mutant of NotifyStopped: the flag is not taken down.
NotifyOnly(k) ==
    /\ At(k, "notify")
    /\ GoTo(k, "done")
    /\ UNCHANGED <<queue, active, timing, isRunning, shutdown, current, stopper, client, inRuntime>>

NotifyStopped(k) ==
    /\ At(k, "notify")
    /\ shutdown' = FALSE
    /\ GoTo(k, "done")
    /\ UNCHANGED <<queue, active, timing, isRunning, current, stopper, client, inRuntime>>

LoopStep(k) ==
    \/ Start(k) \/ Poll(k) \/ CheckShutdown(k) \/ FireTimer(k) \/ TimersDone(k)
    \/ Dequeue(k) \/ Sleep(k)
    \/ HandleSystemStart(k) \/ HandleSystemEnd(k) \/ HandleSystemYield(k)
    \/ HandleResourceAvailable(k) \/ HandleOther(k)
    \/ CancelAllTimers(k) \/ ClearEvents(k) \/ MarkStopped(k) \/ NotifyStopped(k)

----------------------------------------------------------------------------
(* stop *)

\* A thread is about to take the flag down, for an earlier stop.
Crossed == \E k \in Starters : At(k, "notify")

SignalStop(j) ==
    /\ stopper[j] = "out"
    /\ \A i \in Stoppers : i < j => stopper[i] # "out"
    /\ shutdown' = TRUE
    /\ stopper' = [stopper EXCEPT ![j] = "signalled"]
    /\ awaited' = [awaited EXCEPT ![j] = {k \in Starters : InLoop(k) /\ ~Crossed}]
    /\ UNCHANGED <<queue, active, timing, isRunning, loop, current, client, inRuntime>>

RequestShutdown(j) ==
    /\ stopper[j] = "signalled"
    /\ Enqueue("Shutdown", Nobody, Critical)
    /\ stopper' = [stopper EXCEPT ![j] = "waiting"]
    /\ UNCHANGED <<active, timing, isRunning, shutdown, loop, current, client, inRuntime>>

\* wait_while: the flag that stop itself has set is down again.
StopReturn(j) ==
    /\ stopper[j] = "waiting" /\ ~shutdown
    /\ stopper' = [stopper EXCEPT ![j] = "done"]
    /\ awaited' = [awaited EXCEPT ![j] = {}]
    /\ UNCHANGED <<queue, active, timing, isRunning, shutdown, loop, current, client, inRuntime>>

----------------------------------------------------------------------------
LoopInit ==
    /\ events = <<>> /\ pending = 0
    /\ active = 0
    /\ timers = {} /\ scheduled = 0 /\ nextTimer = 0
    /\ isRunning = FALSE /\ shutdown = FALSE
    /\ loop = [k \in Starters |-> "out"]
    /\ current = [k \in Starters |-> NoEvent]
    /\ stopper = [j \in Stoppers |-> "out"]
    /\ client = [t \in Systems |-> "new"]
    /\ inRuntime = {}
    /\ awaited = [j \in Stoppers |-> {}]

Submit(t) == SubmitToRuntime(t) \/ EnqueueStart(t)

Work ==
    \/ \E t \in Systems : Submit(t)
    \/ \E e \in TimerEvents : ScheduleTimer(e)
    \/ \E id \in 0..(2 * MaxTimers - 1) : CancelTimer(id)
    \/ \E k \in Starters : LoopStep(k)
    \/ \E j \in Stoppers : RequestShutdown(j)

LoopNext ==
    \/ Work /\ UNCHANGED awaited
    \/ \E j \in Stoppers : SignalStop(j) \/ StopReturn(j)

LoopSpec == LoopInit /\ [][LoopNext]_loopVars

\* Threads run on when they can; nobody has to submit, to stop or to cancel,
\* but what was begun is not abandoned.
LoopFairness ==
    /\ \A k \in Starters : WF_loopVars(LoopStep(k) /\ UNCHANGED awaited)
    /\ \A t \in Systems : WF_loopVars(EnqueueStart(t) /\ UNCHANGED awaited)
    /\ \A j \in Stoppers : WF_loopVars(RequestShutdown(j) /\ UNCHANGED awaited) /\ WF_loopVars(StopReturn(j))

FairLoopSpec == LoopSpec /\ LoopFairness

----------------------------------------------------------------------------
(* Properties *)

LoopTypeOK ==
    /\ events \in Seq(Event) /\ pending \in Nat
    /\ active \in Nat
    /\ timers \subseteq Nat \X [kind : Kind \ {"Shutdown"}, task : Systems]
    /\ scheduled \in Nat /\ nextTimer \in Nat
    /\ isRunning \in BOOLEAN /\ shutdown \in BOOLEAN
    /\ loop \in [Starters -> LoopPlace]
    /\ current \in [Starters -> Event \cup {NoEvent}]
    /\ \A k \in Starters : At(k, "process") => current[k] \in Event
    /\ stopper \in [Stoppers -> {"out", "signalled", "waiting", "done"}]
    /\ client \in [Systems -> {"new", "submitted", "done"}]
    /\ inRuntime \subseteq Systems
    /\ awaited \in [Stoppers -> SUBSET Starters]

\* However often it is started and stopped, at most one thread runs the loop.
OneLoop == \A k, l \in Starters : InLoop(k) /\ InLoop(l) => k = l

\* pending_events says what the queue holds until a loop that ends clears the queue; the
\* counter is not reset, and never reads less than the queue holds from then on.
NoneCleared == \A k \in Starters : loop[k] \notin {"stopping", "notify", "done"}
PendingCovers ==
    /\ Len(events) <= pending
    /\ NoneCleared => Len(events) = pending

\* When stop returns, every thread that was in the loop as it signalled has left it, although
\* other threads start the loop and stop it all the while and the flag goes up and down.
\* A stop that signals while a thread is about to take the flag down for an earlier one may
\* lose its signal and return while a loop runs on: it awaits nothing here.
StopIsComplete ==
    [][\A j \in Stoppers : StopReturn(j) => \A k \in awaited[j] : ~InLoop(k)]_loopVars

\* Events are taken by their priority, the highest first, and those of one priority in the
\* order of their timestamps, as the comment on the comparison of events says.  The heap
\* gives out the greatest, and cmp is written for one that gives out the least.
Before(i, j) ==
    \/ events[i].prio > events[j].prio
    \/ events[i].prio = events[j].prio /\ i < j
Taken(k, i) == Dequeue(k) /\ events' = WithoutIndex(events, i) /\ current'[k] = events[i]
EventsInOrder ==
    [][\A k \in Starters : Dequeue(k) =>
           \E i \in DOMAIN events : Taken(k, i) /\ \A j \in DOMAIN events : i = j \/ Before(i, j)]_loopVars

\* A call of stop that finds a loop returns when the loop ends, unless by then another call
\* has raised the flag again and no loop is left to take it down.
LoopThere == \E k \in Starters : loop[k] \notin {"out", "refused", "done"}
RaisedAgain(j) == ~LoopThere /\ \E i \in Stoppers \ {j} : stopper[i] \in {"signalled", "waiting"}
StopReturns ==
    \A j \in Stoppers :
        stopper[j] = "waiting" /\ LoopThere ~> stopper[j] = "done" \/ RaisedAgain(j)

============================================================================
