--------------------------- MODULE EventLoopProofs ---------------------------
(* Theorems about EventLoop for any number of tasks, timers and threads. *)
EXTENDS EventLoop, SequenceTheorems, TLAPS

----------------------------------------------------------------------------
(* Types *)

\* A queue that loses one of its events is a queue, shorter by one.
LEMMA WithoutIndexType ==
    ASSUME NEW S, NEW q \in Seq(S), NEW i \in DOMAIN q
    PROVE  /\ WithoutIndex(q, i) \in Seq(S)
           /\ Len(WithoutIndex(q, i)) = Len(q) - 1
<1> DEFINE front == SubSeq(q, 1, i - 1)
           back == SubSeq(q, i + 1, Len(q))
<1>1. Len(q) \in Nat /\ i \in 1..Len(q)
  OBVIOUS
<1>2. front \in Seq(S) /\ Len(front) = i - 1
  <2>1. \A j \in 1..(i - 1) : q[j] \in S
    BY <1>1
  <2>2. Len(front) = (IF 1 <= i - 1 THEN (i - 1) - 1 + 1 ELSE 0)
    BY <1>1, SubSeqProperties
  <2>3. QED
    BY <1>1, <2>1, <2>2, SubSeqProperties
<1>3. back \in Seq(S) /\ Len(back) = Len(q) - i
  BY <1>1, SubSeqProperties
<1>4. WithoutIndex(q, i) = front \o back
  BY DEF WithoutIndex
<1> HIDE DEF front, back
<1>5. front \o back \in Seq(S) /\ Len(front \o back) = Len(front) + Len(back)
  BY <1>2, <1>3, ConcatProperties
<1>6. QED
  BY <1>1, <1>2, <1>3, <1>4, <1>5

LEMMA EnqueueType ==
    ASSUME events \in Seq(Event), pending \in Nat, Len(events) <= pending,
           NEW kind, NEW t, NEW p, [kind |-> kind, task |-> t, prio |-> p] \in Event,
           Enqueue(kind, t, p)
    PROVE  events' \in Seq(Event) /\ pending' \in Nat /\ Len(events') <= pending'
<1> DEFINE e == [kind |-> kind, task |-> t, prio |-> p]
<1>1. events' = Append(events, e) /\ pending' = pending + 1
  BY DEF Enqueue
<1> HIDE DEF e
<1>2. e \in Event
  BY DEF e
<1>3. QED
  BY <1>1, <1>2

\* An event that a timer or a resource makes known.
LEMMA PutType ==
    ASSUME events \in Seq(Event), pending \in Nat, Len(events) <= pending,
           NEW kind \in Kind \ {"Shutdown"}, NEW t \in Systems, Put(kind, t, Normal)
    PROVE  events' \in Seq(Event) /\ pending' \in Nat /\ Len(events') <= pending'
<1>1. [kind |-> kind, task |-> t, prio |-> Normal] \in Event
  BY DEF Event, Normal
<1>2. QED
  BY <1>1, EnqueueType DEF Put

LEMMA AddTimerType ==
    ASSUME LoopTypeOK, NEW e \in [kind : Kind \ {"Shutdown"}, task : Systems], AddTimer(e)
    PROVE  /\ timers' \subseteq Nat \X [kind : Kind \ {"Shutdown"}, task : Systems]
           /\ scheduled' \in Nat /\ nextTimer' \in Nat
BY DEF LoopTypeOK, AddTimer

Covers == Len(events) <= pending
Exact == NoneCleared => Len(events) = pending
Inv == LoopTypeOK /\ Covers

LEMMA InvInit == LoopInit => Inv
<1> SUFFICES ASSUME LoopInit PROVE LoopTypeOK /\ Covers
  BY DEF Inv
<1>1. events \in Seq(Event) /\ Len(events) = 0 /\ pending = 0
  BY DEF LoopInit
<1>2. \A k \in Starters : ~At(k, "process")
  BY DEF LoopInit, At
<1>3. /\ loop \in [Starters -> LoopPlace] /\ current \in [Starters -> Event \cup {NoEvent}]
      /\ timers \subseteq Nat \X [kind : Kind \ {"Shutdown"}, task : Systems]
      /\ inRuntime \subseteq Systems
      /\ stopper \in [Stoppers -> {"out", "signalled", "waiting", "done"}]
      /\ client \in [Systems -> {"new", "submitted", "done"}]
      /\ awaited \in [Stoppers -> SUBSET Starters]
  BY DEF LoopInit, LoopPlace
<1>4. /\ active \in Nat /\ scheduled \in Nat /\ nextTimer \in Nat
      /\ isRunning \in BOOLEAN /\ shutdown \in BOOLEAN
  BY DEF LoopInit
<1>5. Covers
  BY <1>1 DEF Covers
<1>6. QED
  BY <1>1, <1>2, <1>3, <1>4, <1>5 DEF LoopTypeOK

\* The thread k goes on to a place where it processes no event.
LEMMA GoToType ==
    ASSUME LoopTypeOK, NEW k \in Starters, NEW place \in LoopPlace \ {"process"}, GoTo(k, place),
           current' = current \/ current' = [current EXCEPT ![k] = NoEvent]
    PROVE  /\ loop' \in [Starters -> LoopPlace]
           /\ current' \in [Starters -> Event \cup {NoEvent}]
           /\ \A l \in Starters : At(l, "process")' => current'[l] \in Event
BY DEF LoopTypeOK, GoTo, At

\* Steps of the loop that leave the queue as it is, and the steps of the others.
LEMMA QuietType ==
    ASSUME Inv, UNCHANGED awaited, NEW k \in Starters,
           \/ Start(k) \/ CheckShutdown(k) \/ TimersDone(k) \/ Sleep(k) \/ HandleSystemStart(k)
           \/ HandleSystemEnd(k) \/ HandleOther(k) \/ CancelAllTimers(k) \/ ClearEvents(k)
           \/ MarkStopped(k) \/ NotifyStopped(k)
    PROVE  Inv'
<1> USE DEF Inv, LoopTypeOK
<1>1. /\ loop' \in [Starters -> LoopPlace]
      /\ current' \in [Starters -> Event \cup {NoEvent}]
      /\ \A l \in Starters : At(l, "process")' => current'[l] \in Event
  <2>1. /\ \E place \in LoopPlace \ {"process"} : GoTo(k, place)
        /\ current' = current \/ current' = [current EXCEPT ![k] = NoEvent]
    BY DEF Start, CheckShutdown, TimersDone, Sleep, HandleSystemStart, HandleSystemEnd, HandleOther,
           CancelAllTimers, ClearEvents, MarkStopped, NotifyStopped, Processed, LoopPlace
  <2>2. QED
    BY <2>1, GoToType
<1>2. active' \in Nat
  <2>1. active' \in {active, active + 1, LessOne(active)}
    BY DEF Start, CheckShutdown, TimersDone, Sleep, HandleSystemStart, HandleSystemEnd, HandleOther,
           CancelAllTimers, ClearEvents, MarkStopped, NotifyStopped
  <2>2. QED
    BY <2>1 DEF LessOne
<1>3. /\ UNCHANGED <<stopper, client, inRuntime, pending, scheduled, nextTimer>>
      /\ isRunning' \in BOOLEAN /\ shutdown' \in BOOLEAN
      /\ timers' = timers \/ timers' = {}
      /\ events' = events \/ events' = <<>>
  BY DEF Start, CheckShutdown, TimersDone, Sleep, HandleSystemStart, HandleSystemEnd, HandleOther,
         CancelAllTimers, ClearEvents, MarkStopped, NotifyStopped, Processed,
         queue, timing, threads
<1>4. events' \in Seq(Event) /\ Len(events') <= pending'
  <2>1. CASE events' = events
    BY <1>3, <2>1 DEF Covers
  <2>2. CASE events' = <<>>
    <3>1. <<>> \in Seq(Event) /\ Len(<<>>) = 0
      OBVIOUS
    <3>2. QED
      BY <1>3, <2>2, <3>1
  <2>3. QED
    BY <1>3, <2>1, <2>2
<1>5. QED
  BY <1>1, <1>2, <1>3, <1>4 DEF Covers

\* Steps of the loop that put an event into the queue, or take one out.
LEMMA BusyType ==
    ASSUME Inv, UNCHANGED awaited, NEW k \in Starters,
           \/ Poll(k) \/ FireTimer(k) \/ Dequeue(k)
           \/ HandleSystemYield(k) \/ HandleResourceAvailable(k)
    PROVE  Inv'
<1> USE DEF Inv
<1>0. events \in Seq(Event) /\ pending \in Nat /\ Len(events) <= pending
  BY DEF LoopTypeOK, Covers
<1>1. CASE Poll(k)
  <2>1. /\ events' \in Seq(Event) /\ pending' \in Nat /\ Len(events') <= pending'
        /\ inRuntime' \subseteq Systems
    <3>1. CASE UNCHANGED <<queue, inRuntime>>
      BY <1>0, <3>1 DEF queue, LoopTypeOK
    <3>2. ASSUME NEW t \in inRuntime, Enqueue("Complete", t, PriorityOf[t]), inRuntime' = inRuntime \ {t}
          PROVE  /\ events' \in Seq(Event) /\ pending' \in Nat /\ Len(events') <= pending'
                 /\ inRuntime' \subseteq Systems
      <4>1. [kind |-> "Complete", task |-> t, prio |-> PriorityOf[t]] \in Event
        BY EventLoopAssumption DEF LoopTypeOK, Event, Kind
      <4>2. QED
        BY <1>0, <3>2, <4>1, EnqueueType DEF LoopTypeOK
    <3>3. QED
      BY <1>1, <3>1, <3>2 DEF Poll
  <2>2. /\ loop' \in [Starters -> LoopPlace]
        /\ \A l \in Starters : At(l, "process")' => current'[l] \in Event
    BY <1>1, GoToType DEF Poll, LoopPlace
  <2>3. QED
    BY <1>1, <2>1, <2>2 DEF Poll, LoopTypeOK, Covers, timing
<1>2. CASE FireTimer(k)
  <2>1. PICK m \in timers : timers' = timers \ {m} /\ Put(m[2].kind, m[2].task, Normal)
    BY <1>2 DEF FireTimer
  <2>2. m[2].kind \in Kind \ {"Shutdown"} /\ m[2].task \in Systems
    BY DEF LoopTypeOK
  <2>3. events' \in Seq(Event) /\ pending' \in Nat /\ Len(events') <= pending'
    BY <1>0, <2>1, <2>2, PutType
  <2>4. QED
    BY <1>2, <2>1, <2>3 DEF FireTimer, LoopTypeOK, Covers, threads, At
<1>3. CASE Dequeue(k)
  <2>1. PICK i \in DOMAIN events : /\ events' = WithoutIndex(events, i)
                                   /\ current' = [current EXCEPT ![k] = events[i]]
    BY <1>3 DEF Dequeue, Greatest
  <2>2. events' \in Seq(Event) /\ Len(events') = Len(events) - 1
    BY <1>0, <2>1, WithoutIndexType
  <2>3. pending' \in Nat /\ Len(events') <= pending'
    <3>1. Len(events) \in Nat /\ Len(events) >= 1 /\ pending' = LessOne(pending)
      BY <1>0, <1>3 DEF Dequeue
    <3>2. QED
      BY <1>0, <2>2, <3>1 DEF LessOne
  <2>4. events[i] \in Event
    BY <1>0
  <2>5. /\ loop' \in [Starters -> LoopPlace]
        /\ current' \in [Starters -> Event \cup {NoEvent}]
        /\ \A l \in Starters : At(l, "process")' => current'[l] \in Event
    BY <1>3, <2>1, <2>4 DEF Dequeue, LoopTypeOK, GoTo, At, LoopPlace
  <2>6. QED
    BY <1>3, <2>2, <2>3, <2>5 DEF Dequeue, LoopTypeOK, Covers, timing
<1>4. CASE HandleSystemYield(k) \/ HandleResourceAvailable(k)
  <2>1. current[k].task \in Systems
    BY <1>4 DEF HandleSystemYield, HandleResourceAvailable, Processes, LoopTypeOK, Event
  <2>2. /\ loop' \in [Starters -> LoopPlace]
        /\ current' \in [Starters -> Event \cup {NoEvent}]
        /\ \A l \in Starters : At(l, "process")' => current'[l] \in Event
    BY <1>4, GoToType DEF HandleSystemYield, HandleResourceAvailable, Processed, LoopPlace
  <2>3. CASE HandleSystemYield(k)
    <3>1. [kind |-> "Resume", task |-> current[k].task] \in [kind : Kind \ {"Shutdown"}, task : Systems]
      BY <2>1 DEF Kind
    <3>2. /\ timers' \subseteq Nat \X [kind : Kind \ {"Shutdown"}, task : Systems]
          /\ scheduled' \in Nat /\ nextTimer' \in Nat
      BY <2>3, <3>1, AddTimerType DEF HandleSystemYield
    <3>3. QED
      BY <2>2, <2>3, <3>2 DEF HandleSystemYield, Processed, LoopTypeOK, Covers, queue
  <2>4. CASE HandleResourceAvailable(k)
    <3>1. events' \in Seq(Event) /\ pending' \in Nat /\ Len(events') <= pending'
      BY <1>0, <2>1, <2>4, PutType DEF HandleResourceAvailable, Kind
    <3>2. QED
      BY <2>2, <2>4, <3>1 DEF HandleResourceAvailable, Processed, LoopTypeOK, Covers, timing
  <2>5. QED
    BY <1>4, <2>3, <2>4
<1>5. QED
  BY <1>1, <1>2, <1>3, <1>4

\* The steps of clients, and requests for a shutdown.
LEMMA OthersType ==
    ASSUME Inv, UNCHANGED awaited,
           \/ \E t \in Systems : Submit(t)
           \/ \E e \in TimerEvents : ScheduleTimer(e)
           \/ \E id \in Nat : CancelTimer(id)
           \/ \E j \in Stoppers : RequestShutdown(j)
    PROVE  Inv'
<1> USE DEF Inv
<1>0. events \in Seq(Event) /\ pending \in Nat /\ Len(events) <= pending
  BY DEF LoopTypeOK, Covers
<1>1. ASSUME NEW t \in Systems, SubmitToRuntime(t) PROVE Inv'
  BY <1>1 DEF SubmitToRuntime, LoopTypeOK, Covers, queue, timing, At
<1>2. ASSUME NEW t \in Systems, EnqueueStart(t) PROVE Inv'
  <2>1. [kind |-> "Start", task |-> t, prio |-> PriorityOf[t]] \in Event
    BY EventLoopAssumption DEF Event, Kind
  <2>2. events' \in Seq(Event) /\ pending' \in Nat /\ Len(events') <= pending'
    BY <1>0, <1>2, <2>1, EnqueueType DEF EnqueueStart
  <2>3. QED
    BY <1>2, <2>2 DEF EnqueueStart, LoopTypeOK, Covers, timing, At
<1>3. ASSUME NEW e \in TimerEvents, ScheduleTimer(e) PROVE Inv'
  <2>1. /\ timers' \subseteq Nat \X [kind : Kind \ {"Shutdown"}, task : Systems]
        /\ scheduled' \in Nat /\ nextTimer' \in Nat
    BY <1>3, AddTimerType, EventLoopAssumption DEF ScheduleTimer
  <2>2. QED
    BY <1>3, <2>1 DEF ScheduleTimer, LoopTypeOK, Covers, queue, threads, At
<1>4. ASSUME NEW id \in Nat, CancelTimer(id) PROVE Inv'
  <2>1. timers' \subseteq timers /\ scheduled' \in Nat
    BY <1>4 DEF CancelTimer, LoopTypeOK, LessOne
  <2>2. QED
    BY <1>4, <2>1 DEF CancelTimer, LoopTypeOK, Covers, queue, threads, At
<1>5. ASSUME NEW j \in Stoppers, RequestShutdown(j) PROVE Inv'
  <2>1. [kind |-> "Shutdown", task |-> Nobody, prio |-> Critical] \in Event
    BY DEF Event
  <2>2. events' \in Seq(Event) /\ pending' \in Nat /\ Len(events') <= pending'
    BY <1>0, <1>5, <2>1, EnqueueType DEF RequestShutdown
  <2>3. QED
    BY <1>5, <2>2 DEF RequestShutdown, LoopTypeOK, Covers, timing, At
<1>6. QED
  BY <1>1, <1>2, <1>3, <1>4, <1>5 DEF Submit

LEMMA StopType ==
    ASSUME Inv, NEW j \in Stoppers, SignalStop(j) \/ StopReturn(j)
    PROVE  Inv'
<1>1. awaited' \in [Stoppers -> SUBSET Starters] /\ stopper' \in [Stoppers -> {"out", "signalled", "waiting", "done"}]
  BY DEF SignalStop, StopReturn, Inv, LoopTypeOK
<1>2. QED
  BY <1>1 DEF SignalStop, StopReturn, Inv, LoopTypeOK, Covers, queue, timing, At

LEMMA InvStep == Inv /\ [LoopNext]_loopVars => Inv'
<1> SUFFICES ASSUME Inv, [LoopNext]_loopVars PROVE Inv'
  OBVIOUS
<1>1. ASSUME NEW k \in Starters, LoopStep(k), UNCHANGED awaited PROVE Inv'
  BY <1>1, QuietType, BusyType DEF LoopStep
<1>2. CASE Work /\ UNCHANGED awaited
  <2>1. ASSUME NEW id \in 0..(2 * MaxTimers - 1), CancelTimer(id) PROVE Inv'
    BY <1>2, <2>1, OthersType
  <2>2. QED
    BY <1>1, <1>2, <2>1, OthersType DEF Work
<1>3. CASE UNCHANGED loopVars
  BY <1>3 DEF Inv, LoopTypeOK, Covers, loopVars, queue, timing, threads, At
<1>4. QED
  BY <1>2, <1>3, StopType DEF LoopNext

\* All variables keep their types.
THEOREM TypeCorrect == LoopSpec => []LoopTypeOK
BY InvInit, InvStep, PTL DEF LoopSpec, Inv

\* Until a loop clears the queue, a step leaves both as they are, or adds one to both, or takes
\* one from both.
QueueStep ==
    \/ UNCHANGED <<events, pending>>
    \/ \E e : events' = Append(events, e) /\ pending' = pending + 1
    \/ \E i \in DOMAIN events : events' = WithoutIndex(events, i) /\ pending' = LessOne(pending)

LEMMA LoopQueueStep ==
    ASSUME LoopTypeOK, NEW k \in Starters, LoopStep(k), NoneCleared'
    PROVE  NoneCleared /\ QueueStep
<1>1. ~ClearEvents(k) /\ ~MarkStopped(k) /\ ~NotifyStopped(k)
  BY DEF NoneCleared, ClearEvents, MarkStopped, NotifyStopped, GoTo, LoopTypeOK
<1>2. QueueStep
  <2>1. CASE Poll(k) \/ FireTimer(k) \/ HandleResourceAvailable(k)
    BY <2>1 DEF Poll, FireTimer, HandleResourceAvailable, Put, Enqueue, QueueStep, queue
  <2>2. CASE Dequeue(k)
    BY <2>2 DEF Dequeue, Greatest, QueueStep
  <2>3. CASE ~Poll(k) /\ ~FireTimer(k) /\ ~HandleResourceAvailable(k) /\ ~Dequeue(k)
    BY <1>1, <2>3 DEF LoopStep, Start, CheckShutdown, TimersDone, Sleep, HandleSystemStart, HandleSystemEnd,
                      HandleSystemYield, HandleOther, CancelAllTimers, QueueStep, queue
  <2>4. QED
    BY <2>1, <2>2, <2>3
<1>3. NoneCleared
  <2>1. /\ loop[k] \notin {"stopping", "notify", "done"}
        /\ UNCHANGED loop \/ \E place \in LoopPlace : GoTo(k, place)
    BY <1>1 DEF LoopStep, Start, Poll, CheckShutdown, FireTimer, TimersDone, Dequeue, Sleep, HandleSystemStart,
                HandleSystemEnd, HandleSystemYield, HandleResourceAvailable, HandleOther, Processes, Processed,
                CancelAllTimers, At, LoopPlace, threads
  <2>2. QED
    BY <2>1 DEF NoneCleared, GoTo, LoopTypeOK
<1>4. QED
  BY <1>2, <1>3

LEMMA NextQueueStep ==
    ASSUME LoopTypeOK, [LoopNext]_loopVars, NoneCleared'
    PROVE  NoneCleared /\ QueueStep
<1>1. CASE UNCHANGED loopVars
  BY <1>1 DEF loopVars, queue, threads, NoneCleared, QueueStep
<1>2. ASSUME NEW k \in Starters, LoopStep(k) PROVE NoneCleared /\ QueueStep
  BY <1>2, LoopQueueStep
<1>3. CASE /\ UNCHANGED loop
           /\ \/ UNCHANGED queue
              \/ \E t \in Systems : Enqueue("Start", t, PriorityOf[t])
              \/ Enqueue("Shutdown", Nobody, Critical)
  BY <1>3 DEF NoneCleared, QueueStep, Enqueue, queue
<1>4. QED
  BY <1>1, <1>2, <1>3 DEF LoopNext, Work, Submit, SubmitToRuntime, EnqueueStart, ScheduleTimer, CancelTimer,
                          SignalStop, RequestShutdown, StopReturn, threads

LEMMA ExactStep == Inv /\ Exact /\ [LoopNext]_loopVars => Exact'
<1> SUFFICES ASSUME Inv, Exact, [LoopNext]_loopVars, NoneCleared' PROVE Len(events') = pending'
  BY DEF Exact
<1>1. events \in Seq(Event) /\ Len(events) \in Nat /\ Len(events) = pending /\ QueueStep
  BY NextQueueStep DEF Inv, LoopTypeOK, Exact
<1>2. ASSUME NEW e, events' = Append(events, e), pending' = pending + 1 PROVE Len(events') = pending'
  <2>1. events \in Seq(Event \cup {e})
    BY <1>1
  <2>2. QED
    BY <1>1, <1>2, <2>1
<1>3. ASSUME NEW i \in DOMAIN events, events' = WithoutIndex(events, i), pending' = LessOne(pending)
      PROVE  Len(events') = pending'
  <2>1. Len(events') = Len(events) - 1 /\ Len(events) # 0
    BY <1>1, <1>3, WithoutIndexType
  <2>2. QED
    BY <1>1, <1>3, <2>1 DEF LessOne
<1>4. QED
  BY <1>1, <1>2, <1>3 DEF QueueStep

\* The counter of events that wait says what the queue holds until a loop that ends clears the
\* queue, and never reads less afterwards.
THEOREM PendingCoversHolds == LoopSpec => []PendingCovers
<1>1. LoopInit => Exact
  BY DEF LoopInit, Exact
<1>2. Inv /\ Exact => PendingCovers
  BY DEF Inv, Covers, Exact, PendingCovers
<1>3. QED
  BY <1>1, <1>2, InvInit, InvStep, ExactStep, PTL DEF LoopSpec

----------------------------------------------------------------------------
(* One loop *)

\* The flag is up while a thread is in the loop; so a second one is refused.
Flagged == \A k \in Starters : InLoop(k) => isRunning

LEMMA LoopStepKinds ==
    ASSUME LoopTypeOK, Work
    PROVE  \/ UNCHANGED <<loop, isRunning, shutdown>>
           \/ \E k \in Starters : Start(k)
           \/ \E k \in Starters : MarkStopped(k)
           \/ \E k \in Starters : NotifyStopped(k)
           \/ \E k \in Starters : /\ InLoop(k) /\ loop'[k] \notin {"notify", "out"} /\ UNCHANGED <<isRunning, shutdown>>
                                  /\ \A l \in Starters \ {k} : loop'[l] = loop[l]
<1>1. ASSUME NEW k \in Starters, LoopStep(k), ~Start(k), ~MarkStopped(k), ~NotifyStopped(k)
      PROVE  /\ InLoop(k) /\ loop'[k] \notin {"notify", "out"} /\ UNCHANGED <<isRunning, shutdown>>
             /\ \A l \in Starters \ {k} : loop'[l] = loop[l]
  <2>1. InLoop(k)
    BY <1>1 DEF LoopStep, Poll, CheckShutdown, FireTimer, TimersDone, Dequeue, Sleep, HandleSystemStart,
                HandleSystemEnd, HandleSystemYield, HandleResourceAvailable, HandleOther, Processes,
                CancelAllTimers, ClearEvents, At, InLoop
  <2>2. /\ UNCHANGED <<isRunning, shutdown>>
        /\ UNCHANGED loop \/ \E place \in LoopPlace \ {"notify", "out"} : GoTo(k, place)
    BY <1>1 DEF LoopStep, Poll, CheckShutdown, FireTimer, TimersDone, Dequeue, Sleep, HandleSystemStart,
                HandleSystemEnd, HandleSystemYield, HandleResourceAvailable, HandleOther, Processed,
                CancelAllTimers, ClearEvents, LoopPlace, threads
  <2>3. QED
    BY <2>1, <2>2 DEF GoTo, LoopTypeOK, InLoop
<1>2. QED
  BY <1>1 DEF Work, Submit, SubmitToRuntime, EnqueueStart, ScheduleTimer, CancelTimer, RequestShutdown, threads

LEMMA OneLoopStep == Inv /\ OneLoop /\ Flagged /\ [LoopNext]_loopVars => OneLoop' /\ Flagged'
<1> SUFFICES ASSUME LoopTypeOK, OneLoop, Flagged, [LoopNext]_loopVars PROVE OneLoop' /\ Flagged'
  BY DEF Inv
<1> USE DEF OneLoop, Flagged, InLoop
<1>1. CASE UNCHANGED <<loop, isRunning>>
  BY <1>1
<1>2. ASSUME NEW k \in Starters, Start(k) PROVE OneLoop' /\ Flagged'
  BY <1>2 DEF Start, GoTo, LoopTypeOK
<1>3. ASSUME NEW k \in Starters, MarkStopped(k) PROVE OneLoop' /\ Flagged'
  BY <1>3 DEF MarkStopped, At, GoTo, LoopTypeOK
<1>4. ASSUME NEW k \in Starters, NotifyStopped(k) PROVE OneLoop' /\ Flagged'
  BY <1>4 DEF NotifyStopped, At, GoTo, LoopTypeOK
<1>5. ASSUME NEW k \in Starters, InLoop(k), UNCHANGED isRunning,
             \A l \in Starters \ {k} : loop'[l] = loop[l]
      PROVE  OneLoop' /\ Flagged'
  BY <1>5
<1>6. QED
  BY <1>1, <1>2, <1>3, <1>4, <1>5, LoopStepKinds DEF LoopNext, SignalStop, StopReturn, loopVars, threads

\* However often and by however many threads the loop is started (start) and stopped
\* (run_event_loop, shutdown_cleanup), at most one thread is in it.
THEOREM OneLoopHolds == LoopSpec => []OneLoop
<1>1. LoopInit => OneLoop /\ Flagged
  BY DEF LoopInit, OneLoop, Flagged, InLoop
<1>2. QED
  BY <1>1, InvInit, InvStep, OneLoopStep, PTL DEF LoopSpec

----------------------------------------------------------------------------
(* Stops *)

\* While a thread that a stop awaits is in the loop, the flag is up and nobody is about to take
\* it down.
Held ==
    \A j \in Stoppers : \A k \in awaited[j] : At(k, "out") \/ InLoop(k) => shutdown /\ ~Crossed /\ InLoop(k)

LEMMA HeldWork == Inv /\ OneLoop /\ Held /\ Work /\ UNCHANGED awaited => Held'
<1> SUFFICES ASSUME LoopTypeOK, OneLoop, Held, Work, UNCHANGED awaited PROVE Held'
  BY DEF Inv
<1> USE DEF Held, Crossed, InLoop, At
<1>0. \A j \in Stoppers : awaited[j] \subseteq Starters
  BY DEF LoopTypeOK
<1>1. CASE UNCHANGED <<loop, isRunning, shutdown>>
  BY <1>1
<1>2. ASSUME NEW l \in Starters, Start(l) PROVE Held'
  BY <1>0, <1>2 DEF Start, GoTo, LoopTypeOK
<1>3. ASSUME NEW l \in Starters, MarkStopped(l) PROVE Held'
  BY <1>0, <1>3 DEF MarkStopped, GoTo, LoopTypeOK, OneLoop
<1>4. ASSUME NEW l \in Starters, NotifyStopped(l) PROVE Held'
  BY <1>0, <1>4 DEF NotifyStopped, GoTo, LoopTypeOK
<1>5. ASSUME NEW l \in Starters, InLoop(l), loop'[l] \notin {"notify", "out"}, UNCHANGED <<isRunning, shutdown>>,
             \A m \in Starters \ {l} : loop'[m] = loop[m]
      PROVE  Held'
  BY <1>0, <1>5
<1>6. QED
  BY <1>1, <1>2, <1>3, <1>4, <1>5, LoopStepKinds

LEMMA HeldStep == Inv /\ OneLoop /\ Held /\ [LoopNext]_loopVars => Held'
<1> SUFFICES ASSUME Inv, OneLoop, Held, [LoopNext]_loopVars PROVE Held'
  OBVIOUS
<1>1. ASSUME NEW j \in Stoppers, SignalStop(j) PROVE Held'
  BY <1>1 DEF SignalStop, Held, Crossed, InLoop, At, Inv, LoopTypeOK
<1>2. ASSUME NEW j \in Stoppers, StopReturn(j) PROVE Held'
  BY <1>2 DEF StopReturn, Held, Crossed, InLoop, At, Inv, LoopTypeOK
<1>3. CASE UNCHANGED loopVars
  BY <1>3 DEF loopVars, threads, Held, Crossed, InLoop, At
<1>4. QED
  BY <1>1, <1>2, <1>3, HeldWork DEF LoopNext

\* When stop returns (stop, shutdown_cleanup), every thread that was in the loop as it signalled
\* has left it, however often other threads start the loop and stop it; only a stop that signals
\* while a thread is about to take the flag down for an earlier one awaits nothing.
THEOREM StopIsCompleteHolds == LoopSpec => StopIsComplete
<1>1. LoopInit => OneLoop /\ Flagged /\ Held
  BY DEF LoopInit, OneLoop, Flagged, InLoop, Held
<1>2. Held /\ [LoopNext]_loopVars =>
          [\A j \in Stoppers : StopReturn(j) => \A k \in awaited[j] : ~InLoop(k)]_loopVars
  BY DEF Held, StopReturn
<1>3. QED
  BY <1>1, <1>2, InvInit, InvStep, OneLoopStep, HeldStep, PTL DEF LoopSpec, StopIsComplete

==============================================================================
