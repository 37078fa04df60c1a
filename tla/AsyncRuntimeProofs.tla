------------------------- MODULE AsyncRuntimeProofs -------------------------
(* Theorems about AsyncRuntime for any number of tasks, loops, systems and *)
(* resources, and whatever the switches say.                               *)
EXTENDS AsyncRuntime, ResourceTrackerProofs, SequenceTheorems

----------------------------------------------------------------------------
(* Types *)

Entry == [pc : TickerPlace, task : Tasks \cup {NoTask}]

\* What a loop does to its own entry.
LEMMA GoToEffect ==
    ASSUME ticker \in [Tickers -> Entry], NEW k \in Tickers, NEW place \in TickerPlace,
           GoTo(k, place)
    PROVE  /\ ticker' \in [Tickers -> Entry]
           /\ ticker'[k].pc = place
           /\ \A l \in Tickers : ticker'[l].task = ticker[l].task
           /\ \A l \in Tickers \ {k} : ticker'[l] = ticker[l]
BY DEF GoTo, Entry

LEMMA RestEffect ==
    ASSUME ticker \in [Tickers -> Entry], NEW k \in Tickers, Rest(k)
    PROVE  /\ ticker' \in [Tickers -> Entry]
           /\ ticker'[k].pc \in {"idle", "drain"} /\ ticker'[k].task = NoTask
           /\ \A l \in Tickers \ {k} : ticker'[l] = ticker[l]
BY DEF Rest, Entry, TickerPlace

LEMMA ClaimsType ==
    ASSUME NEW t \in Tasks
    PROVE  /\ SystemOf[t] \in Systems
           /\ SystemClaims(t) \in SUBSET Claim
           /\ Granted(t) \in SUBSET Claim
           /\ Granted(t) \subseteq SystemClaims(t)
           /\ \A c \in Granted(t) : CanAccess(tracker, c[1], SystemOf[t], c[2])
<1> DEFINE ps == Parameters[SystemOf[t]]
<1>1. SystemOf[t] \in Systems /\ ps \in Seq(Claim)
  BY RuntimeAssumption
<1>2. \A i \in DOMAIN ps : ps[i] \in Claim /\ i \in Nat /\ i >= 1
  BY <1>1
<1>3. SystemClaims(t) = {ps[i] : i \in DOMAIN ps}
  BY DEF SystemClaims
<1>4. Granted(t) = {ps[i] : i \in {j \in DOMAIN ps :
                       \A n \in 1..j : CanAccess(tracker, ps[n][1], SystemOf[t], ps[n][2])}}
  BY DEF Granted
<1> HIDE DEF ps
<1>5. QED
  BY <1>1, <1>2, <1>3, <1>4

\* What a release leaves is a borrow table again.
LEMMA ReleaseTaskType ==
    ASSUME TypeOK, NEW t \in Tasks
    PROVE  ReleaseTask(t) \in Tracker
BY ClaimsType, TrackerType DEF ReleaseTask, TypeOK

LEMMA TypeInit == Init => TypeOK
BY RuntimeAssumption
   DEF Init, TypeOK, EmptyTracker, Tracker, TickerPlace, CancelPlace, ClientPlace, Result

LEMMA ClientType ==
    ASSUME TypeOK, NEW t \in Tasks, Client(t)
    PROVE  TypeOK'
<1> USE DEF TypeOK, ClientPlace, Result, TaskState
<1>1. CASE RegisterTask(t)
  BY <1>1 DEF RegisterTask
<1>2. CASE EnqueueTask(t)
  BY <1>2 DEF EnqueueTask
<1>3. CASE AttachPlan(t)
  BY <1>3 DEF AttachPlan
<1>4. CASE Check(t) \/ Recheck(t)
  BY <1>4 DEF Check, Recheck, Look, runtime
<1>5. CASE RegisterWaker(t) \/ PollAgain(t)
  BY <1>5 DEF RegisterWaker, PollAgain, runtime
<1>6. QED
  BY <1>1, <1>2, <1>3, <1>4, <1>5 DEF Client

LEMMA CancelType ==
    ASSUME TypeOK, NEW t \in Tasks, CancelBegin(t) \/ CancelRest(t)
    PROVE  TypeOK'
<1> USE DEF TypeOK, TaskState, CancelPlace, Result
<1>1. CASE CancelBegin(t)
  BY <1>1, ReleaseTaskType DEF CancelBegin, futures
<1>2. CASE CancelStore(t)
  BY <1>2 DEF CancelStore, Store, futures
<1>3. CASE CancelWake(t)
  BY <1>3 DEF CancelWake, Wake, runtime
<1>4. QED
  BY <1>1, <1>2, <1>3 DEF CancelRest

LEMMA ExecuteType ==
    ASSUME TypeOK, NEW k \in Tickers, NEW t \in Tasks, ExecuteTaskStep(k, t)
    PROVE  TypeOK'
<1> USE DEF TypeOK, Entry
<1>1. CASE StepOfMissing(k, t) \/ StepTimesOut(k, t) \/ StepWithoutPlan(k, t) \/ StepFails(k, t)
  <2>1. GoTo(k, "fail") /\ UNCHANGED <<runtime, futures, canceller>>
    BY <1>1 DEF StepOfMissing, StepTimesOut, StepWithoutPlan, StepFails
  <2>2. QED
    BY <2>1, GoToEffect DEF TickerPlace, runtime, futures
<1>2. CASE AcquireResources(k, t)
  <2>1. tracker' \in Tracker /\ handles' \in [Tasks -> SUBSET Claim]
    BY <1>2, ClaimsType, TrackerType DEF AcquireResources
  <2>2. state' \in [Tasks -> TaskState \cup {"Absent"}]
    BY <1>2 DEF AcquireResources, TaskState
  <2>3. ticker' \in [Tickers -> Entry]
    BY <1>2, GoToEffect DEF AcquireResources, TickerPlace
  <2>4. QED
    BY <1>2, <2>1, <2>2, <2>3 DEF AcquireResources, futures
<1>3. CASE StepContinues(k, t)
  <2>1. left' \in [Tasks -> 0..MaxSteps]
    <3>1. left[t] \in 0..MaxSteps /\ MaxSteps \in Nat
      BY RuntimeAssumption
    <3>2. left[t] > 0 => left[t] - 1 \in 0..MaxSteps
      BY <3>1
    <3>3. QED
      BY <1>3, <3>2 DEF StepContinues
  <2>2. ticker' \in [Tickers -> Entry]
    BY <1>3, GoToEffect DEF StepContinues, TickerPlace
  <2>3. QED
    BY <1>3, <2>1, <2>2 DEF StepContinues, futures
<1>4. CASE StepYields(k, t)
  BY <1>4, RestEffect DEF StepYields, TaskState, futures
<1>5. CASE StepCompletes(k, t)
  BY <1>5, GoToEffect DEF StepCompletes, TickerPlace, TaskState, futures
<1>6. CASE StepOfCancelled(k, t)
  BY <1>6, RestEffect DEF StepOfCancelled, runtime, futures
<1>7. QED
  BY <1>1, <1>2, <1>3, <1>4, <1>5, <1>6 DEF ExecuteTaskStep

LEMMA EndType ==
    ASSUME TypeOK, NEW k \in Tickers, NEW t \in Tasks, CompleteTask(k, t) \/ FailTask(k, t)
    PROVE  TypeOK'
<1> USE DEF TypeOK, Entry, TickerPlace, Result
<1>1. CASE StoreResult(k, t) \/ StoreError(k, t)
  BY <1>1, GoToEffect DEF StoreResult, StoreError, Store, futures
<1>2. CASE WakeFuture(k, t) \/ WakeFailed(k, t)
  BY <1>2, GoToEffect DEF WakeFuture, WakeFailed, Wake, runtime
<1>3. CASE ReleaseAndForget(k, t)
  BY <1>3, RestEffect, ReleaseTaskType DEF ReleaseAndForget, futures
<1>4. CASE MarkFailed(k, t)
  <2>1. ReleaseTask(t) \in Tracker
    BY ReleaseTaskType
  <2>2. tracker' \in Tracker /\ state' \in [Tasks -> TaskState \cup {"Absent"}]
    BY <1>4, <2>1 DEF MarkFailed, TaskState
  <2>3. ticker' \in [Tickers -> Entry]
    BY <1>4, GoToEffect DEF MarkFailed
  <2>4. QED
    BY <1>4, <2>2, <2>3 DEF MarkFailed, futures
<1>5. QED
  BY <1>1, <1>2, <1>3, <1>4 DEF CompleteTask, FailTask

LEMMA TickerType ==
    ASSUME TypeOK, NEW k \in Tickers, TickerStep(k)
    PROVE  TypeOK'
<1> USE DEF TypeOK, Entry, TickerPlace
<1>1. CASE TakeTask(k)
  <2>1. Head(queue) \in Tasks /\ Tail(queue) \in Seq(Tasks)
    BY <1>1 DEF TakeTask
  <2>2. QED
    BY <1>1, <2>1 DEF TakeTask, futures
<1>2. CASE TakeNothing(k) \/ DrainNothing(k) \/ DrainBegin(k)
  BY <1>2, GoToEffect DEF TakeNothing, DrainNothing, DrainBegin, runtime, futures
<1>3. CASE DrainTake(k)
  BY <1>3, GoToEffect DEF DrainTake, Result, futures
<1>4. ASSUME NEW t \in Tasks, Requeue(k, t) PROVE TypeOK'
  BY <1>4, RestEffect DEF Requeue, futures
<1>5. QED
  BY <1>1, <1>2, <1>3, <1>4, ExecuteType, EndType DEF TickerStep, Drain

LEMMA TypeStep == TypeOK /\ [Next]_vars => TypeOK'
<1>1. TypeOK /\ UNCHANGED vars => TypeOK'
  BY DEF TypeOK, vars, runtime, futures
<1>2. QED
  BY <1>1, ClientType, CancelType, TickerType DEF Next

----------------------------------------------------------------------------
(* The way of a task through the queue and the loops *)

Queued(t) == \E i \in DOMAIN queue : queue[i] = t
InHand(t) == \E k \in Tickers : ticker[k].task = t

\* A loop has a task exactly while it deals with it.
Resting == {"idle", "drain", "draining"}
HandsBusy == \A k \in Tickers : ticker[k].pc \in Resting <=> ticker[k].task = NoTask

\* The tasks of the queue and of the hands were queued by their clients, and none is
\* there twice.
ClientsFirst == \A t \in Tasks : Queued(t) \/ InHand(t) => client[t] \notin {"new", "registered"}
QueueOrHand == \A t \in Tasks : ~(Queued(t) /\ InHand(t))
QueueDistinct == \A i, j \in DOMAIN queue : queue[i] = queue[j] => i = j
HandsDistinct == \A k, l \in Tickers : ticker[k].task = ticker[l].task /\ ticker[k].task # NoTask
                                          => k = l
OnePlace == HandsBusy /\ ClientsFirst /\ QueueOrHand /\ QueueDistinct /\ HandsDistinct

\* A task that has to run is somewhere; one that a loop has completed has not to run.
NotLost ==
    /\ \A t \in Tasks : state[t] \in {"Pending", "Running"}
                           => Queued(t) \/ InHand(t) \/ client[t] = "registered"
    /\ \A k \in Tickers : ticker[k].pc \in {"store", "wake", "release"}
                             => state[ticker[k].task] \notin {"Pending", "Running"}

WayInv == TypeOK /\ OnePlace /\ NotLost

LEMMA WayInit == Init => OnePlace /\ NotLost
BY RuntimeAssumption DEF Init, OnePlace, HandsBusy, Resting, ClientsFirst, QueueOrHand,
   QueueDistinct, HandsDistinct, NotLost, Queued, InHand

LEMMA HandType ==
    ASSUME WayInv, NEW k \in Tickers, ticker[k].pc \notin Resting
    PROVE  ticker[k].task \in Tasks
<1>1. ticker[k].task \in Tasks \cup {NoTask}
  BY DEF WayInv, TypeOK
<1>2. QED
  BY <1>1 DEF WayInv, OnePlace, HandsBusy

\* A loop that goes on with its task.
LEMMA MoveKeepsWay ==
    ASSUME WayInv, NEW k \in Tickers, NEW t \in Tasks, ticker[k].task = t,
           NEW place \in TickerPlace \ Resting, GoTo(k, place),
           UNCHANGED <<queue, client>>, \A u \in Tasks \ {t} : state'[u] = state[u],
           place \in {"store", "wake", "release"} => state'[t] \notin {"Pending", "Running"}
    PROVE  OnePlace' /\ NotLost'
<1>1. /\ ticker'[k].pc = place
      /\ \A l \in Tickers : ticker'[l].task = ticker[l].task
      /\ \A l \in Tickers \ {k} : ticker'[l] = ticker[l]
  BY GoToEffect DEF WayInv, TypeOK, Entry
<1>2. OnePlace'
  <2>1. HandsBusy'
    BY <1>1, RuntimeAssumption DEF WayInv, OnePlace, HandsBusy
  <2>2. \A u \in Tasks : (InHand(u)' <=> InHand(u)) /\ (Queued(u)' <=> Queued(u))
    BY <1>1 DEF InHand, Queued
  <2>3. ClientsFirst' /\ QueueOrHand'
    BY <2>2 DEF WayInv, OnePlace, ClientsFirst, QueueOrHand
  <2>4. QueueDistinct' /\ HandsDistinct'
    BY <1>1 DEF WayInv, OnePlace, QueueDistinct, HandsDistinct
  <2>5. QED
    BY <2>1, <2>3, <2>4 DEF OnePlace
<1>3. NotLost'
  <2>1. \A u \in Tasks : InHand(u) => InHand(u)'
    BY <1>1 DEF InHand
  <2>2. \A u \in Tasks : Queued(u)' <=> Queued(u)
    BY DEF Queued
  <2>3. InHand(t)
    BY DEF InHand
  <2>4. \A u \in Tasks : state'[u] \in {"Pending", "Running"}
                            => Queued(u)' \/ InHand(u)' \/ client'[u] = "registered"
    BY <2>1, <2>2, <2>3 DEF WayInv, NotLost
  <2>5. ASSUME NEW l \in Tickers, ticker'[l].pc \in {"store", "wake", "release"}
        PROVE  state'[ticker'[l].task] \notin {"Pending", "Running"}
    <3>1. CASE l = k
      BY <1>1, <2>5, <3>1
    <3>2. CASE l # k
      <4>1. ticker[l].task # t
        BY <3>2, RuntimeAssumption DEF WayInv, OnePlace, HandsDistinct
      <4>2. ticker[l].task \in Tasks
        BY <1>1, <2>5, <3>2, HandType DEF Resting
      <4>3. QED
        BY <1>1, <2>5, <3>2, <4>1, <4>2 DEF WayInv, NotLost
    <3>3. QED
      BY <3>1, <3>2
  <2>6. QED
    BY <2>4, <2>5 DEF NotLost
<1>4. QED
  BY <1>2, <1>3

\* A loop that is done with a task that has not to run any more.
LEMMA RestKeepsWay ==
    ASSUME WayInv, NEW k \in Tickers, NEW t \in Tasks, ticker[k].task = t, Rest(k),
           UNCHANGED <<queue, client>>, \A u \in Tasks \ {t} : state'[u] = state[u],
           state'[t] \notin {"Pending", "Running"}
    PROVE  OnePlace' /\ NotLost'
<1>1. /\ ticker'[k].pc \in {"idle", "drain"} /\ ticker'[k].task = NoTask
      /\ \A l \in Tickers \ {k} : ticker'[l] = ticker[l]
  BY RestEffect DEF WayInv, TypeOK, Entry
<1>2. OnePlace'
  <2>1. HandsBusy'
    BY <1>1 DEF WayInv, OnePlace, HandsBusy, Resting
  <2>2. \A u \in Tasks : (InHand(u)' => InHand(u)) /\ (Queued(u)' <=> Queued(u))
    BY <1>1, RuntimeAssumption DEF InHand, Queued
  <2>3. ClientsFirst' /\ QueueOrHand'
    BY <2>2 DEF WayInv, OnePlace, ClientsFirst, QueueOrHand
  <2>4. QueueDistinct' /\ HandsDistinct'
    BY <1>1 DEF WayInv, OnePlace, QueueDistinct, HandsDistinct
  <2>5. QED
    BY <2>1, <2>3, <2>4 DEF OnePlace
<1>3. NotLost'
  <2>1. \A u \in Tasks \ {t} : (InHand(u) => InHand(u)') /\ (Queued(u)' <=> Queued(u))
    BY <1>1 DEF InHand, Queued
  <2>2. ASSUME NEW l \in Tickers, ticker'[l].pc \in {"store", "wake", "release"}
        PROVE  ticker'[l] = ticker[l] /\ ticker[l].task \in Tasks \ {t}
    <3>1. l # k /\ ticker'[l] = ticker[l]
      BY <1>1, <2>2
    <3>2. ticker[l].task \in Tasks
      BY <2>2, <3>1, HandType DEF Resting
    <3>3. ticker[l].task # t
      BY <3>1, RuntimeAssumption DEF WayInv, OnePlace, HandsDistinct
    <3>4. QED
      BY <3>1, <3>2, <3>3
  <2>3. QED
    BY <2>1, <2>2 DEF WayInv, NotLost
<1>4. QED
  BY <1>2, <1>3

\* Tasks may end, or be drained, while the queue and the loops stay as they are.
LEMMA EndKeepsWay ==
    ASSUME WayInv, UNCHANGED <<queue, client, ticker>>,
           \A u \in Tasks : state'[u] # state[u] => state'[u] \notin {"Pending", "Running"}
    PROVE  OnePlace' /\ NotLost'
<1>1. OnePlace'
  BY DEF WayInv, OnePlace, HandsBusy, ClientsFirst, QueueOrHand, QueueDistinct, HandsDistinct,
     Queued, InHand
<1>2. \A k \in Tickers : ticker[k].pc \in {"store", "wake", "release"} => ticker[k].task \in Tasks
  BY HandType DEF Resting
<1>3. QED
  BY <1>1, <1>2 DEF WayInv, NotLost, Queued, InHand

LEMMA ClientWay ==
    ASSUME WayInv, NEW t \in Tasks, Client(t)
    PROVE  OnePlace' /\ NotLost'
<1> USE DEF WayInv
<1>0. \A k \in Tickers : ticker[k].pc \in {"store", "wake", "release"} => ticker[k].task \in Tasks
  BY HandType DEF Resting
<1> DEFINE Same == \A u \in Tasks : (InHand(u)' <=> InHand(u)) /\ (Queued(u)' <=> Queued(u))
<1> USE DEF OnePlace, HandsBusy, ClientsFirst, QueueOrHand, QueueDistinct, HandsDistinct
<1>1. CASE RegisterTask(t)
  <2>1. ~Queued(t) /\ ~InHand(t)
    BY <1>1 DEF RegisterTask
  <2>2. Same
    BY <1>1 DEF RegisterTask, Queued, InHand
  <2>3. OnePlace'
    BY <1>1, <2>1, <2>2 DEF RegisterTask, TypeOK
  <2>4. \A k \in Tickers : ticker[k].task # t
    BY <2>1 DEF InHand
  <2>5. NotLost'
    BY <1>0, <1>1, <2>2, <2>4 DEF RegisterTask, NotLost, TypeOK
  <2>6. QED
    BY <2>3, <2>5
<1>2. CASE EnqueueTask(t)
  <2>1. ~Queued(t) /\ ~InHand(t)
    BY <1>2 DEF EnqueueTask
  <2>2. /\ DOMAIN queue' = 1..(Len(queue) + 1) /\ queue'[Len(queue) + 1] = t
        /\ DOMAIN queue = 1..Len(queue) /\ Len(queue) \in Nat
        /\ \A i \in DOMAIN queue : queue'[i] = queue[i]
    BY <1>2 DEF EnqueueTask, TypeOK
  <2>3. \A u \in Tasks : Queued(u)' <=> Queued(u) \/ u = t
    BY <2>2 DEF Queued
  <2>4. \A u \in Tasks : InHand(u)' <=> InHand(u)
    BY <1>2 DEF EnqueueTask, InHand
  <2>5. \A i, j \in DOMAIN queue' : queue'[i] = queue'[j] => i = j
    BY <2>1, <2>2 DEF Queued
  <2>6. OnePlace'
    BY <1>2, <2>1, <2>3, <2>4, <2>5 DEF EnqueueTask, TypeOK
  <2>7. NotLost'
    BY <1>2, <2>3, <2>4 DEF EnqueueTask, NotLost, TypeOK
  <2>8. QED
    BY <2>6, <2>7
<1>3. CASE AttachPlan(t) \/ Check(t) \/ RegisterWaker(t) \/ Recheck(t) \/ PollAgain(t)
  <2>1. /\ UNCHANGED <<queue, ticker, state>>
        /\ client[t] \notin {"new", "registered"} /\ client'[t] \notin {"new", "registered"}
        /\ \A u \in Tasks \ {t} : client'[u] = client[u]
    BY <1>3 DEF AttachPlan, Check, RegisterWaker, Recheck, PollAgain, Look, runtime, TypeOK
  <2>2. Same
    BY <2>1 DEF Queued, InHand
  <2>3. OnePlace' /\ NotLost'
    BY <2>1, <2>2 DEF NotLost
  <2>4. QED
    BY <2>3
<1>4. QED
  BY <1>1, <1>2, <1>3 DEF Client

\* Taking the front of the queue, and putting a task back.
LEMMA TakeWay ==
    ASSUME WayInv, NEW k \in Tickers, TakeTask(k)
    PROVE  OnePlace' /\ NotLost'
<1> DEFINE t == Head(queue)
<1> USE DEF WayInv
<1>1. queue \in Seq(Tasks) /\ queue # <<>> /\ Len(queue) \in Nat /\ Len(queue) >= 1
  BY DEF TakeTask, TypeOK
<1>2. /\ t = queue[1] /\ t \in Tasks /\ 1 \in DOMAIN queue
      /\ DOMAIN queue = 1..Len(queue) /\ DOMAIN queue' = 1..(Len(queue) - 1)
      /\ \A i \in DOMAIN queue' : queue'[i] = queue[i + 1] /\ i + 1 \in DOMAIN queue
      /\ \A i \in DOMAIN queue : i = 1 \/ (i - 1 \in DOMAIN queue' /\ queue'[i - 1] = queue[i])
  BY <1>1 DEF TakeTask
<1>3. /\ ticker[k].task = NoTask
      /\ ticker'[k].pc = "step" /\ ticker'[k].task = t
      /\ \A l \in Tickers \ {k} : ticker'[l] = ticker[l]
      /\ UNCHANGED <<state, client>>
  BY DEF TakeTask, At, TypeOK, OnePlace, HandsBusy, Resting, futures
<1> HIDE DEF t
<1>4. \A u \in Tasks : Queued(u)' <=> Queued(u) /\ u # t
  <2>1. ASSUME NEW u \in Tasks, Queued(u)' PROVE Queued(u) /\ u # t
    <3>1. PICK i \in DOMAIN queue' : queue'[i] = u
      BY <2>1 DEF Queued
    <3>2. i \in Nat /\ i >= 1 /\ i + 1 \in DOMAIN queue /\ queue[i + 1] = u
      BY <1>1, <1>2, <3>1
    <3>3. u # t
      BY <1>2, <3>2 DEF OnePlace, QueueDistinct
    <3>4. QED
      BY <3>2, <3>3 DEF Queued
  <2>2. ASSUME NEW u \in Tasks, Queued(u), u # t PROVE Queued(u)'
    <3>1. PICK i \in DOMAIN queue : queue[i] = u
      BY <2>2 DEF Queued
    <3>2. i # 1
      BY <1>2, <2>2, <3>1
    <3>3. QED
      BY <1>2, <3>1, <3>2 DEF Queued
  <2>3. QED
    BY <2>1, <2>2
<1>5. \A u \in Tasks : InHand(u)' <=> InHand(u) \/ u = t
  BY <1>3, RuntimeAssumption DEF InHand
<1>6. Queued(t) /\ ~InHand(t)
  BY <1>2 DEF Queued, OnePlace, QueueOrHand
<1>7. HandsBusy'
  BY <1>2, <1>3, RuntimeAssumption DEF OnePlace, HandsBusy, Resting
<1>8. ClientsFirst' /\ QueueOrHand'
  BY <1>3, <1>4, <1>5, <1>6 DEF OnePlace, ClientsFirst, QueueOrHand
<1>9. QueueDistinct'
  <2> SUFFICES ASSUME NEW i \in DOMAIN queue', NEW j \in DOMAIN queue', queue'[i] = queue'[j]
               PROVE  i = j
    BY DEF QueueDistinct
  <2>1. i + 1 = j + 1
    BY <1>2 DEF OnePlace, QueueDistinct
  <2>2. i \in Nat /\ j \in Nat
    BY <1>1, <1>2
  <2>3. QED
    BY <2>1, <2>2
<1>10. HandsDistinct'
  <2>1. \A l \in Tickers : ticker[l].task # t
    BY <1>6 DEF InHand
  <2>2. QED
    BY <1>3, <2>1 DEF OnePlace, HandsDistinct
<1>11. NotLost'
  BY <1>3, <1>4, <1>5 DEF NotLost
<1>12. QED
  BY <1>7, <1>8, <1>9, <1>10, <1>11 DEF OnePlace

LEMMA RequeueWay ==
    ASSUME WayInv, NEW k \in Tickers, NEW t \in Tasks, Requeue(k, t)
    PROVE  OnePlace' /\ NotLost'
<1> USE DEF WayInv
<1>1. /\ ticker[k].task = t
      /\ ticker'[k].pc \in {"idle", "drain"} /\ ticker'[k].task = NoTask
      /\ \A l \in Tickers \ {k} : ticker'[l] = ticker[l]
      /\ UNCHANGED <<state, client>>
  BY RestEffect DEF Requeue, TypeOK, Entry, futures
<1>2. /\ DOMAIN queue' = 1..(Len(queue) + 1) /\ queue'[Len(queue) + 1] = t
      /\ DOMAIN queue = 1..Len(queue) /\ Len(queue) \in Nat
      /\ \A i \in DOMAIN queue : queue'[i] = queue[i]
  BY DEF Requeue, TypeOK
<1>3. \A u \in Tasks : Queued(u)' <=> Queued(u) \/ u = t
  BY <1>2 DEF Queued
<1>4. InHand(t) /\ ~Queued(t) /\ client[t] \notin {"new", "registered"}
  BY <1>1 DEF InHand, OnePlace, QueueOrHand, ClientsFirst
<1>5. \A u \in Tasks : InHand(u)' <=> InHand(u) /\ u # t
  BY <1>1, RuntimeAssumption DEF InHand, OnePlace, HandsDistinct
<1>6. HandsBusy'
  BY <1>1 DEF OnePlace, HandsBusy, Resting
<1>7. ClientsFirst' /\ QueueOrHand'
  BY <1>1, <1>3, <1>4, <1>5 DEF OnePlace, ClientsFirst, QueueOrHand
<1>8. QueueDistinct'
  BY <1>2, <1>4 DEF Queued, OnePlace, QueueDistinct
<1>9. HandsDistinct'
  BY <1>1 DEF OnePlace, HandsDistinct
<1>10. NotLost'
  BY <1>1, <1>3, <1>5 DEF NotLost
<1>11. QED
  BY <1>6, <1>7, <1>8, <1>9, <1>10 DEF OnePlace

LEMMA ExecuteWay ==
    ASSUME WayInv, NEW k \in Tickers, NEW t \in Tasks, ExecuteTaskStep(k, t)
    PROVE  OnePlace' /\ NotLost'
<1>1. CASE StepOfMissing(k, t) \/ StepTimesOut(k, t) \/ StepWithoutPlan(k, t) \/ StepFails(k, t)
  <2>1. ticker[k].task = t /\ GoTo(k, "fail") /\ UNCHANGED <<queue, client, state>>
    BY <1>1 DEF StepOfMissing, StepTimesOut, StepWithoutPlan, StepFails, Holds, runtime, futures
  <2>2. QED
    BY <2>1, MoveKeepsWay DEF TickerPlace, Resting
<1>2. CASE AcquireResources(k, t)
  <2>1. /\ ticker[k].task = t /\ (GoTo(k, "fail") \/ GoTo(k, "requeue"))
        /\ UNCHANGED <<queue, client>> /\ \A u \in Tasks \ {t} : state'[u] = state[u]
    BY <1>2 DEF AcquireResources, Holds, futures, WayInv, TypeOK
  <2>2. QED
    BY <2>1, MoveKeepsWay DEF TickerPlace, Resting
<1>3. CASE StepContinues(k, t)
  <2>1. ticker[k].task = t /\ GoTo(k, "requeue") /\ UNCHANGED <<queue, client, state>>
    BY <1>3 DEF StepContinues, Holds, futures
  <2>2. QED
    BY <2>1, MoveKeepsWay DEF TickerPlace, Resting
<1>4. CASE StepYields(k, t) \/ StepOfCancelled(k, t)
  <2>1. /\ ticker[k].task = t /\ Rest(k) /\ UNCHANGED <<queue, client>>
        /\ \A u \in Tasks \ {t} : state'[u] = state[u]
        /\ state'[t] \notin {"Pending", "Running"}
    BY <1>4 DEF StepYields, StepOfCancelled, Holds, runtime, futures, WayInv, TypeOK
  <2>2. QED
    BY <2>1, RestKeepsWay
<1>5. CASE StepCompletes(k, t)
  <2>1. /\ ticker[k].task = t /\ GoTo(k, "store") /\ UNCHANGED <<queue, client>>
        /\ \A u \in Tasks \ {t} : state'[u] = state[u]
        /\ state'[t] \notin {"Pending", "Running"}
    BY <1>5 DEF StepCompletes, Holds, futures, WayInv, TypeOK
  <2>2. QED
    BY <2>1, MoveKeepsWay DEF TickerPlace, Resting
<1>6. QED
  BY <1>1, <1>2, <1>3, <1>4, <1>5 DEF ExecuteTaskStep

LEMMA EndWay ==
    ASSUME WayInv, NEW k \in Tickers, NEW t \in Tasks, CompleteTask(k, t) \/ FailTask(k, t)
    PROVE  OnePlace' /\ NotLost'
<1>1. CASE StoreResult(k, t) \/ WakeFuture(k, t)
  <2>1. /\ ticker[k].task = t /\ (GoTo(k, "wake") \/ GoTo(k, "release"))
        /\ UNCHANGED <<queue, client, state>>
        /\ state[t] \notin {"Pending", "Running"}
    BY <1>1 DEF StoreResult, WakeFuture, At, runtime, futures, WayInv, NotLost
  <2>2. QED
    BY <2>1, MoveKeepsWay DEF TickerPlace, Resting
<1>2. CASE ReleaseAndForget(k, t)
  <2>1. /\ ticker[k].task = t /\ Rest(k) /\ UNCHANGED <<queue, client, state>>
        /\ state[t] \notin {"Pending", "Running"}
    BY <1>2 DEF ReleaseAndForget, At, futures, WayInv, NotLost
  <2>2. QED
    BY <2>1, RestKeepsWay
<1>3. CASE MarkFailed(k, t) \/ StoreError(k, t) \/ WakeFailed(k, t)
  <2>1. /\ ticker[k].task = t
        /\ GoTo(k, "failStore") \/ GoTo(k, "failWake") \/ GoTo(k, "stuck")
        /\ UNCHANGED <<queue, client>> /\ \A u \in Tasks \ {t} : state'[u] = state[u]
    BY <1>3 DEF MarkFailed, StoreError, WakeFailed, runtime, futures, WayInv, TypeOK
  <2>2. QED
    BY <2>1, MoveKeepsWay DEF TickerPlace, Resting
<1>4. QED
  BY <1>1, <1>2, <1>3 DEF CompleteTask, FailTask

LEMMA WayStep == WayInv /\ [Next]_vars => WayInv'
<1> SUFFICES ASSUME WayInv, [Next]_vars PROVE OnePlace' /\ NotLost'
  BY TypeStep DEF WayInv
<1>1. ASSUME NEW t \in Tasks, CancelBegin(t) \/ CancelRest(t) PROVE OnePlace' /\ NotLost'
  <2>1. /\ UNCHANGED <<queue, client, ticker>>
        /\ \A u \in Tasks : state'[u] # state[u] => state'[u] \notin {"Pending", "Running"}
    BY <1>1 DEF CancelBegin, CancelRest, CancelStore, CancelWake, runtime, futures, WayInv, TypeOK
  <2>2. QED
    BY <2>1, EndKeepsWay
<1>2. ASSUME NEW k \in Tickers, TakeNothing(k) \/ DrainNothing(k) \/ DrainBegin(k) \/ DrainTake(k)
      PROVE  OnePlace' /\ NotLost'
  <2>1. /\ ticker[k].pc \in Resting /\ ticker'[k].pc \in Resting
        /\ UNCHANGED <<queue, client>>
        /\ \A l \in Tickers : ticker'[l].task = ticker[l].task
        /\ \A l \in Tickers \ {k} : ticker'[l] = ticker[l]
    <3>1. \E place \in Resting : GoTo(k, place)
      BY <1>2 DEF TakeNothing, DrainNothing, DrainBegin, DrainTake, Resting
    <3>2. Resting \subseteq TickerPlace
      BY DEF Resting, TickerPlace
    <3>3. ticker[k].pc \in Resting /\ UNCHANGED <<queue, client>>
      BY <1>2 DEF TakeNothing, DrainNothing, DrainBegin, DrainTake, At, Resting, runtime, futures
    <3>4. QED
      BY <3>1, <3>2, <3>3, GoToEffect DEF WayInv, TypeOK, Entry
  <2>2. \A u \in Tasks : state'[u] # state[u] => state'[u] \notin {"Pending", "Running"}
    BY <1>2 DEF TakeNothing, DrainNothing, DrainBegin, DrainTake, runtime
  <2>3. \A u \in Tasks : (InHand(u)' <=> InHand(u)) /\ (Queued(u)' <=> Queued(u))
    BY <2>1 DEF InHand, Queued
  <2>4. OnePlace'
    BY <2>1, <2>3
       DEF WayInv, OnePlace, HandsBusy, ClientsFirst, QueueOrHand, QueueDistinct, HandsDistinct
  <2>5. \A l \in Tickers : ticker'[l].pc \in {"store", "wake", "release"}
                              => l # k /\ ticker'[l] = ticker[l] /\ ticker[l].task \in Tasks
    BY <2>1, HandType DEF Resting
  <2>6. NotLost'
    BY <2>1, <2>2, <2>3, <2>5 DEF WayInv, NotLost
  <2>7. QED
    BY <2>4, <2>6
<1>3. CASE UNCHANGED vars
  <2>1. UNCHANGED <<queue, client, ticker, state>>
    BY <1>3 DEF vars, runtime, futures
  <2>2. QED
    BY <2>1, EndKeepsWay
<1>4. QED
  BY <1>1, <1>2, <1>3, ClientWay, TakeWay, RequeueWay, ExecuteWay, EndWay
     DEF Next, TickerStep, Drain

LEMMA WayHolds == Spec => []WayInv
<1>1. Init => WayInv
  BY TypeInit, WayInit DEF WayInv
<1>2. QED
  BY <1>1, WayStep, PTL DEF Spec

\* A task is at one place at most on its way through the queue and the loops (submit_system,
\* tick), and one that is pending or running is at one: no loop executes it beside another,
\* and none is forgotten, whatever is cancelled, fails or is drained.
THEOREM QueuedOnceHolds == Spec => []QueuedOnce
<1>1. WayInv => QueuedOnce
  <2> SUFFICES ASSUME WayInv, NEW t \in Tasks
               PROVE  /\ \A p, q \in Places(t) : p = q
                      /\ state[t] \in {"Pending", "Running"} => Places(t) # {}
    BY DEF QueuedOnce
  <2> USE DEF WayInv
  <2>1. ASSUME NEW p \in Places(t)
        PROVE  \/ \E i \in DOMAIN queue : queue[i] = t /\ p = <<"queue", i>>
               \/ \E k \in Tickers : ticker[k].task = t /\ p = <<"hand", k>>
               \/ client[t] = "registered" /\ p = <<"client", t>>
    BY DEF Places
  <2>2. ASSUME NEW p \in Places(t), NEW q \in Places(t) PROVE p = q
    <3>1. (Queued(t) => ~InHand(t) /\ client[t] # "registered") /\ (InHand(t) => client[t] # "registered")
      BY DEF OnePlace, QueueOrHand, ClientsFirst
    <3>2. CASE Queued(t)
      BY <2>1, <3>1, <3>2 DEF InHand, OnePlace, QueueDistinct
    <3>3. CASE InHand(t)
      <4>1. \A k, l \in Tickers : ticker[k].task = t /\ ticker[l].task = t => k = l
        BY RuntimeAssumption DEF OnePlace, HandsDistinct
      <4>2. \A i \in DOMAIN queue : queue[i] # t
        BY <3>1, <3>3 DEF Queued
      <4>3. QED
        BY <2>1, <3>1, <3>3, <4>1, <4>2
    <3>4. CASE ~Queued(t) /\ ~InHand(t)
      BY <2>1, <3>4 DEF Queued, InHand
    <3>5. QED
      BY <3>2, <3>3, <3>4
  <2>3. ASSUME state[t] \in {"Pending", "Running"} PROVE Places(t) # {}
    <3>1. Queued(t) \/ InHand(t) \/ client[t] = "registered"
      BY <2>3 DEF NotLost
    <3>2. QED
      BY <3>1 DEF Queued, InHand, Places
  <2>4. QED
    BY <2>2, <2>3
<1>2. QED
  BY <1>1, WayHolds, PTL

----------------------------------------------------------------------------
(* Wakeups *)

\* A task that has come to an end; who is about to store its result; who has stored it and
\* is about to call the waker of its future.
Ended(t) == state[t] \in {"Completed", "Failed", "Cancelled"}
Storing(t) == \/ \E k \in Tickers : ticker[k].task = t /\ ticker[k].pc \in {"store", "failStore"}
              \/ canceller = [pc |-> "store", task |-> t]
Waking(t) == \/ \E k \in Tickers : ticker[k].task = t /\ ticker[k].pc \in {"wake", "failWake"}
             \/ canceller = [pc |-> "wake", task |-> t]

\* No client sleeps on a task that is over: it was called, or its waker is registered and
\* somebody who goes on to call it has begun to.
NoLostWakeup ==
    \A t \in Tasks :
        client[t] = "parked" /\ (Ended(t) \/ results[t] # "none")
            => t \in woken \/ (t \in wakers /\ (Storing(t) \/ Waking(t)))

\* A client that has left its waker finds it there until it is called; an end without a
\* result will have one; a result is told to whoever went to sleep before it was stored.
Listening == \A t \in Tasks : client[t] \in {"recheck", "parked"} => t \in wakers \cup woken
ResultsComing == \A t \in Tasks : Ended(t) /\ results[t] = "none" => Storing(t)
CallsComing == \A t \in Tasks : client[t] = "parked" /\ results[t] # "none"
                                    => t \in woken \/ Waking(t)
WakeInv == Listening /\ ResultsComing /\ CallsComing

LEMMA ClientWakes ==
    ASSUME TypeOK, WakeInv, NEW t \in Tasks, Client(t)
    PROVE  WakeInv'
<1>1. /\ UNCHANGED <<ticker, canceller, results>>
      /\ wakers \subseteq wakers'
      /\ woken \ {t} \subseteq woken'
      /\ \A u \in Tasks \ {t} : client'[u] = client[u]
      /\ \A u \in Tasks : Ended(u)' => Ended(u)
  BY DEF Client, RegisterTask, EnqueueTask, AttachPlan, Check, RegisterWaker, Recheck, PollAgain,
     Look, runtime, Ended, TypeOK
<1>2. client'[t] \in {"recheck", "parked"} => t \in wakers' \cup woken'
  BY DEF Client, RegisterTask, EnqueueTask, AttachPlan, Check, RegisterWaker, Recheck, PollAgain,
     Look, runtime, TypeOK, WakeInv, Listening
<1>3. client'[t] = "parked" => results[t] = "none"
  BY DEF Client, RegisterTask, EnqueueTask, AttachPlan, Check, RegisterWaker, Recheck, PollAgain,
     Look, runtime, TypeOK
<1>4. \A u \in Tasks : (Storing(u)' <=> Storing(u)) /\ (Waking(u)' <=> Waking(u))
  BY <1>1 DEF Storing, Waking
<1>5. Listening'
  BY <1>1, <1>2 DEF WakeInv, Listening
<1>6. ResultsComing'
  BY <1>1, <1>4 DEF WakeInv, ResultsComing
<1>7. CallsComing'
  BY <1>1, <1>3, <1>4 DEF WakeInv, CallsComing
<1>8. QED
  BY <1>5, <1>6, <1>7 DEF WakeInv

\* Whoever stores and calls stays where it is, and a task that ends has somebody to store
\* its result.
Unheard == /\ UNCHANGED <<results, futures, canceller>>
           /\ \A k \in Tickers : ticker[k].pc \in {"store", "failStore", "wake", "failWake"}
                                     => ticker'[k] = ticker[k]
           /\ \A t \in Tasks : Ended(t)' => Ended(t) \/ Storing(t)'

LEMMA UnheardKeeps == WakeInv /\ Unheard => WakeInv'
<1> SUFFICES ASSUME WakeInv, Unheard PROVE WakeInv'
  OBVIOUS
<1>1. \A t \in Tasks : (Storing(t) => Storing(t)') /\ (Waking(t) => Waking(t)')
  BY DEF Unheard, Storing, Waking
<1>2. QED
  BY <1>1 DEF Unheard, futures, WakeInv, Listening, ResultsComing, CallsComing

\* A result is stored by someone who then calls the waker, and the waker is called by
\* someone who was about to: the rest of the loops, or of the canceller, stays.
LEMMA StoreWakes ==
    ASSUME TypeOK, WakeInv, NEW t \in Tasks, NEW r \in Result \ {"none"}, Store(t, r),
           UNCHANGED <<state, futures>>, Waking(t)',
           \A u \in Tasks \ {t} : (Storing(u) => Storing(u)') /\ (Waking(u) => Waking(u)')
    PROVE  WakeInv'
<1>1. results'[t] # "none" /\ \A u \in Tasks \ {t} : results'[u] = results[u]
  BY DEF Store, TypeOK
<1>2. \A u \in Tasks : Ended(u)' <=> Ended(u)
  BY DEF Ended
<1>3. Listening'
  BY DEF WakeInv, Listening, futures
<1>4. ResultsComing'
  BY <1>1, <1>2 DEF WakeInv, ResultsComing
<1>5. CallsComing'
  BY <1>1 DEF WakeInv, CallsComing, futures
<1>6. QED
  BY <1>3, <1>4, <1>5 DEF WakeInv

LEMMA WakeWakes ==
    ASSUME TypeOK, WakeInv, NEW t \in Tasks, Wake(t), UNCHANGED <<state, results, client>>,
           \A u \in Tasks : Storing(u) => Storing(u)',
           \A u \in Tasks \ {t} : Waking(u) => Waking(u)'
    PROVE  WakeInv'
<1>1. \A u \in Tasks : u \in wakers \cup woken => u \in wakers' \cup woken'
  BY DEF Wake
<1>2. \A u \in Tasks : u \in woken => u \in woken'
  BY DEF Wake
<1>3. t \in wakers \cup woken => t \in woken'
  BY DEF Wake
<1>4. Listening'
  BY <1>1 DEF WakeInv, Listening
<1>5. ResultsComing'
  BY DEF WakeInv, ResultsComing, Ended
<1>6. CallsComing'
  BY <1>2, <1>3 DEF WakeInv, Listening, CallsComing
<1>7. QED
  BY <1>4, <1>5, <1>6 DEF WakeInv

LEMMA CancelWakes ==
    ASSUME TypeOK, WakeInv, NEW t \in Tasks, CancelBegin(t) \/ CancelRest(t)
    PROVE  WakeInv'
<1>1. CASE CancelBegin(t)
  <2>1. UNCHANGED <<results, futures, ticker>> /\ canceller.pc = "idle" /\ Storing(t)'
    BY <1>1 DEF CancelBegin, ActiveFree, Storing
  <2>2. \A u \in Tasks : (Storing(u) => Storing(u)') /\ (Waking(u) => Waking(u)')
    BY <2>1 DEF Storing, Waking
  <2>3. \A u \in Tasks \ {t} : Ended(u)' => Ended(u)
    BY <1>1 DEF CancelBegin, Ended, TypeOK
  <2>4. QED
    BY <2>1, <2>2, <2>3 DEF futures, WakeInv, Listening, ResultsComing, CallsComing
<1>2. CASE CancelStore(t)
  <2>1. /\ Store(t, "cancelled") /\ UNCHANGED <<state, futures, ticker>>
        /\ canceller = [pc |-> "store", task |-> t] /\ canceller' = [pc |-> "wake", task |-> t]
    BY <1>2 DEF CancelStore
  <2>2. Waking(t)' /\ \A u \in Tasks \ {t} : (Storing(u) => Storing(u)') /\ (Waking(u) => Waking(u)')
    BY <2>1 DEF Storing, Waking
  <2>3. QED
    BY <2>1, <2>2, StoreWakes DEF Result
<1>3. CASE CancelWake(t)
  <2>1. /\ Wake(t) /\ UNCHANGED <<state, results, client, ticker>>
        /\ canceller = [pc |-> "wake", task |-> t]
    BY <1>3 DEF CancelWake, runtime
  <2>2. /\ \A u \in Tasks : Storing(u) => Storing(u)'
        /\ \A u \in Tasks \ {t} : Waking(u) => Waking(u)'
    BY <2>1 DEF Storing, Waking
  <2>3. QED
    BY <2>1, <2>2, WakeWakes
<1>4. QED
  BY <1>1, <1>2, <1>3 DEF CancelRest

LEMMA EndWakes ==
    ASSUME TypeOK, WakeInv, NEW k \in Tickers, NEW t \in Tasks, CompleteTask(k, t) \/ FailTask(k, t)
    PROVE  WakeInv'
<1> USE DEF At
<1>1. CASE StoreResult(k, t) \/ StoreError(k, t)
  <2>1. PICK place \in {"wake", "failWake"}, r \in {"ok", "error"} :
            /\ Store(t, r) /\ GoTo(k, place) /\ UNCHANGED <<state, futures, canceller>>
            /\ ticker[k].task = t /\ ticker[k].pc \in {"store", "failStore"}
    BY <1>1 DEF StoreResult, StoreError
  <2>2. /\ ticker'[k].pc = place /\ ticker'[k].task = t
        /\ \A l \in Tickers \ {k} : ticker'[l] = ticker[l]
    BY <2>1, GoToEffect DEF TypeOK, Entry, TickerPlace
  <2>3. Waking(t)' /\ \A u \in Tasks \ {t} : (Storing(u) => Storing(u)') /\ (Waking(u) => Waking(u)')
    BY <2>1, <2>2 DEF Storing, Waking
  <2>4. QED
    BY <2>1, <2>3, StoreWakes DEF Result
<1>2. CASE WakeFuture(k, t) \/ WakeFailed(k, t)
  <2>1. PICK place \in {"release", "stuck"} :
            /\ Wake(t) /\ GoTo(k, place) /\ UNCHANGED <<state, results, client, canceller>>
            /\ ticker[k].task = t /\ ticker[k].pc \in {"wake", "failWake"}
    BY <1>2 DEF WakeFuture, WakeFailed, runtime
  <2>2. \A l \in Tickers \ {k} : ticker'[l] = ticker[l]
    BY <2>1, GoToEffect DEF TypeOK, Entry, TickerPlace
  <2>3. /\ \A u \in Tasks : Storing(u) => Storing(u)'
        /\ \A u \in Tasks \ {t} : Waking(u) => Waking(u)'
    BY <2>1, <2>2 DEF Storing, Waking
  <2>4. QED
    BY <2>1, <2>3, WakeWakes
<1>3. CASE ReleaseAndForget(k, t)
  <2>1. \A l \in Tickers \ {k} : ticker'[l] = ticker[l]
    BY <1>3, RestEffect DEF ReleaseAndForget, TypeOK, Entry
  <2>2. Unheard
    BY <1>3, <2>1 DEF ReleaseAndForget, Unheard, Ended
  <2>3. QED
    BY <2>2, UnheardKeeps
<1>4. CASE MarkFailed(k, t)
  <2>1. /\ ticker[k].task = t /\ ticker[k].pc = "fail" /\ ticker'[k].pc = "failStore"
        /\ ticker'[k].task = t
        /\ \A l \in Tickers \ {k} : ticker'[l] = ticker[l]
    BY <1>4, GoToEffect DEF MarkFailed, TypeOK, Entry, TickerPlace
  <2>2. Storing(t)' /\ \A u \in Tasks \ {t} : Ended(u)' => Ended(u)
    BY <1>4, <2>1 DEF MarkFailed, Storing, Ended, TypeOK
  <2>3. Unheard
    BY <1>4, <2>1, <2>2 DEF MarkFailed, Unheard
  <2>4. QED
    BY <2>3, UnheardKeeps
<1>5. QED
  BY <1>1, <1>2, <1>3, <1>4 DEF CompleteTask, FailTask

LEMMA ExecuteUnheard ==
    ASSUME TypeOK, NEW k \in Tickers, NEW t \in Tasks, ExecuteTaskStep(k, t)
    PROVE  Unheard
<1>1. /\ UNCHANGED <<results, futures, canceller>> /\ ticker[k].pc = "step" /\ ticker[k].task = t
      /\ \A u \in Tasks \ {t} : Ended(u)' => Ended(u)
      /\ \/ Ended(t)' => Ended(t)
         \/ GoTo(k, "store")
      /\ Rest(k) \/ \E place \in TickerPlace : GoTo(k, place)
  BY DEF ExecuteTaskStep, StepOfMissing, StepTimesOut, AcquireResources, StepWithoutPlan, StepFails,
     StepContinues, StepYields, StepCompletes, StepOfCancelled, Holds, At, runtime, Ended, TypeOK,
     TickerPlace
<1>2. \A l \in Tickers \ {k} : ticker'[l] = ticker[l]
  BY <1>1, GoToEffect, RestEffect DEF TypeOK, Entry
<1>3. GoTo(k, "store") => Storing(t)'
  <2>1. GoTo(k, "store") => ticker'[k].pc = "store" /\ ticker'[k].task = ticker[k].task
    BY GoToEffect DEF TypeOK, Entry, TickerPlace
  <2>2. QED
    BY <1>1, <2>1 DEF Storing
<1>4. QED
  BY <1>1, <1>2, <1>3 DEF Unheard

LEMMA TickerWakes ==
    ASSUME TypeOK, WakeInv, NEW k \in Tickers, TickerStep(k)
    PROVE  WakeInv'
<1> USE DEF At
<1>1. CASE TakeTask(k)
  BY <1>1, UnheardKeeps DEF TakeTask, Unheard, Ended, TypeOK, Entry
<1>2. CASE TakeNothing(k) \/ DrainNothing(k) \/ DrainBegin(k)
  <2>1. \A l \in Tickers \ {k} : ticker'[l] = ticker[l]
    BY <1>2, GoToEffect DEF TakeNothing, DrainNothing, DrainBegin, TypeOK, Entry, TickerPlace
  <2>2. Unheard
    BY <1>2, <2>1 DEF TakeNothing, DrainNothing, DrainBegin, Unheard, Ended, runtime
  <2>3. QED
    BY <2>2, UnheardKeeps
<1>3. CASE DrainTake(k)
  <2>1. /\ ticker[k].pc = "draining" /\ UNCHANGED <<futures, canceller>>
        /\ \A l \in Tickers \ {k} : ticker'[l] = ticker[l]
        /\ \A u \in Tasks : results'[u] = "none"
    BY <1>3, GoToEffect DEF DrainTake, TypeOK, Entry, TickerPlace
  <2>2. \A u \in Tasks : Storing(u) => Storing(u)'
    BY <2>1 DEF Storing
  <2>3. \A u \in Tasks : Ended(u)' => Ended(u) /\ results[u] = "none"
    BY <1>3 DEF DrainTake, Ended, TypeOK
  <2>4. QED
    BY <2>1, <2>2, <2>3 DEF futures, WakeInv, Listening, ResultsComing, CallsComing
<1>4. ASSUME NEW t \in Tasks, Requeue(k, t) PROVE WakeInv'
  <2>1. \A l \in Tickers \ {k} : ticker'[l] = ticker[l]
    BY <1>4, RestEffect DEF Requeue, TypeOK, Entry
  <2>2. Unheard
    BY <1>4, <2>1 DEF Requeue, Unheard, Ended
  <2>3. QED
    BY <2>2, UnheardKeeps
<1>5. QED
  BY <1>1, <1>2, <1>3, <1>4, ExecuteUnheard, UnheardKeeps, EndWakes DEF TickerStep, Drain

LEMMA WakeStep == TypeOK /\ WakeInv /\ [Next]_vars => WakeInv'
<1>1. WakeInv /\ UNCHANGED vars => WakeInv'
  BY UnheardKeeps DEF vars, runtime, Unheard, Ended
<1>2. QED
  BY <1>1, ClientWakes, CancelWakes, TickerWakes DEF Next

\* No wakeup is lost (SystemFuture::poll against complete_task, fail_task and cancel_task): a
\* future that waits for a task that is over has been woken or will be, however its two
\* looks, the result and the call of its waker interleave, and whatever is drained meanwhile.
THEOREM NoLostWakeupHolds == Spec => []NoLostWakeup
<1>1. Init => WakeInv
  BY DEF Init, WakeInv, Listening, ResultsComing, CallsComing, Ended
<1>2. Spec => []TypeOK
  BY TypeInit, TypeStep, PTL DEF Spec
<1>3. WakeInv => NoLostWakeup
  <2> SUFFICES ASSUME WakeInv, NEW t \in Tasks, client[t] = "parked", t \notin woken,
                      Ended(t) \/ results[t] # "none"
               PROVE  t \in wakers /\ (Storing(t) \/ Waking(t))
    BY DEF NoLostWakeup
  <2>1. t \in wakers
    BY DEF WakeInv, Listening
  <2>2. CASE results[t] = "none"
    BY <2>1, <2>2 DEF WakeInv, ResultsComing
  <2>3. CASE results[t] # "none"
    BY <2>1, <2>3 DEF WakeInv, CallsComing
  <2>4. QED
    BY <2>2, <2>3
<1>4. QED
  BY <1>1, <1>2, <1>3, WakeStep, PTL DEF Spec

----------------------------------------------------------------------------
(* Borrows *)

\* Nothing is known of a task before it is registered.
FreshUnknown ==
    /\ \A t \in Tasks : client[t] = "new" => state[t] = "Absent" /\ results[t] = "none"
    /\ canceller.task \in Tasks => client[canceller.task] # "new"

\* What a system holds is what the handles of a task of it name, and that task runs, is
\* suspended or is about to end; or the task was drained, and its handles with it.
Accounts(t) ==
    \/ Drained(t)
    \/ /\ state[t] \in {"Running", "Suspended"} \/ Ending(t)
       /\ HeldBy(tracker, SystemOf[t]) \subseteq handles[t]

HeldForTask ==
    \A s \in Systems :
        HeldBy(tracker, s) # {} => \E t \in Tasks : SystemOf[t] = s /\ Accounts(t)

BorrowInv == FreshUnknown /\ BorrowSafe(tracker) /\ RunningHoldsAll /\ HeldForTask

LEMMA FreshStep == WayInv /\ FreshUnknown /\ [Next]_vars => FreshUnknown'
<1> SUFFICES ASSUME WayInv, FreshUnknown, [Next]_vars PROVE FreshUnknown'
  OBVIOUS
<1> USE DEF WayInv, FreshUnknown
<1>1. ASSUME NEW t \in Tasks, Client(t) PROVE FreshUnknown'
  <2>1. CASE RegisterTask(t)
    BY <2>1 DEF RegisterTask, TypeOK
  <2>2. CASE EnqueueTask(t) \/ AttachPlan(t) \/ Check(t) \/ RegisterWaker(t) \/ Recheck(t) \/ PollAgain(t)
    <3>1. /\ UNCHANGED <<state, results, canceller>>
          /\ client'[t] # "new" /\ \A u \in Tasks \ {t} : client'[u] = client[u]
      BY <2>2 DEF EnqueueTask, AttachPlan, Check, RegisterWaker, Recheck, PollAgain, Look, runtime, TypeOK
    <3>2. QED
      BY <3>1
  <2>3. QED
    BY <1>1, <2>1, <2>2 DEF Client
<1>2. ASSUME NEW t \in Tasks, CancelBegin(t) \/ CancelRest(t) PROVE FreshUnknown'
  <2>1. CASE CancelBegin(t)
    BY <2>1 DEF CancelBegin, futures, TypeOK
  <2>2. CASE CancelStore(t)
    <3>1. canceller.task = t /\ canceller'.task = t
      BY <2>2 DEF CancelStore, TypeOK
    <3>2. UNCHANGED <<client, state>> /\ \A u \in Tasks \ {t} : results'[u] = results[u]
      BY <2>2 DEF CancelStore, Store, futures, TypeOK
    <3>3. QED
      BY <3>1, <3>2
  <2>3. CASE CancelWake(t)
    BY <2>3, RuntimeAssumption DEF CancelWake, runtime
  <2>4. QED
    BY <1>2, <2>1, <2>2, <2>3 DEF CancelRest
<1>3. ASSUME NEW k \in Tickers, NEW t \in Tasks, ExecuteTaskStep(k, t) PROVE FreshUnknown'
  <2>1. /\ UNCHANGED <<client, results, canceller>>
        /\ \A u \in Tasks \ {t} : state'[u] = state[u]
        /\ state[t] = "Absent" => state'[t] = "Absent"
    BY <1>3 DEF ExecuteTaskStep, StepOfMissing, StepTimesOut, AcquireResources, StepWithoutPlan, StepFails,
                StepContinues, StepYields, StepCompletes, StepOfCancelled, Holds, runtime, futures, TypeOK
  <2>2. QED
    BY <2>1
<1>4. ASSUME NEW k \in Tickers, NEW t \in Tasks, Requeue(k, t) \/ CompleteTask(k, t) \/ FailTask(k, t)
      PROVE  FreshUnknown'
  <2>1. client[t] # "new"
    <3>1. ticker[k].task = t
      BY <1>4 DEF Requeue, CompleteTask, FailTask, StoreResult, WakeFuture, ReleaseAndForget,
                  MarkFailed, StoreError, WakeFailed
    <3>2. QED
      BY <3>1 DEF OnePlace, ClientsFirst, InHand
  <2>2. /\ UNCHANGED <<client, canceller>>
        /\ \A u \in Tasks \ {t} : state'[u] = state[u] /\ results'[u] = results[u]
    BY <1>4 DEF Requeue, CompleteTask, FailTask, StoreResult, WakeFuture, ReleaseAndForget,
                MarkFailed, StoreError, WakeFailed, Store, runtime, futures, TypeOK
  <2>3. QED
    BY <2>1, <2>2
<1>5. ASSUME NEW k \in Tickers, TakeTask(k) \/ TakeNothing(k) \/ Drain(k) PROVE FreshUnknown'
  BY <1>5 DEF TakeTask, TakeNothing, Drain, DrainNothing, DrainBegin, DrainTake, runtime, futures
<1>6. CASE UNCHANGED vars
  BY <1>6 DEF vars, runtime, futures
<1>7. QED
  BY <1>1, <1>2, <1>3, <1>4, <1>5, <1>6 DEF Next, TickerStep

\* A step that does not start u leaves what accounts for its borrows, or drains it.
Active(u) == state[u] \in {"Running", "Suspended"} \/ Ending(u)
Keeps(u) ==
    /\ Drained(u) => Drained(u)'
    /\ Active(u) => Drained(u)' \/ (Active(u)' /\ handles'[u] = handles[u])
    /\ state'[u] = "Running" => state[u] = "Running"

\* A loop that deals with one task touches no other.
LEMMA OthersKept ==
    ASSUME WayInv, NEW k \in Tickers, NEW t \in Tasks, ticker[k].task = t,
           ticker'[k].task \in {t, NoTask}, \A l \in Tickers \ {k} : ticker'[l] = ticker[l],
           UNCHANGED client, \A u \in Tasks \ {t} : state'[u] = state[u] /\ handles'[u] = handles[u]
    PROVE  \A u \in Tasks \ {t} : Keeps(u)
<1> SUFFICES ASSUME NEW u \in Tasks \ {t} PROVE Keeps(u)
  OBVIOUS
<1>1. Ending(u)' <=> Ending(u)
  BY RuntimeAssumption DEF Ending
<1>2. QED
  BY <1>1 DEF Keeps, Active, Drained

\* In the hand of a loop that is elsewhere, a task is not about to end.
LEMMA NotEnding ==
    ASSUME WayInv, NEW k \in Tickers, NEW t \in Tasks, ticker[k].task = t,
           ticker[k].pc \notin {"fail", "store", "wake", "release"}
    PROVE  ~Ending(t)
BY RuntimeAssumption DEF WayInv, OnePlace, HandsDistinct, Ending

\* Every step leaves the borrow table alone, gives back what the handles of one task name, or
\* acquires for one task; and it keeps the account of all other tasks.
Releases(t) == /\ tracker' = ReleaseTask(t) /\ UNCHANGED handles
               /\ state[t] # "Absent" /\ state'[t] # "Running"

LEMMA ExecuteKeeps ==
    ASSUME WayInv, FreshUnknown, NEW k \in Tickers, NEW t \in Tasks, ExecuteTaskStep(k, t)
    PROVE  \/ UNCHANGED tracker /\ \A u \in Tasks : Keeps(u)
           \/ AcquireResources(k, t) /\ \A u \in Tasks \ {t} : Keeps(u)
<1>0. ticker[k].task = t /\ ticker[k].pc = "step" /\ ~Ending(t)
  <2>1. ticker[k].task = t /\ ticker[k].pc = "step"
    BY DEF ExecuteTaskStep, StepOfMissing, StepTimesOut, AcquireResources, StepWithoutPlan, StepFails,
           StepContinues, StepYields, StepCompletes, StepOfCancelled, Holds, At
  <2>2. QED
    BY <2>1, NotEnding
<1>1. /\ ticker'[k].task \in {t, NoTask} /\ \A l \in Tickers \ {k} : ticker'[l] = ticker[l]
      /\ UNCHANGED client
  <2>1. Rest(k) \/ \E place \in TickerPlace : GoTo(k, place)
    BY DEF ExecuteTaskStep, StepOfMissing, StepTimesOut, AcquireResources, StepWithoutPlan, StepFails,
           StepContinues, StepYields, StepCompletes, StepOfCancelled, TickerPlace
  <2>2. UNCHANGED client
    BY DEF ExecuteTaskStep, StepOfMissing, StepTimesOut, AcquireResources, StepWithoutPlan, StepFails,
           StepContinues, StepYields, StepCompletes, StepOfCancelled, futures
  <2>3. QED
    BY <1>0, <2>1, <2>2, GoToEffect, RestEffect DEF WayInv, TypeOK, Entry
<1>2. \A u \in Tasks \ {t} : state'[u] = state[u] /\ handles'[u] = handles[u]
  BY DEF ExecuteTaskStep, StepOfMissing, StepTimesOut, AcquireResources, StepWithoutPlan, StepFails,
         StepContinues, StepYields, StepCompletes, StepOfCancelled, runtime, WayInv, TypeOK
<1>3. \A u \in Tasks \ {t} : Keeps(u)
  BY <1>0, <1>1, <1>2, OthersKept
<1>4. CASE StepOfMissing(k, t) \/ StepTimesOut(k, t) \/ StepWithoutPlan(k, t) \/ StepFails(k, t)
  <2>1. GoTo(k, "fail") /\ UNCHANGED <<state, handles, tracker, client>>
    BY <1>4 DEF StepOfMissing, StepTimesOut, StepWithoutPlan, StepFails, runtime, futures
  <2>2. ticker'[k].pc = "fail" /\ ticker'[k].task = t
    BY <1>0, <2>1, GoToEffect DEF TickerPlace, WayInv, TypeOK, Entry
  <2>3. Keeps(t)
    BY <2>1, <2>2 DEF Keeps, Active, Ending, Drained
  <2>4. QED
    BY <1>3, <2>1, <2>3
<1>5. CASE StepContinues(k, t)
  <2>1. UNCHANGED <<state, handles, tracker, client>>
    BY <1>5 DEF StepContinues, futures
  <2>2. QED
    BY <1>0, <1>3, <2>1 DEF Keeps, Active, Drained
<1>6. CASE StepYields(k, t) \/ StepOfCancelled(k, t)
  <2>1. UNCHANGED <<handles, tracker, client>>
    BY <1>6 DEF StepYields, StepOfCancelled, runtime, futures
  <2>2. /\ state[t] # "Absent" /\ state'[t] # "Running"
        /\ state[t] \in {"Running", "Suspended"} => state'[t] = "Suspended"
    BY <1>6 DEF StepYields, StepOfCancelled, Holds, runtime, WayInv, TypeOK
  <2>3. Keeps(t)
    BY <1>0, <2>1, <2>2 DEF Keeps, Active, Drained
  <2>4. QED
    BY <1>3, <2>1, <2>3
<1>7. CASE StepCompletes(k, t)
  <2>1. GoTo(k, "store") /\ UNCHANGED <<handles, tracker, client>>
    BY <1>7 DEF StepCompletes, futures
  <2>2. state[t] = "Running" /\ state'[t] = "Completed"
    BY <1>7 DEF StepCompletes, Holds, WayInv, TypeOK
  <2>3. ticker'[k].pc = "store" /\ ticker'[k].task = t
    BY <1>0, <2>1, GoToEffect DEF TickerPlace, WayInv, TypeOK, Entry
  <2>4. Keeps(t)
    BY <2>1, <2>2, <2>3 DEF Keeps, Active, Ending, Drained
  <2>5. QED
    BY <1>3, <2>1, <2>4
<1>8. QED
  BY <1>3, <1>4, <1>5, <1>6, <1>7 DEF ExecuteTaskStep

LEMMA EndKeeps ==
    ASSUME WayInv, FreshUnknown, NEW k \in Tickers, NEW t \in Tasks,
           Requeue(k, t) \/ CompleteTask(k, t) \/ FailTask(k, t)
    PROVE  \/ UNCHANGED tracker /\ \A u \in Tasks : Keeps(u)
           \/ Releases(t) /\ \A u \in Tasks \ {t} : Keeps(u)
<1>0. ticker[k].task = t /\ client[t] # "new"
  <2>1. ticker[k].task = t
    BY DEF Requeue, CompleteTask, FailTask, StoreResult, WakeFuture, ReleaseAndForget,
           MarkFailed, StoreError, WakeFailed
  <2>2. QED
    BY <2>1 DEF WayInv, OnePlace, ClientsFirst, InHand
<1>1. /\ ticker'[k].task \in {t, NoTask} /\ \A l \in Tickers \ {k} : ticker'[l] = ticker[l]
      /\ UNCHANGED <<client, handles>>
  <2>1. Rest(k) \/ \E place \in TickerPlace : GoTo(k, place)
    BY DEF Requeue, CompleteTask, FailTask, StoreResult, WakeFuture, ReleaseAndForget,
           MarkFailed, StoreError, WakeFailed, TickerPlace
  <2>2. UNCHANGED <<client, handles>>
    BY DEF Requeue, CompleteTask, FailTask, StoreResult, WakeFuture, ReleaseAndForget,
           MarkFailed, StoreError, WakeFailed, runtime, futures
  <2>3. QED
    BY <1>0, <2>1, <2>2, GoToEffect, RestEffect DEF WayInv, TypeOK, Entry
<1>2. \A u \in Tasks \ {t} : state'[u] = state[u] /\ handles'[u] = handles[u]
  BY <1>1 DEF Requeue, CompleteTask, FailTask, StoreResult, WakeFuture, ReleaseAndForget,
              MarkFailed, StoreError, WakeFailed, runtime, WayInv, TypeOK
<1>3. \A u \in Tasks \ {t} : Keeps(u)
  BY <1>0, <1>1, <1>2, OthersKept
<1>4. CASE Requeue(k, t) \/ StoreError(k, t) \/ WakeFailed(k, t)
  <2>1. ~Ending(t) /\ UNCHANGED <<state, tracker>>
    <3>1. ticker[k].pc \notin {"fail", "store", "wake", "release"}
      BY <1>4 DEF Requeue, StoreError, WakeFailed, At
    <3>2. UNCHANGED <<state, tracker>>
      BY <1>4 DEF Requeue, StoreError, WakeFailed, runtime
    <3>3. QED
      BY <1>0, <3>1, <3>2, NotEnding
  <2>2. Keeps(t)
    BY <1>1, <2>1 DEF Keeps, Active, Drained
  <2>3. QED
    BY <1>3, <2>1, <2>2
<1>5. CASE StoreResult(k, t) \/ WakeFuture(k, t)
  <2>1. GoTo(k, "wake") \/ GoTo(k, "release")
    BY <1>5 DEF StoreResult, WakeFuture
  <2>2. UNCHANGED <<state, tracker>>
    BY <1>5 DEF StoreResult, WakeFuture, runtime
  <2>3. ticker'[k].pc \in {"wake", "release"} /\ ticker'[k].task = t
    BY <1>0, <2>1, GoToEffect DEF TickerPlace, WayInv, TypeOK, Entry
  <2>4. Keeps(t)
    BY <1>1, <2>2, <2>3 DEF Keeps, Active, Ending, Drained
  <2>5. QED
    BY <1>3, <2>2, <2>4
<1>6. CASE ReleaseAndForget(k, t) \/ MarkFailed(k, t)
  <2>1. CASE state[t] = "Absent"
    <3>1. UNCHANGED <<state, tracker>>
      BY <1>6, <2>1 DEF ReleaseAndForget, MarkFailed
    <3>2. Keeps(t)
      BY <1>0, <1>1, <2>1, <3>1 DEF Keeps, Drained
    <3>3. QED
      BY <1>3, <3>1, <3>2
  <2>2. CASE state[t] # "Absent"
    <3>1. tracker' = ReleaseTask(t)
      BY <1>6, <2>2 DEF ReleaseAndForget, MarkFailed
    <3>2. CASE ReleaseAndForget(k, t)
      BY <1>0, <1>1, <1>3, <2>2, <3>1, <3>2 DEF ReleaseAndForget, Releases, At, WayInv, NotLost
    <3>3. CASE MarkFailed(k, t)
      <4>1. state'[t] # "Running"
        BY <2>2, <3>3 DEF MarkFailed, WayInv, TypeOK
      <4>2. QED
        BY <1>1, <1>3, <2>2, <3>1, <4>1 DEF Releases
    <3>4. QED
      BY <1>6, <3>2, <3>3
  <2>3. QED
    BY <2>1, <2>2
<1>7. QED
  BY <1>4, <1>5, <1>6 DEF CompleteTask, FailTask

LEMMA StepKinds ==
    ASSUME WayInv, FreshUnknown, [Next]_vars
    PROVE  \/ UNCHANGED tracker /\ \A u \in Tasks : Keeps(u)
           \/ \E t \in Tasks : Releases(t) /\ \A u \in Tasks \ {t} : Keeps(u)
           \/ \E k \in Tickers, t \in Tasks :
                 AcquireResources(k, t) /\ \A u \in Tasks \ {t} : Keeps(u)
<1> DEFINE Quiet == UNCHANGED tracker /\ \A u \in Tasks : Keeps(u)
<1>1. ASSUME NEW t \in Tasks, Client(t) PROVE Quiet
  <2>1. UNCHANGED <<tracker, handles, ticker>>
    BY <1>1 DEF Client, RegisterTask, EnqueueTask, AttachPlan, Check, RegisterWaker, Recheck, PollAgain,
                Look, runtime
  <2>2. \A u \in Tasks : Ending(u)' <=> Ending(u)
    BY <2>1 DEF Ending
  <2>3. CASE RegisterTask(t)
    <3>1. state[t] = "Absent" /\ client[t] = "new" /\ ~Ending(t) /\ state'[t] = "Pending"
      BY <2>3 DEF RegisterTask, FreshUnknown, WayInv, TypeOK, OnePlace, ClientsFirst, InHand, Ending
    <3>2. \A u \in Tasks \ {t} : state'[u] = state[u] /\ client'[u] = client[u]
      BY <2>3 DEF RegisterTask, WayInv, TypeOK
    <3>3. QED
      BY <2>1, <2>2, <3>1, <3>2 DEF Keeps, Active, Drained
  <2>4. CASE ~RegisterTask(t)
    <3>1. UNCHANGED state /\ client'[t] # "new" /\ \A u \in Tasks \ {t} : client'[u] = client[u]
      BY <1>1, <2>4 DEF Client, EnqueueTask, AttachPlan, Check, RegisterWaker, Recheck, PollAgain, Look,
                        runtime, WayInv, TypeOK
    <3>2. QED
      BY <2>1, <2>2, <3>1 DEF Keeps, Active, Drained
  <2>5. QED
    BY <2>3, <2>4
<1>2. ASSUME NEW t \in Tasks, CancelBegin(t)
      PROVE  Releases(t) /\ \A u \in Tasks \ {t} : Keeps(u)
  <2>1. /\ UNCHANGED <<handles, ticker, client>> /\ tracker' = ReleaseTask(t)
        /\ state[t] # "Absent" /\ state'[t] = "Cancelled"
        /\ \A u \in Tasks \ {t} : state'[u] = state[u]
    BY <1>2 DEF CancelBegin, futures, WayInv, TypeOK
  <2>2. \A u \in Tasks : Ending(u)' <=> Ending(u)
    BY <2>1 DEF Ending
  <2>3. QED
    BY <2>1, <2>2 DEF Releases, Keeps, Active, Drained
<1>3. CASE (\E t \in Tasks : CancelRest(t)) \/ UNCHANGED vars
  <2>1. UNCHANGED <<tracker, handles, ticker, client, state>>
    BY <1>3 DEF CancelRest, CancelStore, CancelWake, vars, runtime, futures
  <2>2. \A u \in Tasks : Ending(u)' <=> Ending(u)
    BY <2>1 DEF Ending
  <2>3. QED
    BY <2>1, <2>2 DEF Keeps, Active, Drained
<1>4. ASSUME NEW k \in Tickers, TakeTask(k) \/ TakeNothing(k) \/ Drain(k) PROVE Quiet
  <2>1. UNCHANGED <<tracker, client>>
    BY <1>4 DEF TakeTask, TakeNothing, Drain, DrainNothing, DrainBegin, DrainTake, runtime, futures
  <2>2. \A u \in Tasks : \/ state'[u] = state[u] /\ handles'[u] = handles[u]
                         \/ results[u] # "none" /\ state'[u] = "Absent"
    BY <1>4 DEF TakeTask, TakeNothing, Drain, DrainNothing, DrainBegin, DrainTake, runtime
  <2>3. \A u \in Tasks : Ending(u) => Ending(u)'
    <3>1. ticker[k].pc \in {"idle", "drain", "draining"}
      BY <1>4 DEF TakeTask, TakeNothing, Drain, DrainNothing, DrainBegin, DrainTake, At
    <3>2. \A l \in Tickers \ {k} : ticker'[l] = ticker[l]
      BY <1>4 DEF TakeTask, TakeNothing, Drain, DrainNothing, DrainBegin, DrainTake, GoTo, WayInv, TypeOK
    <3>3. QED
      BY <3>1, <3>2 DEF Ending
  <2>4. QED
    BY <2>1, <2>2, <2>3 DEF Keeps, Active, Drained, FreshUnknown
<1>5. QED
  BY <1>1, <1>2, <1>3, <1>4, ExecuteKeeps, EndKeeps DEF Next, TickerStep

LEMMA ReleasesEffect ==
    ASSUME WayInv, NEW t \in Tasks, Releases(t)
    PROVE  /\ HeldBy(tracker', SystemOf[t]) = HeldBy(tracker, SystemOf[t]) \ handles[t]
           /\ \A s \in Systems \ {SystemOf[t]} : HeldBy(tracker', s) = HeldBy(tracker, s)
<1>1. tracker \in Tracker /\ handles[t] \in SUBSET Claim /\ SystemOf[t] \in Systems
  BY RuntimeAssumption DEF WayInv, TypeOK
<1>2. QED
  BY <1>1, ReleaseGrants DEF Releases, ReleaseTask

LEMMA AcquireEffect ==
    ASSUME WayInv, NEW k \in Tickers, NEW t \in Tasks, AcquireResources(k, t)
    PROVE  /\ HeldBy(tracker', SystemOf[t]) = HeldBy(tracker, SystemOf[t]) \cup Granted(t)
           /\ \A s \in Systems \ {SystemOf[t]} : HeldBy(tracker', s) = HeldBy(tracker, s)
<1>1. tracker \in Tracker
  BY DEF WayInv, TypeOK
<1>2. QED
  BY <1>1, AcquireGrants, ClaimsType DEF AcquireResources

\* The aliasing rule needs no assumption on the systems of the tasks.
LEMMA SafeStep ==
    ASSUME WayInv, FreshUnknown, BorrowSafe(tracker), [Next]_vars
    PROVE  BorrowSafe(tracker')
<1>0. tracker \in Tracker /\ handles \in [Tasks -> SUBSET Claim]
  BY DEF WayInv, TypeOK
<1>1. ASSUME NEW t \in Tasks, Releases(t) PROVE BorrowSafe(tracker')
  BY <1>0, <1>1, ClaimsType, ReleaseSafe DEF Releases, ReleaseTask
<1>2. ASSUME NEW k \in Tickers, NEW t \in Tasks, AcquireResources(k, t) PROVE BorrowSafe(tracker')
  BY <1>0, <1>2, ClaimsType, AcquireSafe DEF AcquireResources
<1>3. QED
  BY <1>1, <1>2, StepKinds

\* No two tasks run the same system: scheduled twice at once, a system would hold its
\* borrows once for both, and the first of them to end would give them back.
OwnSystems == \A t, u \in Tasks : SystemOf[t] = SystemOf[u] => t = u

LEMMA RunningStep ==
    ASSUME OwnSystems, WayInv, FreshUnknown, RunningHoldsAll, [Next]_vars
    PROVE  RunningHoldsAll'
<1> SUFFICES ASSUME NEW u \in Tasks, state'[u] = "Running"
             PROVE  SystemClaims(u) \subseteq HeldBy(tracker', SystemOf[u])
  BY DEF RunningHoldsAll, SystemClaims
<1>0. \A t \in Tasks : SystemOf[t] \in Systems
  BY ClaimsType
<1>1. CASE UNCHANGED tracker /\ \A v \in Tasks : Keeps(v)
  BY <1>1 DEF Keeps, RunningHoldsAll
<1>2. ASSUME NEW t \in Tasks, Releases(t), \A v \in Tasks \ {t} : Keeps(v)
      PROVE  SystemClaims(u) \subseteq HeldBy(tracker', SystemOf[u])
  <2>1. u # t /\ state[u] = "Running"
    BY <1>2 DEF Releases, Keeps
  <2>2. SystemOf[u] # SystemOf[t]
    BY <2>1 DEF OwnSystems
  <2>3. QED
    BY <1>0, <1>2, <2>1, <2>2, ReleasesEffect DEF RunningHoldsAll
<1>3. ASSUME NEW k \in Tickers, NEW t \in Tasks, AcquireResources(k, t), \A v \in Tasks \ {t} : Keeps(v)
      PROVE  SystemClaims(u) \subseteq HeldBy(tracker', SystemOf[u])
  <2>1. CASE u = t
    <3>1. Granted(t) = SystemClaims(t)
      BY <1>3, <2>1 DEF AcquireResources, Holds
    <3>2. QED
      BY <1>3, <2>1, <3>1, AcquireEffect
  <2>2. CASE u # t
    <3>1. state[u] = "Running" /\ SystemOf[u] # SystemOf[t]
      BY <1>3, <2>2 DEF Keeps, OwnSystems
    <3>2. QED
      BY <1>0, <1>3, <3>1, AcquireEffect DEF RunningHoldsAll
  <2>3. QED
    BY <2>1, <2>2
<1>4. QED
  BY <1>1, <1>2, <1>3, StepKinds

\* A task that is still pending has nothing, and nor has its system.
LEMMA PendingHoldsNothing ==
    ASSUME OwnSystems, WayInv, HeldForTask, NEW k \in Tickers, NEW t \in Tasks, AcquireResources(k, t)
    PROVE  HeldBy(tracker, SystemOf[t]) = {}
<1>1. state[t] = "Pending" /\ ~Ending(t)
  BY NotEnding DEF AcquireResources, Holds, At
<1>2. \A u \in Tasks : SystemOf[u] = SystemOf[t] => ~Accounts(u)
  BY <1>1 DEF OwnSystems, Accounts, Drained
<1>3. QED
  BY <1>2, ClaimsType DEF HeldForTask

LEMMA ReleaseEmpties ==
    ASSUME OwnSystems, WayInv, HeldForTask, NEW t \in Tasks, Releases(t)
    PROVE  HeldBy(tracker', SystemOf[t]) = {}
<1>1. CASE HeldBy(tracker, SystemOf[t]) = {}
  BY <1>1, ReleasesEffect
<1>2. CASE HeldBy(tracker, SystemOf[t]) # {}
  <2>1. Accounts(t)
    BY <1>2, ClaimsType DEF HeldForTask, OwnSystems
  <2>2. HeldBy(tracker, SystemOf[t]) \subseteq handles[t]
    BY <2>1 DEF Accounts, Drained, Releases
  <2>3. QED
    BY <2>2, ReleasesEffect
<1>3. QED
  BY <1>1, <1>2

LEMMA HeldStep ==
    ASSUME OwnSystems, WayInv, FreshUnknown, HeldForTask, [Next]_vars
    PROVE  HeldForTask'
<1> SUFFICES ASSUME NEW s \in Systems, HeldBy(tracker', s) # {}
             PROVE  \E t \in Tasks : SystemOf[t] = s /\ Accounts(t)'
  BY DEF HeldForTask
<1>1. ASSUME HeldBy(tracker', s) = HeldBy(tracker, s),
             \A u \in Tasks : SystemOf[u] = s => Keeps(u)
      PROVE  \E t \in Tasks : SystemOf[t] = s /\ Accounts(t)'
  <2>1. PICK u \in Tasks : SystemOf[u] = s /\ Accounts(u)
    BY <1>1 DEF HeldForTask
  <2>2. Accounts(u)'
    BY <1>1, <2>1 DEF Accounts, Keeps, Active
  <2>3. QED
    BY <2>1, <2>2
<1>2. CASE UNCHANGED tracker /\ \A u \in Tasks : Keeps(u)
  BY <1>1, <1>2
<1>3. ASSUME NEW t \in Tasks, Releases(t), \A u \in Tasks \ {t} : Keeps(u)
      PROVE  \E v \in Tasks : SystemOf[v] = s /\ Accounts(v)'
  <2>1. s # SystemOf[t]
    BY <1>3, ReleaseEmpties
  <2>2. QED
    BY <1>1, <1>3, <2>1, ReleasesEffect
<1>4. ASSUME NEW k \in Tickers, NEW t \in Tasks, AcquireResources(k, t), \A u \in Tasks \ {t} : Keeps(u)
      PROVE  \E v \in Tasks : SystemOf[v] = s /\ Accounts(v)'
  <2>1. CASE s = SystemOf[t]
    <3>1. HeldBy(tracker', s) = handles'[t]
      BY <1>4, <2>1, AcquireEffect, PendingHoldsNothing DEF AcquireResources, WayInv, TypeOK
    <3>2. state'[t] = "Running" \/ Ending(t)'
      <4>1. CASE Granted(t) = SystemClaims(t)
        BY <1>4, <4>1 DEF AcquireResources, WayInv, TypeOK
      <4>2. CASE Granted(t) # SystemClaims(t)
        <5>1. GoTo(k, "fail") /\ ticker[k].task = t
          BY <1>4, <4>2 DEF AcquireResources, Holds
        <5>2. ticker'[k].pc = "fail" /\ ticker'[k].task = t
          BY <5>1, GoToEffect DEF TickerPlace, WayInv, TypeOK, Entry
        <5>3. QED
          BY <5>2 DEF Ending
      <4>3. QED
        BY <4>1, <4>2
    <3>3. Accounts(t)'
      BY <2>1, <3>1, <3>2 DEF Accounts
    <3>4. QED
      BY <2>1, <3>3
  <2>2. CASE s # SystemOf[t]
    BY <1>1, <1>4, <2>2, AcquireEffect
  <2>3. QED
    BY <2>1, <2>2
<1>5. QED
  BY <1>2, <1>3, <1>4, StepKinds

LEMMA BorrowInit == Init => FreshUnknown /\ BorrowSafe(tracker) /\ RunningHoldsAll /\ HeldForTask
<1> SUFFICES ASSUME Init PROVE FreshUnknown /\ BorrowSafe(tracker) /\ RunningHoldsAll /\ HeldForTask
  OBVIOUS
<1>1. FreshUnknown /\ RunningHoldsAll
  BY RuntimeAssumption DEF Init, FreshUnknown, RunningHoldsAll
<1>2. BorrowSafe(tracker)
  BY DEF Init, EmptyTracker, BorrowSafe
<1>3. \A s \in Systems : HeldBy(tracker, s) = {}
  BY NoSystemAssumption DEF Init, EmptyTracker, HeldBy, Claim
<1>4. QED
  BY <1>1, <1>2, <1>3 DEF HeldForTask

LEMMA BorrowHolds == OwnSystems => (Spec => []BorrowInv)
<1> SUFFICES ASSUME OwnSystems PROVE Spec => []BorrowInv
  OBVIOUS
<1>1. Init => BorrowInv
  BY BorrowInit DEF BorrowInv
<1>2. WayInv /\ BorrowInv /\ [Next]_vars => BorrowInv'
  BY FreshStep, SafeStep, RunningStep, HeldStep DEF BorrowInv, BorrowSafe
<1>3. QED
  BY <1>1, <1>2, WayHolds, PTL DEF Spec

\* A running task holds every resource its system has declared (acquire_task_resources), until
\* it ends or is cancelled: no release for another task takes one from it.
THEOREM RunningHoldsAllHolds ==
    ASSUME OwnSystems
    PROVE  Spec => []RunningHoldsAll
BY BorrowHolds, PTL DEF BorrowInv

\* Tasks of different systems that run at once have compatible declarations, however ticks,
\* failures, cancellations and drains interleave.
THEOREM TasksBorrowSafeHolds ==
    ASSUME OwnSystems
    PROVE  Spec => []TasksBorrowSafe
<1>1. WayInv /\ BorrowInv => TasksBorrowSafe
  <2> SUFFICES ASSUME WayInv, BorrowInv, NEW t \in Tasks, NEW u \in Tasks, t # u,
                      state[t] = "Running", state[u] = "Running",
                      NEW c \in SystemClaims(t), NEW d \in SystemClaims(u)
               PROVE  Compatible(c, d)
    BY DEF TasksBorrowSafe
  <2>1. SystemOf[t] \in Systems /\ SystemOf[u] \in Systems \ {SystemOf[t]}
    BY ClaimsType DEF OwnSystems
  <2>2. c \in HeldBy(tracker, SystemOf[t]) /\ d \in HeldBy(tracker, SystemOf[u])
    BY DEF BorrowInv, RunningHoldsAll
  <2>3. tracker \in Tracker /\ BorrowSafe(tracker)
    BY DEF WayInv, TypeOK, BorrowInv
  <2>4. QED
    BY <2>1, <2>2, <2>3, SafeIsCompatible
<1>2. QED
  BY <1>1, BorrowHolds, WayHolds, PTL

\* A system holds nothing once its task has completed, failed or was cancelled and the loop
\* has let go of it (complete_task, fail_task, cancel_task), unless the task was drained first.
THEOREM BorrowsReturnedHolds ==
    ASSUME OwnSystems
    PROVE  Spec => []BorrowsReturned
<1>1. BorrowInv => BorrowsReturned
  BY DEF BorrowInv, HeldForTask, Accounts, BorrowsReturned
<1>2. QED
  BY <1>1, BorrowHolds, PTL

----------------------------------------------------------------------------
(* The abstract borrow rules *)

\* A system runs, as the rules see it, while it holds something.
Rules == INSTANCE BorrowRules WITH
            running <- {s \in Systems : HeldBy(tracker, s) # {}},
            grant <- [s \in Systems |-> HeldBy(tracker, s)]

LEMMA RulesStep ==
    ASSUME OwnSystems, WayInv, BorrowInv, [Next]_vars
    PROVE  Rules!Next \/ UNCHANGED Rules!vars
<1> DEFINE grant == [s \in Systems |-> HeldBy(tracker, s)]
           running == {s \in Systems : HeldBy(tracker, s) # {}}
<1> USE DEF BorrowInv
<1>1. ASSUME \A s \in Systems : HeldBy(tracker', s) = HeldBy(tracker, s)
      PROVE  UNCHANGED Rules!vars
  <2>1. grant' = grant /\ running' = running
    BY <1>1
  <2>2. QED
    BY <2>1 DEF Rules!vars
<1>2. ASSUME NEW t \in Tasks, Releases(t) PROVE Rules!Next \/ UNCHANGED Rules!vars
  <2> DEFINE s == SystemOf[t]
  <2>1. s \in Systems
    BY ClaimsType
  <2>2. HeldBy(tracker', s) = {} /\ \A u \in Systems \ {s} : HeldBy(tracker', u) = HeldBy(tracker, u)
    BY <1>2, ReleaseEmpties, ReleasesEffect
  <2> HIDE DEF s
  <2>3. CASE HeldBy(tracker, s) = {}
    BY <1>1, <2>2, <2>3
  <2>4. CASE HeldBy(tracker, s) # {}
    <3>1. grant' = [grant EXCEPT ![s] = {}] /\ s \in running /\ running' = running \ {s}
      BY <2>1, <2>2, <2>4
    <3>2. Rules!Finish(s)
      BY <3>1 DEF Rules!Finish
    <3>3. QED
      BY <2>1, <3>2 DEF Rules!Next
  <2>5. QED
    BY <2>3, <2>4
<1>3. ASSUME NEW k \in Tickers, NEW t \in Tasks, AcquireResources(k, t)
      PROVE  Rules!Next \/ UNCHANGED Rules!vars
  <2> DEFINE s == SystemOf[t]
             C == Granted(t)
  <2>1. s \in Systems /\ C \in SUBSET Claim /\ \A c \in C : CanAccess(tracker, c[1], s, c[2])
    BY ClaimsType
  <2>2. HeldBy(tracker, s) = {} /\ HeldBy(tracker', s) = C
        /\ \A u \in Systems \ {s} : HeldBy(tracker', u) = HeldBy(tracker, u)
    BY <1>3, PendingHoldsNothing, AcquireEffect
  <2> HIDE DEF s, C
  <2>3. CASE C = {}
    BY <1>1, <2>2, <2>3
  <2>4. CASE C # {}
    <3>1. grant' = [grant EXCEPT ![s] = C] /\ s \notin running /\ running' = running \cup {s}
      BY <2>1, <2>2, <2>4
    <3>2. \A u \in Systems \ {s} : Rules!Disjoint(C, grant[u])
      <4>1. tracker \in Tracker
        BY DEF WayInv, TypeOK
      <4>2. \A u \in Systems \ {s} : \A c \in C, d \in HeldBy(tracker, u) : Compatible(c, d)
        BY <2>1, <4>1, CheckedIsCompatible
      <4>3. QED
        BY <4>2 DEF Compatible, Rules!Disjoint, Rules!ReadOnly
    <3>3. C \in SUBSET Rules!Claim
      BY <2>1 DEF Claim, Access, Rules!Claim
    <3>4. Rules!Start(s)
      BY <3>1, <3>2, <3>3 DEF Rules!Start
    <3>5. QED
      BY <2>1, <3>4 DEF Rules!Next
  <2>5. QED
    BY <2>3, <2>4
<1>4. QED
  BY <1>1, <1>2, <1>3, StepKinds

\* The runtime keeps the borrow rules of the scheduler: all that acquire_task_resources grants is
\* compatible with what every other system holds, and all of it is given back at once.
THEOREM RuntimeImplementsBorrowRules ==
    ASSUME OwnSystems
    PROVE  Spec => Rules!Spec
<1>1. Init => Rules!Init
  BY NoSystemAssumption DEF Init, Rules!Init, EmptyTracker, HeldBy, Claim
<1>2. WayInv /\ BorrowInv /\ [Next]_vars => [Rules!Next]_(Rules!vars)
  BY RulesStep
<1>3. QED
  BY <1>1, <1>2, WayHolds, BorrowHolds, PTL DEF Spec, Rules!Spec
============================================================================
