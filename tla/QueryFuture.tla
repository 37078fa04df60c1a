---------------------------- MODULE QueryFuture ----------------------------
(***************************************************************************)
(* The future of one query (async_table_integration.rs, QueryFuture) and   *)
(* its clones, which share the result and the one slot for a waker.  A     *)
(* poll and a completion are two critical sections each.                   *)
(*                                                                         *)
(* The thread that start_query_execution spawns only sleeps: a future is   *)
(* completed by whoever has a clone of it (complete is public).            *)
(***************************************************************************)
EXTENDS FiniteSets, Integers

CONSTANTS
    Clients,       \* who poll a clone each
    QueryTimeout   \* in ticks

VARIABLES
    result,      \* is there one?
    waker,       \* the client whose waker is stored, in a set, or {}
    left,        \* time until the timeout
    pc,          \* what each client does with its clone
    completing   \* where the call of complete is

futureVars == <<result, waker, left, pc, completing>>

FutureInit ==
    /\ result = FALSE
    /\ waker = {}
    /\ left = QueryTimeout
    /\ pc = [c \in Clients |-> "awake"]
    /\ completing = "no"

GoesTo(c, place) == pc' = [pc EXCEPT ![c] = place]

TimesOut(c) ==
    /\ pc[c] = "awake" /\ left = 0
    /\ GoesTo(c, "timeout")
    /\ UNCHANGED <<result, waker, left, completing>>

\* Mutant of TakesResult: the result is copied out.
CopiesResult(c) ==
    /\ pc[c] = "awake" /\ left > 0 /\ result
    /\ GoesTo(c, "result")
    /\ UNCHANGED <<result, waker, left, completing>>

TakesResult(c) ==
    /\ pc[c] = "awake" /\ left > 0 /\ result
    /\ result' = FALSE
    /\ GoesTo(c, "result")
    /\ UNCHANGED <<waker, left, completing>>

FindsNothing(c) ==
    /\ pc[c] = "awake" /\ left > 0 /\ ~result
    /\ GoesTo(c, "store")
    /\ UNCHANGED <<result, waker, left, completing>>

\* The waker of one clone takes the place of another's.
StoresWaker(c) ==
    /\ pc[c] = "store"
    /\ waker' = {c}
    /\ GoesTo(c, "asleep")
    /\ UNCHANGED <<result, left, completing>>

\* An executor may poll a future that did not wake it.
PolledAgain(c) ==
    /\ pc[c] = "asleep"
    /\ GoesTo(c, "awake")
    /\ UNCHANGED <<result, waker, left, completing>>

Poll(c) == TimesOut(c) \/ TakesResult(c) \/ FindsNothing(c) \/ StoresWaker(c) \/ PolledAgain(c)

\* complete is called once (input bound): it stores the result ...
StoreResult ==
    /\ completing = "no"
    /\ result' = TRUE
    /\ completing' = "stored"
    /\ UNCHANGED <<waker, left, pc>>

\* ... and wakes the client whose waker it finds.
Wake ==
    /\ completing = "stored"
    /\ pc' = [c \in Clients |-> IF c \in waker /\ pc[c] = "asleep" THEN "awake" ELSE pc[c]]
    /\ waker' = {}
    /\ completing' = "done"
    /\ UNCHANGED <<result, left>>

TimePasses ==
    /\ left > 0
    /\ left' = left - 1
    /\ UNCHANGED <<result, waker, pc, completing>>

FutureNext == (\E c \in Clients : Poll(c)) \/ StoreResult \/ Wake \/ TimePasses

FutureSpec == FutureInit /\ [][FutureNext]_futureVars

\* One completion gives its result to one clone of the future, however their polls and the
\* timeout interleave with it.
ResultGivenOnce == Cardinality({c \in Clients : pc[c] = "result"}) <= 1

=============================================================================
