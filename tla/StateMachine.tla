---------------------------- MODULE StateMachine ----------------------------
(***************************************************************************)
(* The plan of an asynchronous system (system_executor.rs): the builder    *)
(* lowers the body of a system to numbered states, which PlanExecutor      *)
(* runs.  Beside the statements of PlanExecutor a body has                 *)
(*     [kind |-> "query", id, table]             [kind |-> "await", id]    *)
(*     [kind |-> "for", id, over, table, body]                             *)
(***************************************************************************)
EXTENDS PlanExecutor

CONSTANT Bodies    \* bodies of systems

VARIABLE body      \* the body that is lowered

planVars == <<body, executorVars>>

----------------------------------------------------------------------------
(* SystemStateMachineBuilder *)

Lowered(states, index, ok) == [states |-> states, index |-> index, ok |-> ok]

\* A query or a call that is awaited counts twice, once where its state is made and once where
\* it is pushed; any other statement does not count.
LowerYield(s, n) ==
    Lowered(<<IF s.kind = "query" THEN ExecuteQuery(s, n + 1) ELSE AwaitSystem(s, n + 1)>>, n + 2, TRUE)

\* What a loop runs over is evaluated by a state of its own when it is a query; an awaited
\* call is not supported.
LowerIterable(s, n) ==
    CASE s.over = "query" -> Lowered(<<ExecuteQuery(s, n + 1)>>, n + 1, TRUE)
      [] s.over = "await" -> Lowered(<<>>, n, FALSE)
      [] OTHER -> Lowered(<<>>, n, TRUE)

\* The body of a loop is lowered in place, once, with numbers that start at one again.
RECURSIVE LowerStatements(_)
LowerStatements(ss) ==
    LET Lower(acc, s) ==
            IF ~acc.ok THEN acc
            ELSE LET n == acc.index
                     l == IF s.kind \in {"query", "await"} THEN LowerYield(s, n)
                          ELSE IF s.kind = "for"
                          THEN LET it == LowerIterable(s, n)
                                   inner == LowerStatements(s.body)
                               IN  Lowered(it.states \o inner.states, it.index, it.ok /\ inner.ok)
                          ELSE Lowered(<<ExecuteStatements(s)>>, n, TRUE)
                 IN  Lowered(acc.states \o l.states, l.index, l.ok)
    IN  FoldLeft(Lower, Lowered(<<>>, 1, TRUE), ss)

\* Mutant of BuildStateMachine: the loops' bodies come after the statements that follow them.
BuildBodiesLast(b) ==
    LET l == LowerStatements(SelectSeq(b, LAMBDA s : s.kind # "for") \o SelectSeq(b, LAMBDA s : s.kind = "for"))
    IN  IF l.ok THEN <<Initialize>> \o l.states \o <<Complete>> ELSE NoPlan

BuildStateMachine(b) ==
    LET l == LowerStatements(b)
    IN  IF l.ok THEN <<Initialize>> \o l.states \o <<Complete>> ELSE NoPlan

PlanInit == body \in Bodies /\ Begin(BuildStateMachine(body))

PlanNext == ExecutorNext /\ UNCHANGED body

----------------------------------------------------------------------------
(* Properties *)

\* The statements of a body in the order in which they are written, those of a loop once.
RECURSIVE Flat(_)
Flat(ss) ==
    LET Ids(s) == IF s.kind # "for" THEN <<s.id>>
                  ELSE (IF s.over = "query" THEN <<s.id>> ELSE <<>>) \o Flat(s.body)
    IN  FoldLeft(LAMBDA acc, s : acc \o Ids(s), <<>>, ss)

\* A body that yields only in its first statement; later successors are misnumbered.
RECURSIVE NeverYields(_)
NeverYields(ss) ==
    \A s \in ToSet(ss) : /\ s.kind \notin {"query", "await"}
                         /\ s.kind = "for" => s.over = "plain" /\ NeverYields(s.body)
YieldsAtMostFirst(ss) ==
    ss # <<>> => /\ NeverYields(Tail(ss))
                 /\ Head(ss).kind = "for" => NeverYields(Head(ss).body)

\* The states of a plan stand for the statements of the body, each once and in order
\* (build_state_machine, lower_statements_to_states).  Where the body yields at most first the
\* plan is also executed in this order (execute_step), and when it completes all statements
\* were executed and no resource is held.  Whatever the numbers are, no synchronous statement
\* is executed twice.  The successor of another query or awaited call is misnumbered: it may lie
\* before what follows it, so that the call is made again and again, or behind the end.
PlanFollowsBody ==
    /\ StatementsOnce /\ RunsInOrder
    /\ plan # NoPlan =>
           /\ Flat(body) = [i \in 1..Len(plan) - 2 |-> plan[i + 1].id]
           /\ YieldsAtMostFirst(body) =>
                  InOrder(plan) /\ (outcome = "completed" => trace = Flat(body) /\ held = {})
=============================================================================
