---------------------------- MODULE PlanExecutor ----------------------------
(***************************************************************************)
(* The executor of plans (system_executor.rs, SystemStateMachineExecutor): *)
(* one step of the current state at a time.  Where the plan comes from is  *)
(* up to StateMachine; a statement is a record                             *)
(*     [kind |-> "let", id, pattern, name, value]                          *)
(*     [kind |-> "assign", id, target, value]    [kind |-> "other", id]    *)
(* whose value is Literal or the name of a variable.                       *)
(***************************************************************************)
EXTENDS Integers, Sequences, SequencesExt

CONSTANTS Plans,           \* the plans that are executed, or NoPlan
          RegisteredTables,
          SystemResources, \* what the system's parameters name
          Literal, NotAName, NoPlan,
          MaxTrace         \* bound on the statements a run records

VARIABLES plan,    \* the states, or NoPlan when the builder refuses
          current, \* number of the current state, from 0
          defined, \* variables of the execution context
          held,    \* resources of the execution context
          trace,   \* ids of the statements executed, in order
          outcome  \* result of the last step

executorVars == <<plan, current, defined, held, trace, outcome>>

Initialize == [kind |-> "Initialize"]
Complete == [kind |-> "Complete"]
ExecuteStatements(s) == [kind |-> "ExecuteStatements", id |-> s.id, statement |-> s, done |-> FALSE]
ExecuteQuery(s, next) == [kind |-> "ExecuteQuery", id |-> s.id, table |-> s.table, next |-> next]
AwaitSystem(s, next) == [kind |-> "AwaitSystem", id |-> s.id, next |-> next]

\* A plan runs from Initialize to Complete over states that are not executed yet, no two of
\* them of one statement.
WellMade(p) ==
    LET n == Len(p)
    IN  /\ p \in Seq(ToSet(p)) /\ n >= 2 /\ p[1] = Initialize /\ p[n] = Complete
        /\ \A i \in 2..n - 1 :
               \/ p[i].kind = "ExecuteStatements" /\ p[i] = ExecuteStatements(p[i].statement)
               \/ p[i].kind = "ExecuteQuery" /\ p[i] = ExecuteQuery(p[i], p[i].next) /\ p[i].next \in Nat
               \/ p[i].kind = "AwaitSystem" /\ p[i] = AwaitSystem(p[i], p[i].next) /\ p[i].next \in Nat
        /\ \A i, j \in 2..n - 1 : p[i].id = p[j].id => i = j

ASSUME PlansAssumption == \A p \in Plans \ {NoPlan} : WellMade(p)

----------------------------------------------------------------------------
(* execute_step *)

State == plan[current + 1]
At(kind) == current < Len(plan) /\ State.kind = kind

Stepping == plan # NoPlan /\ outcome \in {"new", "continue", "yield"} /\ Len(trace) < MaxTrace

StepPastEnd ==
    /\ Stepping /\ current >= Len(plan)
    /\ outcome' = "completed"
    /\ UNCHANGED <<plan, current, defined, held, trace>>

StepInitialize ==
    /\ Stepping /\ At("Initialize")
    /\ held' = SystemResources
    /\ current' = current + 1
    /\ outcome' = "continue"
    /\ UNCHANGED <<plan, defined, trace>>

\* evaluate_expression fails on a variable that is not bound.
Evaluates(v) == v = Literal \/ v \in defined

\* execute_statement, bind_pattern_value: the value is evaluated first, then a name is bound.
\* An assignment to anything but a name is not even evaluated.
Succeeds(s) ==
    CASE s.kind = "let" -> Evaluates(s.value) /\ s.pattern # "tuple"
      [] s.kind = "assign" -> s.target = NotAName \/ Evaluates(s.value)
      [] OTHER -> TRUE

Binds(s) ==
    CASE s.kind = "let" /\ s.pattern = "name" -> {s.name}
      [] s.kind = "assign" -> {s.target} \ {NotAName}
      [] OTHER -> {}

\* The statement of a state is executed once; the next step moves on.
StepStatement ==
    /\ Stepping /\ At("ExecuteStatements") /\ ~State.done
    /\ IF Succeeds(State.statement)
       THEN /\ defined' = defined \cup Binds(State.statement)
            /\ plan' = [plan EXCEPT ![current + 1].done = TRUE]
            /\ trace' = Append(trace, State.id)
            /\ outcome' = "continue"
       ELSE outcome' = "error" /\ UNCHANGED <<defined, plan, trace>>
    /\ UNCHANGED <<current, held>>

StepStatementsOver ==
    /\ Stepping /\ At("ExecuteStatements") /\ State.done
    /\ current' = current + 1
    /\ outcome' = "continue"
    /\ UNCHANGED <<plan, defined, held, trace>>

StepQuery ==
    /\ Stepping /\ At("ExecuteQuery")
    /\ IF State.table \in RegisteredTables
       THEN /\ current' = State.next
            /\ trace' = Append(trace, State.id)
            /\ outcome' = "continue"
       ELSE outcome' = "error" /\ UNCHANGED <<current, trace>>
    /\ UNCHANGED <<plan, defined, held>>

StepAwait ==
    /\ Stepping /\ At("AwaitSystem")
    /\ current' = State.next
    /\ trace' = Append(trace, State.id)
    /\ outcome' = "yield"
    /\ UNCHANGED <<plan, defined, held>>

StepComplete ==
    /\ Stepping /\ At("Complete")
    /\ held' = held \ SystemResources
    /\ current' = Len(plan)
    /\ outcome' = "completed"
    /\ UNCHANGED <<plan, defined, trace>>

Begin(p) ==
    /\ plan = p /\ current = 0
    /\ defined = {} /\ held = {} /\ trace = <<>>
    /\ outcome = "new"

ExecutorInit == \E p \in Plans : Begin(p)

ExecutorNext ==
    \/ StepInitialize \/ StepStatement \/ StepStatementsOver \/ StepQuery \/ StepAwait
    \/ StepComplete \/ StepPastEnd

ExecutorSpec == ExecutorInit /\ [][ExecutorNext]_executorVars

----------------------------------------------------------------------------
(* Properties *)

\* A plan executes no synchronous statement twice, even where its numbers lead it back
\* (the count of an ExecuteStatements state is kept in the plan).
StatementsOnce ==
    \A i, j \in DOMAIN trace :
        i < j /\ trace[i] = trace[j] =>
            \A k \in 2..Len(plan) - 1 : plan[k].kind = "ExecuteStatements" => plan[k].id # trace[i]

\* The successor of each state is the one that follows it.
InOrder(p) == \A i \in 2..Len(p) - 1 : p[i].kind \in {"ExecuteQuery", "AwaitSystem"} => p[i].next = i

\* Such a plan is executed from front to back, whole if it completes, and then holds nothing
\* (execute_step, Complete).
RunsInOrder ==
    plan # NoPlan /\ InOrder(plan) =>
        /\ \A i \in DOMAIN trace : trace[i] = plan[i + 1].id
        /\ outcome = "completed" => Len(trace) = Len(plan) - 2 /\ held = {}
=============================================================================
