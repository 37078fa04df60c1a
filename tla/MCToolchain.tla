---------------------------- MODULE MCToolchain ----------------------------
(***************************************************************************)
(* What happens to a program before its systems run: its semantic          *)
(* analysis, the code of a function, the lowering of a system to a plan    *)
(* and the batches of the integrated scheduler.  The stages share no       *)
(* state: a behaviour is of one of them.                                   *)
(***************************************************************************)
EXTENDS StateMachine, BatchPlanner, MCSemantic, MCCodeMachine

VARIABLE stage

----------------------------------------------------------------------------
(* Instance of StateMachine: bodies of up to three statements; a variable x, two tables *)

CONSTANTS x, table, missing

Statement(tag, i) ==
    CASE tag = "let" -> [kind |-> "let", id |-> i, pattern |-> "name", name |-> x, value |-> Literal]
      [] tag = "letTuple" -> [kind |-> "let", id |-> i, pattern |-> "tuple", name |-> x, value |-> Literal]
      [] tag = "discard" -> [kind |-> "let", id |-> i, pattern |-> "discard", name |-> x, value |-> x]
      [] tag = "assign" -> [kind |-> "assign", id |-> i, target |-> x, value |-> Literal]
      [] tag = "assignField" -> [kind |-> "assign", id |-> i, target |-> NotAName, value |-> x]
      [] tag = "query" -> [kind |-> "query", id |-> i, table |-> table]
      [] tag = "queryMissing" -> [kind |-> "query", id |-> i, table |-> missing]
      [] tag = "await" -> [kind |-> "await", id |-> i]
      [] OTHER -> [kind |-> "other", id |-> i]

Tags == {"let", "letTuple", "discard", "assign", "assignField", "query", "queryMissing", "await", "other"}

Loop(over, tags, i) ==
    [kind |-> "for", id |-> i, over |-> over, table |-> table,
     body |-> [j \in DOMAIN tags |-> Statement(tags[j], 10 * i + j)]]

Tagged(i) == {Statement(t, i) : t \in Tags}
             \cup {Loop(o, ts, i) : o \in {"plain", "query", "await"}, ts \in {<<>>, <<"other", "let">>, <<"query">>}}

MCBodies == {<<>>} \cup {<<p>> : p \in Tagged(1)} \cup {<<p, q>> : p \in Tagged(1), q \in Tagged(2)}
            \cup {<<p, q, r>> : p \in Tagged(1), q \in Tagged(2), r \in {Statement(t, 3) : t \in {"other", "query", "discard"}}}

MCPlans == {BuildStateMachine(b) : b \in MCBodies}

----------------------------------------------------------------------------
(* Instance of BatchPlanner: three requests over two resources, two of one system in some lists *)

CONSTANTS r1, r2

Use(r, a) == <<r, a>>
ParameterLists ==
    {<<>>, <<Use(r1, "Immutable")>>, <<Use(r1, "Mutable")>>, <<Use(r2, "Owned")>>,
     <<Use(r1, "Mutable"), Use(r1, "Immutable")>>,
     <<Use(r1, "Immutable"), Use(r2, "Immutable")>>, <<Use(r1, "Immutable"), Use(r2, "Mutable")>>}

MCRequestLists ==
    {<<[name |-> "s1", params |-> p], [name |-> "s2", params |-> q], [name |-> "s3", params |-> r]>> :
        p, q, r \in ParameterLists}
    \cup {<<[name |-> "s1", params |-> p], [name |-> "s1", params |-> p], [name |-> "s2", params |-> q]>> :
        p, q \in ParameterLists}

----------------------------------------------------------------------------

planIdle == body = <<>> /\ plan = NoPlan /\ current = 0 /\ defined = {} /\ held = {} /\ trace = <<>> /\ outcome = "idle"
batchIdle ==
    /\ requests = <<>> /\ unscheduled = {} /\ seen = {} /\ batches = <<<<>>>> /\ place = <<1, 1>>
    /\ submitted = <<>> /\ refused = FALSE /\ ended = {}
    /\ graph = [tasks |-> <<>>, readers |-> <<>>, writer |-> <<>>, constraints |-> {}]

analysisIdle ==
    /\ program = [form |-> "sample", order |-> <<>>, statements |-> <<>>, checks |-> TRUE]
    /\ phase = "done" /\ next = 1 /\ ctx = NewContext(<<>>, TRUE) /\ verdict = "ok"

codeIdle == fn = Function("top", <<>>, <<>>) /\ code = NewGenerator(FALSE, FALSE, {}) /\ run = Idle

ToolchainInit ==
    \/ stage = "analyze" /\ ProgramInit /\ codeIdle /\ planIdle /\ batchIdle
    \/ stage = "generate" /\ CodeInit /\ analysisIdle /\ planIdle /\ batchIdle
    \/ stage = "lower" /\ PlanInit /\ analysisIdle /\ codeIdle /\ batchIdle
    \/ stage = "batch" /\ BatchInit /\ analysisIdle /\ codeIdle /\ planIdle

ToolchainNext ==
    \/ stage = "analyze" /\ ProgramNext /\ UNCHANGED <<codeVars, planVars, batchVars, stage>>
    \/ stage = "generate" /\ CodeNext /\ UNCHANGED <<programVars, planVars, batchVars, stage>>
    \/ stage = "lower" /\ PlanNext /\ UNCHANGED <<programVars, codeVars, batchVars, stage>>
    \/ stage = "batch" /\ BatchNext /\ UNCHANGED <<programVars, codeVars, planVars, stage>>

ToolchainSpec == ToolchainInit /\ [][ToolchainNext]_<<programVars, codeVars, planVars, batchVars, stage>>
=============================================================================
