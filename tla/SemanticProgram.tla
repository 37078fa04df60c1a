--------------------------- MODULE SemanticProgram ---------------------------
(***************************************************************************)
(* analyze_program (semantic.rs): a pass that collects the definitions of  *)
(* a program, stopped by any error, then a pass that analyzes it, stopped  *)
(* by any error but a type mismatch: that one is dropped, and the next     *)
(* statement starts from the context it left behind.                       *)
(***************************************************************************)
EXTENDS Semantic

CONSTANT Programs  \* the programs to analyze: records
    \* statements  the program
    \* order       the order in which the maps give names out while it is analyzed
    \* checks      whether the build that analyzes it checks arithmetic for overflow
    \* form        "scopes" if Closed covers its statements, "columns" if it is one table of numeric
    \*             columns, else "sample"

VARIABLES program,
          phase,    \* "collect", "analyze" or "done"
          next,     \* the next statement of the pass
          ctx,      \* SemanticContext
          verdict   \* "ok" or the error that ended the analysis

programVars == <<program, phase, next, ctx, verdict>>

Advance(last) ==
    IF next < Len(program.statements) THEN next' = next + 1 /\ UNCHANGED phase
    ELSE next' = 1 /\ phase' = last

CollectStep ==
    /\ phase = "collect"
    /\ \E r \in {Collect(program.statements[next], ctx)} :
           /\ ctx' = r.c
           /\ verdict' = r.e
           /\ IF r.e = "ok" THEN Advance("analyze") ELSE phase' = "done" /\ UNCHANGED next
    /\ UNCHANGED program

AnalyzeStep ==
    /\ phase = "analyze"
    /\ \E r \in {Analyze(program.statements[next], ctx)} :
           IF r.e \in {"ok", "mismatch"}
           THEN /\ ctx' = [r.c EXCEPT !.dropped = @ \/ r.e = "mismatch"]
                /\ Advance("done")
                /\ UNCHANGED verdict
           ELSE ctx' = r.c /\ verdict' = r.e /\ phase' = "done" /\ UNCHANGED next
    /\ UNCHANGED program

ProgramInit ==
    /\ program \in Programs
    /\ ctx = NewContext(program.order, program.checks)
    /\ phase = "collect" /\ next = 1 /\ verdict = "ok"

ProgramNext == CollectStep \/ AnalyzeStep

----------------------------------------------------------------------------
(* Lexical scoping, without a context that changes *)

\* around: [names, loop, fn], what stands around an expression or a statement.
RECURSIVE Closed(_, _), ClosedStatement(_, _)
ClosedAll(ss, around) ==
    LET Declared(s) == IF s.k \in {"var", "const"} THEN {IF s.k = "var" THEN s.pattern.name ELSE s.name} ELSE {}
        Before(i) == [around EXCEPT !.names = @ \cup UNION {Declared(ss[j]) : j \in 1..(i - 1)}]
    IN  \A i \in DOMAIN ss : ClosedStatement(ss[i], Before(i))

Closed(e, around) ==
    CASE e.k = "name" -> e.name[1] \in around.names
      [] e.k = "bin" -> Closed(e.left, around) /\ Closed(e.right, around)
      [] e.k = "call" -> \A i \in DOMAIN e.args : Closed(e.args[i], around)
      [] e.k = "match" -> /\ Closed(e.value, around)
                          /\ \A a \in ToSet(e.arms) : Closed(a.body, [around EXCEPT !.names = @ \cup ToSet(a.pattern.name)])
      [] e.k = "loop" -> ClosedAll(e.body, [around EXCEPT !.loop = TRUE])
      [] OTHER -> TRUE

ClosedStatement(s, around) ==
    CASE s.k \in {"var", "expr", "const"} -> Closed(s.value, around)
      [] s.k \in {"break", "continue"} -> around.loop
      [] s.k = "return" -> around.fn /\ \A i \in DOMAIN s.result : Closed(s.result[i], around)
      [] s.k = "for" -> /\ Closed(s.over, around)
                        /\ ClosedAll(s.body, [around EXCEPT !.loop = TRUE, !.names = @ \cup {s.name}])
      [] s.k = "fn" -> ClosedAll(s.body, [names |-> around.names \cup {s.params[i].name : i \in DOMAIN s.params},
                                          loop |-> FALSE, fn |-> TRUE])

\* No function is declared in the body of a loop, at any depth.
RECURSIVE LoopsDeclareNone(_, _)
LoopsDeclareNone(n, looping) ==
    LET All(ss, inLoop) == \A i \in DOMAIN ss : LoopsDeclareNone(ss[i], inLoop)
    IN  CASE n.k = "fn" -> ~looping /\ All(n.body, looping)
          [] n.k \in {"for", "loop"} -> All(n.body, TRUE)
          [] n.k \in {"var", "expr", "const"} -> LoopsDeclareNone(n.value, looping)
          [] n.k = "match" -> LoopsDeclareNone(n.value, looping) /\ All([i \in DOMAIN n.arms |-> n.arms[i].body], looping)
          [] OTHER -> TRUE

TopFunctions == {s.name : s \in {s \in ToSet(program.statements) : s.k = "fn"}}

\* In a program in which no error is dropped, what is lexically closed is accepted: every name is
\* declared around its use, every break is in a loop and every return in a function (enter_scope,
\* exit_scope, loop_depth, current_function_return_type).  Nothing else is, unless a loop declares
\* a function: its parameters go into the scope of the loop, and its break may end the loop.
ScopesLexical ==
    phase = "done" /\ program.form = "scopes" /\ ~ctx.dropped =>
        LET closed == ClosedAll(program.statements, [names |-> TopFunctions, loop |-> FALSE, fn |-> FALSE])
        IN  /\ closed => verdict = "ok"
            /\ verdict = "ok" /\ (\A s \in ToSet(program.statements) : LoopsDeclareNone(s, FALSE)) => closed

\* A statement that is accepted without a dropped error leaves no scope, loop, return type or module
\* behind, and a function or a system no variable: the next statement does not see where it came.
ContextRestored ==
    [][phase = "analyze" /\ verdict' = "ok" /\ ~ctx'.dropped =>
           /\ ctx'.scopes = ctx.scopes /\ ctx'.loops = ctx.loops
           /\ ctx'.ret = ctx.ret /\ ctx'.path = ctx.path
           /\ program.statements[next].k \in {"fn", "system"} => ctx'.vars = ctx.vars]_programVars

----------------------------------------------------------------------------
(* The types of a table's columns *)

RECURSIVE ColumnType(_, _)
ColumnType(def, e) ==
    CASE e.k = "name" -> LET col == def[ColumnNamed(def, e.name[1])]
                         IN  IF col.type # NoneType THEN col.type ELSE ColumnType(def, col.expr[1])
      [] e.k = "bin" -> Promote(ColumnType(def, e.left), ColumnType(def, e.right))
      [] e.k = "cast" -> e.to
      [] e.k = "ifx" -> ColumnType(def, e.branches[1])
      [] e.k = "if" -> NoneType
      [] OTHER -> e.type

Mutual(def) ==
    LET cs == ComputedNames(def)
        reach[i \in 0..Cardinality(cs)] ==
            IF i = 0 THEN [n \in cs |-> Dependencies(def, n) \cap cs]
            ELSE [n \in cs |-> reach[i - 1][n] \cup UNION {Dependencies(def, m) \cap cs : m \in reach[i - 1][n]}]
    IN  \E n \in cs : n \in reach[Cardinality(cs)][n]

\* A table is taken unless its columns depend on each other in a circle, and then every column has
\* the type of its expression, in whatever order the maps give the columns out and however they are
\* written (compute_column_evaluation_order, infer_computed_column_types).  What a column depends on
\* is what extract_column_references finds.
ColumnTypesExact ==
    phase # "collect" /\ program.form = "columns" =>
        LET def == program.statements[1].def
            t == program.statements[1].name
        IN  IF Mutual(def) THEN t \notin DOMAIN ctx.tables
            ELSE /\ t \in DOMAIN ctx.tables
                 /\ \A i \in DOMAIN def : ctx.tables[t][i].type =
                        IF def[i].type # NoneType THEN def[i].type ELSE ColumnType(def, def[i].expr[1])
=============================================================================
