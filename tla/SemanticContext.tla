--------------------------- MODULE SemanticContext ---------------------------
(***************************************************************************)
(* The context of the semantic analysis (SemanticContext, semantic.rs) and *)
(* the form of a result: the context after a step, a type and an error,    *)
(* for an analysis that fails keeps what it has done to the context.       *)
(*                                                                         *)
(* An identifier is the sequence of its parts at underscores, <<"x">> or   *)
(* <<"Shape", "Circle">>, of at most two parts in the programs analyzed; a *)
(* function is kept under its module path and its name.  The maps of the   *)
(* code are iterated in an arbitrary order, here by                        *)
(* ctx.order, a sequence of all names; ctx.checks says whether the build   *)
(* checks arithmetic for overflow.                                         *)
(***************************************************************************)
EXTENDS SemanticTypes

NoFunction == [k |-> "nofunction"]
EmptyMap == [n \in {} |-> NoneType]

NewContext(order, checks) ==
    [vars |-> EmptyMap, scopes |-> <<>>, ret |-> NoFunction, loops |-> 0, path |-> <<>>,
     fns |-> [f \in {<< <<>>, <<"println">> >>, << <<>>, <<"len">> >>} |->
                 IF f[2] = <<"len">> THEN [params |-> <<String>>, ret |-> I64]
                 ELSE [params |-> <<>>, ret |-> NoneType]],
     types |-> EmptyMap, uses |-> EmptyMap, traits |-> EmptyMap, timpls |-> EmptyMap, impls |-> EmptyMap,
     tables |-> EmptyMap, order |-> order, checks |-> checks, dropped |-> FALSE]

Put(f, x, v) == (x :> v) @@ f
InOrderOf(c, names) == SelectSeq(c.order, LAMBDA n : n \in names)

----------------------------------------------------------------------------
(* Scopes, modules, lookups *)

EnterScope(c) == [c EXCEPT !.scopes = Append(@, EmptyMap)]
ExitScope(c) == [c EXCEPT !.scopes = IF @ = <<>> THEN @ ELSE Front(@)]

EnterLoop(c) == [EnterScope(c) EXCEPT !.loops = @ + 1]
\* Mutant of ExitLoop: the depth stays.
ExitScopeOnly(c) == ExitScope(c)
ExitLoop(c) == ExitScope([c EXCEPT !.loops = @ - 1])

DefineVariable(c, n, t) ==
    IF c.scopes = <<>> THEN [c EXCEPT !.vars = Put(@, n, t)]
    ELSE [c EXCEPT !.scopes[Len(c.scopes)] = Put(@, n, t)]

\* A function of a module is known under the module's path only.
DefineFunction(c, name, params, ret) ==
    [c EXCEPT !.fns = Put(@, <<c.path, name>>, [params |-> params, ret |-> ret])]

\* add_use_import: importing everything of a module makes none of its names known.
AddUse(c, s) == IF s.star THEN c ELSE [c EXCEPT !.uses = Put(@, s.alias, s.path)]

Bound(c, n) == n \in DOMAIN c.vars \/ \E i \in DOMAIN c.scopes : n \in DOMAIN c.scopes[i]

\* get_variable_type: from the innermost scope outward.  No name of a variable holds a path.
VariableType(c, n) ==
    IF \E i \in DOMAIN c.scopes : n \in DOMAIN c.scopes[i]
    THEN LET i == CHOOSE j \in DOMAIN c.scopes : /\ n \in DOMAIN c.scopes[j]
                                                 /\ \A l \in DOMAIN c.scopes : n \in DOMAIN c.scopes[l] => l <= j
         IN  c.scopes[i][n]
    ELSE c.vars[n]

\* get_function_signature, resolve_name: the global functions, then what an import names.  A module
\* does not see its own functions: its path is tried for names of modules only.
FunctionKeys(c, name) ==
    LET plain == << <<>>, name >>
        import == IF Len(name) = 1 /\ name[1] \in DOMAIN c.uses
                  THEN LET p == c.uses[name[1]] IN {<<Front(p), <<Last(p)>> >>} ELSE {}
    IN  IF plain \in DOMAIN c.fns THEN {plain} ELSE import \cap DOMAIN c.fns

----------------------------------------------------------------------------
(* Results *)

Ok(c, t) == [c |-> c, t |-> t, e |-> "ok"]
Fail(c, e) == [c |-> c, t |-> NoneType, e |-> e]
Then(r, Op(_, _)) == IF r.e = "ok" THEN Op(r.c, r.t) ELSE r
InContext(r, Op(_)) == IF r.e = "ok" THEN [r EXCEPT !.c = Op(r.c)] ELSE r
Require(r, ok, e) == IF r.e = "ok" /\ ~ok THEN Fail(r.c, e) ELSE r
Expect(t, r) == Require(r, r.e = "ok" => Compatible(t, r.t), "mismatch")
OneOf(c, ts, e) == IF ts = {} THEN Fail(c, e) ELSE Ok(c, CHOOSE t \in ts : TRUE)

\* A list, each member analyzed in the context the one before has left.
Each(xs, c, Op(_, _)) ==
    FoldLeft(LAMBDA r, x : Then(r, LAMBDA d, ts : Then(Op(x, d), LAMBDA f, t : Ok(f, Append(ts, t)))),
             Ok(c, <<>>), xs)

\* An error inside the elements of a vector is dropped, with what it left in the context; a
\* panic is not.
EachOrDrop(xs, c, Op(_, _)) ==
    LET Element(d, ts, i) ==
            CASE i.e = "ok" -> Ok(i.c, Append(ts, i.t))
              [] i.e = "panic" -> i
              [] OTHER -> Ok([i.c EXCEPT !.dropped = TRUE], ts)
    IN  FoldLeft(LAMBDA r, x : Then(r, LAMBDA d, ts : Element(d, ts, Op(x, d))), Ok(c, <<>>), xs)
=============================================================================
