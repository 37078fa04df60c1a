------------------------------ MODULE Semantic ------------------------------
(***************************************************************************)
(* The semantic analysis (semantic.rs): types of expressions, patterns,    *)
(* statements, and the two passes over a program.  Syntax trees are        *)
(* records with the field k; each operator names the fields it reads.      *)
(***************************************************************************)
EXTENDS SemanticContext, FiniteSetsExt

\* infer_expression_type, analyze_statement, analyze_pattern
\* n is an expression or a statement.
RECURSIVE Analyze(_, _), AnalyzePattern(_, _, _)

InferAll(es, c) == Each(es, c, Analyze)
AnalyzeAll(ss, c) == Then(Each(ss, c, Analyze), LAMBDA d, ts : Ok(d, NoneType))

----------------------------------------------------------------------------
(* Calls *)

\* Arguments against parameters, one by one; the number first.
CheckArguments(args, params, c, result) ==
    IF Len(args) # Len(params) THEN Fail(c, "count")
    ELSE Then(Each([i \in DOMAIN args |-> i], c, LAMBDA i, d : Expect(params[i], Analyze(args[i], d))),
              LAMBDA d, ts : Ok(d, result))

IsVariant(c, n) ==
    /\ Len(n) >= 2 /\ n[1] \in DOMAIN c.types /\ c.types[n[1]].k = "enum"
    /\ n[2] \in DOMAIN c.types[n[1]].variants

\* A variant without payload takes no argument, one with payload exactly one.
Construct(n, args, c) ==
    LET payload == c.types[n[1]].variants[n[2]]
    IN  CheckArguments(args, IF payload = Bare THEN <<>> ELSE <<payload>>, c, c.types[n[1]])

\* The implementation of trait n[1], if any, for the type of the first argument, which is analyzed
\* here and again among all arguments.
TraitCall(n, args, c, Otherwise(_)) ==
    IF Len(n) < 2 \/ args = <<>> THEN Otherwise(c)
    ELSE Then(Analyze(args[1], c), LAMBDA d, t :
             LET impl == <<n[1], Peeled(t)>>
             IN  IF impl \in DOMAIN d.timpls /\ n[2] \in DOMAIN d.timpls[impl]
                 THEN LET m == d.timpls[impl][n[2]] IN CheckArguments(args, m.params, d, m.ret)
                 ELSE Otherwise(d))

One(args, c, Op(_, _)) == IF Len(args) # 1 THEN Fail(c, "count") ELSE Then(Analyze(args[1], c), Op)

CallFunction(n, args, c) ==
    IF FunctionKeys(c, n) = {} THEN Fail(c, "undefined")
    ELSE LET s == c.fns[CHOOSE f \in FunctionKeys(c, n) : TRUE] IN CheckArguments(args, s.params, c, s.ret)

CallName(n, args, c) ==
    CASE IsVariant(c, n) -> Construct(n, args, c)
      [] n = <<"some">> -> One(args, c, LAMBDA d, t : Ok(d, Opt(t)))
      [] n = <<"ok">> -> One(args, c, LAMBDA d, t : Ok(d, Res(t)))
      [] n = <<"err">> -> One(args, c, LAMBDA d, t :
             IF "StdError" \in DOMAIN d.types /\ ~Compatible(d.types["StdError"], t) THEN Fail(d, "mismatch")
             ELSE Ok(d, Res(NoneType)))
      [] n = <<"println">> -> Then(InferAll(args, c), LAMBDA d, ts : Ok(d, NoneType))
      [] n = <<"drop">> -> One(args, c, LAMBDA d, t : Ok(d, NoneType))
      [] OTHER -> TraitCall(n, args, c, LAMBDA d : CallFunction(n, args, d))

\* A method of the type itself, else of the only trait that has it for the type; the arguments stand
\* for all parameters but the first.  Of a method without parameters the number of the others is
\* one less than zero: a panic or, where overflow is not checked, an error that gives a wrong
\* number.  What is not known is accepted.
CallMethod(e, c) ==
    Then(Analyze(e.object, c), LAMBDA d, t :
        LET type == Peeled(t)
            Rest(m) == IF m.params = <<>> THEN Fail(d, IF d.checks THEN "panic" ELSE "count")
                       ELSE CheckArguments(e.args, Tail(m.params), d, m.ret)
            traits == {i \in DOMAIN d.timpls : i[2] = type /\ e.name \in DOMAIN d.timpls[i]}
        IN  CASE t.k = "fn" /\ e.name = "bind" ->
                     Ok(d, FnType(SubSeq(t.params, Len(e.args) + 1, Len(t.params)), t.ret))
              [] type # "" /\ type \in DOMAIN d.impls /\ e.name \in DOMAIN d.impls[type] ->
                     Rest(d.impls[type][e.name])
              [] type # "" /\ Cardinality(traits) > 1 -> Fail(d, "ambiguous")
              [] type # "" /\ traits # {} -> Rest(d.timpls[CHOOSE i \in traits : TRUE][e.name])
              [] OTHER -> Ok(d, NoneType))

\* Segments with their underscores make one name; the last resort is a function of any module.
CallPath(n, args, c) ==
    LET Elsewhere(d) == {f \in DOMAIN d.fns : f[1] # <<>> /\ f[2] = n}
        Plain(d) ==
            CASE Len(n) >= 2 /\ n[1] \in DOMAIN d.impls /\ n[2] \in DOMAIN d.impls[n[1]] ->
                     LET m == d.impls[n[1]][n[2]] IN CheckArguments(args, m.params, d, m.ret)
              [] FunctionKeys(d, n) # {} -> CallFunction(n, args, d)
              [] Elsewhere(d) # {} ->
                     LET s == d.fns[CHOOSE f \in Elsewhere(d) : TRUE] IN CheckArguments(args, s.params, d, s.ret)
              [] OTHER -> Fail(d, "undefined")
    IN  IF IsVariant(c, n) THEN Construct(n, args, c) ELSE TraitCall(n, args, c, Plain)

InferCall(e, c) ==
    CASE e.k = "call" -> CallName(e.name, e.args, c)
      [] e.k = "method" -> CallMethod(e, c)
      [] OTHER -> CallPath(e.segments, e.args, c)

----------------------------------------------------------------------------
(* Expressions *)

InferName(n, c) ==
    CASE n = <<"none">> -> Ok(c, Opt(NoneType))
      [] IsVariant(c, n) -> Ok(c, I64)
      [] Len(n) = 1 /\ Bound(c, n[1]) -> Ok(c, VariableType(c, n[1]))
      [] FunctionKeys(c, n) # {} ->
             LET s == c.fns[CHOOSE f \in FunctionKeys(c, n) : TRUE] IN Ok(c, FnType(s.params, s.ret))
      [] OTHER -> Fail(c, "undefined")

InferPath(n, c) ==
    IF Len(n) >= 2 /\ n[1] \in DOMAIN c.types /\ c.types[n[1]].k = "enum" THEN Ok(c, I64)
    ELSE IF FunctionKeys(c, n) = {} THEN Fail(c, "undefined")
         ELSE LET s == c.fns[CHOOSE f \in FunctionKeys(c, n) : TRUE] IN Ok(c, FnType(s.params, s.ret))

InferBinary(e, c) ==
    Then(InferAll(<<e.left, e.right>>, c), LAMBDA d, ts : OneOf(d, BinaryType(e.op, ts[1], ts[2]), "operation"))

InferUnary(e, c) == Then(Analyze(e.operand, c), LAMBDA d, t : OneOf(d, UnaryType(e.op, t), "operation"))

\* An arm is analyzed in a scope of its own, left again when the arm is accepted.
InferMatch(e, c) ==
    LET Arm(a, d, t) ==
            InContext(Then(AnalyzePattern(a.pattern, EnterScope(d), t), LAMBDA f, u : Analyze(a.body, f)), ExitScope)
        Join(r, a, t) ==
            Then(r, LAMBDA d, ts : Then(Arm(a, d, t), LAMBDA f, u :
                IF ts = <<>> THEN Ok(f, <<u>>)
                ELSE Then(OneOf(f, Merge(ts[1], u), "mismatch"), LAMBDA g, v : Ok(g, <<v>>))))
    IN  Then(Analyze(e.value, c), LAMBDA d, t :
            Then(FoldLeft(LAMBDA r, a : Join(r, a, t), Ok(d, <<>>), e.arms), LAMBDA f, ts :
                Ok(f, IF ts = <<>> THEN NoneType ELSE ts[1])))

InferField(e, c) ==
    Then(Analyze(e.object, c), LAMBDA d, t :
        LET base == IF t.k \in {"ptr", "raw"} THEN t.inner ELSE t
            fields == IF base.k = "id" /\ base.name \in DOMAIN d.types /\ d.types[base.name].k = "struct"
                      THEN d.types[base.name].fields ELSE EmptyMap
        IN  Ok(d, IF e.field \in DOMAIN fields THEN fields[e.field] ELSE I64))

InferIndex(e, c) ==
    Then(Analyze(e.object, c), LAMBDA d, t : Ok(d, IF t.k = "mat" THEN t.inner ELSE NoneType))

InferCast(e, c) == Then(Analyze(e.value, c), LAMBDA d, t : Ok(d, e.to))

Truthy(t) == Compatible(Bool, t) \/ IsNumeric(t) \/ IsString(t) \/ t.k \in {"ptr", "raw"}

\* An if statement: its branches are not looked at.
InferIf(e, c) ==
    Then(Analyze(e.condition, c), LAMBDA d, t :
        Require(Ok(d, NoneType), Truthy(t) /\ ~IsId(t, {"String"}), "mismatch"))

InferIfExpr(e, c) ==
    Then(Analyze(e.condition, c), LAMBDA d, t :
        IF ~Truthy(t) THEN Fail(d, "mismatch")
        ELSE Then(InferAll(e.branches, d), LAMBDA f, ts :
                 IF Len(ts) = 1 THEN Ok(f, ts[1])
                 ELSE Require(Ok(f, IF ts[1].k = "none" THEN ts[2] ELSE ts[1]),
                              Compatible(ts[1], ts[2]) \/ Compatible(ts[2], ts[1]), "mismatch")))

InferLoop(e, c) == InContext(AnalyzeAll(e.body, EnterLoop(c)), ExitLoop)

InferRange(e, c) ==
    Then(InferAll(<<e.start, e.end>>, c), LAMBDA d, ts :
        IF ~(IsNumeric(ts[1]) /\ IsNumeric(ts[2])) THEN Fail(d, "mismatch")
        ELSE IF e.step = <<>> THEN Ok(d, I64)
        ELSE Then(Analyze(e.step[1], d), LAMBDA f, t :
                 Require(Require(Ok(f, I64), IsNumeric(t), "mismatch"), ~e.zero, "zero")))

InferVecNew(e, c) ==
    Then(Each(e.dims, c, LAMBDA n, d : Then(Analyze(n, d), LAMBDA f, t : Require(Ok(f, t), IsNumeric(t), "mismatch"))),
         LAMBDA d, ts : Then(Each(e.fill, d, LAMBDA v, f : Expect(e.type, Analyze(v, f))),
                             LAMBDA f, us : Ok(f, Mat(e.type))))

InferElements(e, c) ==
    Then(EachOrDrop(e.elems, c, Analyze), LAMBDA d, found :
        LET ts == ToSet(found)
        IN  Ok(d, Mat(CASE \E t \in ts : IsId(t, Floats) -> Id("f64")
                        [] Bool \in ts /\ \A t \in ts : t = Bool -> Bool
                        [] OTHER -> I64)))

\* e?: the function must return what the error of the operand can be.
InferQuestion(e, c) ==
    Then(Analyze(e.operand, c), LAMBDA d, t :
        CASE t.k = "opt" /\ d.ret.k = "opt" -> Require(Ok(d, t.inner), Compatible(d.ret.inner, t.inner), "mismatch")
          [] t.k = "res" /\ d.ret.k = "res" -> Ok(d, t.inner)
          [] OTHER -> Fail(d, "operation"))

Infer(e, c) ==
    CASE e.k = "lit" -> Ok(c, e.type)
      [] e.k = "tuple" -> Then(InferAll(e.elems, c), LAMBDA d, ts : Ok(d, Tup(ts)))
      [] e.k = "name" -> InferName(e.name, c)
      [] e.k = "bin" -> InferBinary(e, c)
      [] e.k = "un" -> InferUnary(e, c)
      [] e.k \in {"call", "method", "callpath"} -> InferCall(e, c)
      [] e.k = "match" -> InferMatch(e, c)
      [] e.k = "field" -> InferField(e, c)
      [] e.k = "index" -> InferIndex(e, c)
      [] e.k = "cast" -> InferCast(e, c)
      [] e.k = "if" -> InferIf(e, c)
      [] e.k = "ifx" -> InferIfExpr(e, c)
      [] e.k = "loop" -> InferLoop(e, c)
      [] e.k = "range" -> InferRange(e, c)
      [] e.k = "vecnew" -> InferVecNew(e, c)
      [] e.k = "vec" -> InferElements(e, c)
      [] e.k = "path" -> InferPath(e.segments, c)
      [] e.k = "question" -> InferQuestion(e, c)
      [] e.k = "query" -> Ok(c, Id("QueryResult"))
      [] e.k = "shader" -> Ok(c, Id("Shader"))
      [] OTHER -> Ok(c, NoneType)   \* "block", "structlit", "unwrap" and functions as values

----------------------------------------------------------------------------
(* Patterns *)

DefineGlobal(c, n, t) == [c EXCEPT !.vars = Put(@, n, t)]

\* What stands inside a constructor: a name, ref of a name or the wildcard.
BindPayload(a, c, t, Define(_, _, _)) ==
    CASE a.k = "name" -> Ok(IF a.name = <<"_">> THEN c ELSE Define(c, a.name[1], t), NoneType)
      [] a.k = "ref" -> Ok(IF a.name = <<"_">> THEN c ELSE Define(c, a.name[1], Reference(FALSE, t)), NoneType)
      [] OTHER -> Fail(c, "undefined")

VariantFields(c, variants, v) ==
    IF v \in DOMAIN variants /\ variants[v] # Bare /\ Concrete(c.types, variants[v]).k = "struct"
    THEN {Concrete(c.types, variants[v]).fields} ELSE {}

\* resolve_struct_pattern_field_types: by what is matched, then by the name in the pattern.
StructFields(c, t, p) ==
    LET struct(n) == IF n \in DOMAIN c.types /\ c.types[n].k = "struct" THEN {c.types[n].fields} ELSE {}
        matching == SelectSeq(InOrderOf(c, DOMAIN t.variants), LAMBDA v :
                        \E f \in VariantFields(c, t.variants, v) : DOMAIN p.fields \subseteq DOMAIN f)
        byType == CASE t.k = "struct" -> {t.fields}
                    [] t.k = "id" -> struct(t.name)
                    [] t.k = "enum" /\ Len(p.type) >= 2 -> VariantFields(c, t.variants, Last(p.type))
                    [] t.k = "enum" /\ p.type = <<>> /\ matching # <<>> -> VariantFields(c, t.variants, matching[1])
                    [] OTHER -> {}
        byName == CASE Len(p.type) = 1 -> struct(p.type[1])
                    [] Len(p.type) >= 2 /\ p.type[1] \in DOMAIN c.types /\ c.types[p.type[1]].k = "enum" ->
                           VariantFields(c, c.types[p.type[1]].variants, Last(p.type))
                    [] OTHER -> {}
    IN  IF byType # {} THEN byType ELSE byName

AnalyzeStructPattern(p, c, r) ==
    IF StructFields(c, r, p) = {} THEN Fail(c, "undefined")
    ELSE LET fields == CHOOSE f \in StructFields(c, r, p) : TRUE
         IN  Then(Each(InOrderOf(c, DOMAIN p.fields), c, LAMBDA n, d :
                      IF n \in DOMAIN fields THEN AnalyzePattern(p.fields[n], d, fields[n]) ELSE Fail(d, "undefined")),
                  LAMBDA d, ts : Ok(d, NoneType))

\* Names in the payload of a variant are put among the global variables, not into the scope of the arm.
AnalyzeVariantPattern(p, c, r) ==
    CASE r.k # "enum" -> Fail(c, "mismatch")
      [] p.name[2] \notin DOMAIN r.variants -> Fail(c, "undefined")
      [] r.variants[p.name[2]] = Bare ->
             IF p.args = <<>> THEN Ok(c, NoneType) ELSE Fail(c, IF p.path THEN "count" ELSE "undefined")
      [] p.path /\ Len(p.args) # 1 -> Fail(c, "count")
      [] OTHER -> Then(Each(p.args, c, LAMBDA a, d : BindPayload(a, d, r.variants[p.name[2]], DefineGlobal)),
                       LAMBDA d, ts : Ok(d, NoneType))

AnalyzeCallPattern(p, c, r) ==
    LET one == Len(p.args) = 1
        error == IF "StdError" \in DOMAIN c.types THEN c.types["StdError"] ELSE Id("StdError")
    IN  CASE p.name \in {<<"ok">>, <<"err">>} ->
                 CASE r.k # "res" -> Fail(c, "mismatch")
                   [] ~one -> Fail(c, "undefined")
                   [] OTHER -> AnalyzePattern(p.args[1], c, IF p.name = <<"ok">> THEN r.inner ELSE error)
          [] p.name = <<"some">> /\ r.k \in {"opt", "none"} /\ one ->
                 BindPayload(p.args[1], c, IF r.k = "opt" THEN r.inner ELSE NoneType, DefineVariable)
          [] Len(p.name) < 2 -> Fail(c, "undefined")
          [] OTHER -> AnalyzeVariantPattern(p, c, r)

AnalyzePattern(p, c, t) ==
    LET r == IF t.k = "id" /\ t.name \in DOMAIN c.types THEN c.types[t.name] ELSE t
    IN  CASE p.k = "name" ->
                 CASE p.name = <<"_">> \/ (p.name = <<"none">> /\ r.k = "opt") -> Ok(c, NoneType)
                   [] Len(p.name) >= 2 -> Require(Ok(c, NoneType), r.k = "enum", "mismatch")
                   [] OTHER -> Ok(DefineVariable(c, p.name[1], t), NoneType)
          [] p.k = "tuple" ->
                 CASE r.k # "tup" -> Fail(c, "mismatch")
                   [] Len(p.elems) # Len(r.elems) -> Fail(c, "count")
                   [] OTHER -> Then(Each([i \in DOMAIN p.elems |-> i], c, LAMBDA i, d :
                                        AnalyzePattern(p.elems[i], d, r.elems[i])), LAMBDA d, ts : Ok(d, NoneType))
          [] p.k = "struct" -> AnalyzeStructPattern(p, c, r)
          [] p.k = "call" -> AnalyzeCallPattern(p, c, r)
          [] p.k = "path" ->
                 CASE Len(p.name) < 2 -> Fail(c, "undefined")
                   [] r.k # "enum" -> Fail(c, "mismatch")
                   [] OTHER -> Require(Ok(c, NoneType), p.name[2] \in DOMAIN r.variants, "undefined")
          [] OTHER -> Fail(c, "undefined")

RECURSIVE BindPattern(_, _, _)
BindPattern(p, t, c) ==
    CASE p.k = "name" -> Ok(DefineVariable(c, p.name, t), t)
      [] p.k = "discard" -> Ok(c, t)
      [] t.k # "tup" -> Fail(c, "mismatch")
      [] Len(p.elems) # Len(t.elems) -> Fail(c, "count")
      [] OTHER -> Each([i \in DOMAIN p.elems |-> i], c, LAMBDA i, d : BindPattern(p.elems[i], t.elems[i], d))

----------------------------------------------------------------------------
(* Table definitions: a sequence of columns                                *)
(*     [name, type, computed, expr, annotations, default]                  *)
(* where expr and default are sequences of at most one expression.         *)

ColumnNames(def) == {def[i].name : i \in DOMAIN def}
ColumnNamed(def, n) == CHOOSE i \in DOMAIN def : def[i].name = n /\ \A j \in 1..(i - 1) : def[j].name # n
ComputedNames(def) == {def[i].name : i \in {j \in DOMAIN def : def[j].computed /\ def[j].expr # <<>>}}

\* extract_column_references: what is cast, the callee and the bodies of loops as expressions are
\* not looked into.
RECURSIVE References(_), StatementReferences(_)
References(e) ==
    LET All(es) == UNION {References(x) : x \in ToSet(es)}
        Every(ss) == UNION {StatementReferences(s) : s \in ToSet(ss)}
    IN  CASE e.k = "name" -> ToSet(e.name)
          [] e.k = "bin" -> All(<<e.left, e.right>>)
          [] e.k \in {"un", "question", "unwrap"} -> References(e.operand)
          [] e.k \in {"call", "callpath", "method"} -> All(e.args)
          [] e.k \in {"tuple", "vec"} -> All(e.elems)
          [] e.k = "ifx" -> References(e.condition) \cup All(e.branches)
          [] e.k = "if" -> References(e.condition) \cup Every(e.then \o e.else)
          [] e.k = "block" -> Every(e.body)
          [] e.k = "structlit" -> UNION {References(e.fields[f]) : f \in DOMAIN e.fields}
          [] e.k = "field" -> References(e.object)
          [] e.k = "index" -> References(e.object) \cup All(e.indices)
          [] e.k = "match" -> References(e.value) \cup UNION {References(a.pattern) \cup References(a.body) : a \in ToSet(e.arms)}
          [] e.k = "range" -> All(<<e.start, e.end>> \o e.step)
          [] e.k = "vecnew" -> All(e.dims \o e.fill)
          [] OTHER -> {}

StatementReferences(s) ==
    CASE s.k \in {"var", "const", "expr"} -> References(s.value)
      [] s.k = "assign" -> References(s.target) \cup References(s.value)
      [] s.k = "return" -> UNION {References(e) : e \in ToSet(s.result)}
      [] s.k = "for" -> References(s.over) \cup UNION {StatementReferences(t) : t \in ToSet(s.body)}
      [] OTHER -> {}

Dependencies(def, n) == References(def[ColumnNamed(def, n)].expr[1]) \cap ColumnNames(def)

\* Mutant of EvaluationOrder: the order the maps give the columns out in.
ArbitraryOrder(def, order) == SelectSeq(order, LAMBDA n : n \in ComputedNames(def))

\* compute_column_evaluation_order: the columns whose dependencies are in the order already, as a
\* queue; the names that become ready together come in the arbitrary order of the maps.
EvaluationOrder(def, order) ==
    LET cs == ComputedNames(def)
        Ready(done) == {n \in cs \ ToSet(done) : Dependencies(def, n) \cap cs \subseteq ToSet(done)}
        Arranged(ns) == SelectSeq(order, LAMBDA n : n \in ns)
        Next(r) == LET head == r.queue[1]
                       done == Append(r.done, head)
                       fresh == Ready(done) \ ToSet(r.queue)
                   IN  [queue |-> Tail(r.queue) \o Arranged(fresh), done |-> done]
        steps[i \in 0..Cardinality(cs)] ==
            IF i = 0 THEN [queue |-> Arranged(Ready(<<>>)), done |-> <<>>]
            ELSE IF steps[i - 1].queue = <<>> THEN steps[i - 1] ELSE Next(steps[i - 1])
    IN  steps[Cardinality(cs)].done

DefineColumns(c, def, Include(_), TypeOfColumn(_)) ==
    FoldLeft(LAMBDA d, col : IF Include(col) THEN DefineVariable(d, col.name, TypeOfColumn(col)) ELSE d, c, def)

\* infer_computed_column_types: returns the definition with the types in place of the context.
\* A computed column whose expression is missing is refused.
InferColumns(def, c) ==
    LET order == EvaluationOrder(def, c.order)
        stored == DefineColumns(c, def, LAMBDA col : ~col.computed, LAMBDA col : col.type)
        all == DefineColumns(stored, def, LAMBDA col : col.computed,
                             LAMBDA col : IF col.type = NoneType THEN Id("unknown") ELSE col.type)
        Column(n, d, done) ==
            LET i == ColumnNamed(done, n)
            IN  Then(Analyze(done[i].expr[1], d), LAMBDA f, t :
                    LET type == IF done[i].type = NoneType THEN t ELSE done[i].type
                    IN  Require(Ok(DefineVariable(f, n, type), [done EXCEPT ![i].type = type]),
                                Compatible(type, t), "mismatch"))
        inferred == FoldLeft(LAMBDA r, n : Then(r, LAMBDA d, done : Column(n, d, done)), Ok(all, def), order)
        written == \A i \in DOMAIN def : def[i].computed => def[i].expr # <<>>
    IN  IF Len(order) # Cardinality(ComputedNames(def)) THEN Fail(c, "undefined")
        ELSE [Require(inferred, written, "undefined") EXCEPT !.c = c]

----------------------------------------------------------------------------
(* validate_table_definition *)

AnnotationArity == [primary |-> 0, size |-> 1, precision |-> 2]
AnnotationOk(a) ==
    \/ a.name \in {"autoincrement", "indexed", "nullable"}
    \/ a.name \in DOMAIN AnnotationArity /\ a.args = AnnotationArity[a.name]

\* The columns in order, each with the checks in order; a computed column sees the declared types,
\* in a context of its own.  A default is analyzed in the context itself.
ValidateColumn(def, i, c) ==
    LET col == def[i]
        soFar == FoldLeft(LAMBDA acc, x : acc \o x.annotations, <<>>, SubSeq(def, 1, i))
        own == DefineColumns(c, def, LAMBDA x : TRUE, LAMBDA x : x.type)
        typed == CASE \E j \in 1..(i - 1) : def[j].name = col.name -> Fail(c, "undefined")
                   [] ~col.computed -> Require(Ok(c, col.type), Known(c.types, col.type), "undefined")
                   [] col.expr = <<>> -> Fail(c, "undefined")
                   [] OTHER -> [Expect(col.type, Analyze(col.expr[1], own)) EXCEPT !.c = c]
        annotated == /\ \A a \in ToSet(col.annotations) : AnnotationOk(a)
                     /\ Len(SelectSeq(soFar, LAMBDA a : a.name = "primary")) <= 1
    IN  Then(Require(typed, annotated, "undefined"), LAMBDA d, t :
            Each(col.default, d, LAMBDA e, f : Expect(col.type, Analyze(e, f))))

ValidateTable(def, c) == Then(Each([i \in DOMAIN def |-> i], c, LAMBDA i, d : ValidateColumn(def, i, d)),
                              LAMBDA d, ts : Ok(d, NoneType))

----------------------------------------------------------------------------
(* validate_system_definition; a parameter is a query, a resource or a value *)

ValidateSystem(def, c) ==
    LET Parameter(p, d) ==
            CASE p.k = "query" -> Require(Ok(d, NoneType), {p.table} \cup ToSet(p.joins) \subseteq DOMAIN d.tables, "undefined")
              [] p.k = "resource" -> Ok(d, NoneType)
              [] OTHER -> Then(Each(p.default, d, LAMBDA e, f : Expect(p.type, Analyze(e, f))),
                               LAMBDA f, ts : Ok(f, NoneType))
    IN  Each(def.params, c, Parameter)

ParameterType(p) ==
    CASE p.k = "query" -> Id("QueryResult")
      [] p.k = "resource" -> IF p.access = "Owned" THEN p.type ELSE Reference(p.access = "Mutable", p.type)
      [] OTHER -> p.type

----------------------------------------------------------------------------
(* Statements *)

Types(params) == [i \in DOMAIN params |-> params[i].type]
Default(ret, t) == IF ret = <<>> THEN t ELSE ret[1]

\* Mutant of AnalyzeBody: the return type of a function stays.
ReturnTypeStays(params, ret, body, c) ==
    LET inside == FoldLeft(LAMBDA d, p : DefineVariable(d, p.name, p.type), [c EXCEPT !.ret = ret], params)
    IN  InContext(AnalyzeAll(body, inside), LAMBDA d : [d EXCEPT !.vars = c.vars])

\* Parameters and body of a function or a system; the variables and the return type are restored,
\* the scopes and the depth of loops go through.
AnalyzeBody(params, ret, body, c) ==
    LET inside == FoldLeft(LAMBDA d, p : DefineVariable(d, p.name, p.type), [c EXCEPT !.ret = ret], params)
    IN  InContext(AnalyzeAll(body, inside), LAMBDA d : [d EXCEPT !.vars = c.vars, !.ret = c.ret])

AnalyzeVariable(s, c) ==
    Then(Analyze(s.value, c), LAMBDA d, t :
        IF s.type # <<>> /\ ~Assignable(d.types, s.type[1], t) THEN Fail(d, "mismatch")
        ELSE BindPattern(s.pattern, Default(s.type, t), d))

AnalyzeAssignment(s, c) ==
    Then(InferAll(<<s.target, s.value>>, c), LAMBDA d, ts :
        Require(Ok(d, NoneType), Assignable(d.types, ts[1], ts[2]), "mismatch"))

AnalyzeReturn(s, c) ==
    IF c.ret = NoFunction THEN Fail(c, "return")
    ELSE Each(s.result, c, LAMBDA e, d : Expect(d.ret, Analyze(e, d)))

AnalyzeFor(s, c) ==
    Then(Analyze(s.over, c), LAMBDA d, t :
        InContext(AnalyzeAll(s.body, DefineVariable(EnterLoop(d), s.name, Default(s.type, I64))), ExitLoop))

\* Items of an impl block by kind; a method's signature has its parameters as they are written.
Methods(s) == {i \in DOMAIN s.items : s.items[i].k \in {"fn", "method"}}
Signature(f) == [params |-> Types(f.params), ret |-> Default(f.ret, I64)]
Provided(s) ==
    [n \in {s.items[i].name : i \in Methods(s)} |->
        Signature(s.items[CHOOSE i \in Methods(s) : s.items[i].name = n /\ \A j \in Methods(s) : s.items[j].name = n => j <= i])]
Associated(s) ==
    LET is == {i \in DOMAIN s.items : s.items[i].k = "type"}
    IN  [n \in {s.items[i].name : i \in is} |-> s.items[CHOOSE i \in is : s.items[i].name = n].type]

ValidateItem(i, c) ==
    CASE i.k = "table" -> Analyze(i, c)
      [] i.k = "system" -> ValidateSystem(i, c)
      [] OTHER -> Ok(c, NoneType)

\* One method of a trait against what the block provides.
CheckMethod(m, t, s, c) ==
    LET p == Provided(s)[m]
        Same(a, b) == Matches(a, b, Associated(s), s.self)
    IN  CASE t.k # "fn" -> Ok(c, NoneType)
          [] m \notin DOMAIN Provided(s) -> Fail(c, "undefined")
          [] Len(t.params) # Len(p.params) -> Fail(c, "count")
          [] OTHER -> Require(Ok(c, NoneType), /\ \A i \in DOMAIN t.params : Same(t.params[i], p.params[i])
                                               /\ Same(t.ret, p.ret), "mismatch")

\* The first wrong method in the order of the map decides the error, and so whether it is dropped.
AnalyzeTraitImpl(s, c) ==
    IF s.trait \notin DOMAIN c.traits THEN Fail(c, "undefined")
    ELSE LET trait == c.traits[s.trait]
         IN  Then(Each(s.items, c, ValidateItem), LAMBDA d, ts :
                 IF ~(trait.assoc \subseteq DOMAIN Associated(s)) THEN Fail(d, "undefined")
                 ELSE Then(Each(InOrderOf(d, DOMAIN trait.methods), d, LAMBDA m, f : CheckMethod(m, trait.methods[m], s, f)),
                           LAMBDA f, us : Ok([f EXCEPT !.timpls = Put(@, <<s.trait, s.type>>, Provided(s))], NoneType)))

AnalyzeImpl(s, c) ==
    IF s.trait # "" THEN AnalyzeTraitImpl(s, c)
    ELSE LET old == IF s.type \in DOMAIN c.impls THEN c.impls[s.type] ELSE EmptyMap
         IN  Ok([c EXCEPT !.impls = Put(@, s.type, Provided(s) @@ old)], NoneType)

AnalyzeModule(s, c) ==
    InContext(AnalyzeAll(s.items, [c EXCEPT !.path = Append(@, s.name)]), LAMBDA d : [d EXCEPT !.path = Front(@)])

AnalyzeSystem(s, c) ==
    Then(ValidateSystem(s, c), LAMBDA d, t :
        AnalyzeBody([i \in DOMAIN s.params |-> [name |-> s.params[i].name, type |-> ParameterType(s.params[i])]],
                    Default(s.ret, NoneType), s.body, d))

AnalyzeStatement(s, c) ==
    CASE s.k = "module" -> AnalyzeModule(s, c)
      [] s.k = "fn" -> AnalyzeBody(s.params, Default(s.ret, NoneType), s.body, c)
      [] s.k = "const" -> Then(Analyze(s.value, c), LAMBDA d, t : Ok(DefineVariable(d, s.name, Default(s.type, t)), t))
      [] s.k = "type" /\ s.type.k = "fn" ->
             Ok([c EXCEPT !.fns = Put(@, << <<>>, <<s.name>> >>, [params |-> s.type.params, ret |-> s.type.ret])], NoneType)
      [] s.k = "table" -> ValidateTable(s.def, c)
      [] s.k = "system" -> AnalyzeSystem(s, c)
      [] s.k = "var" -> AnalyzeVariable(s, c)
      [] s.k = "assign" -> AnalyzeAssignment(s, c)
      [] s.k = "expr" -> Analyze(s.value, c)
      [] s.k = "return" -> AnalyzeReturn(s, c)
      [] s.k \in {"break", "continue"} -> Require(Ok(c, NoneType), c.loops > 0, s.k)
      [] s.k = "for" -> AnalyzeFor(s, c)
      [] s.k = "impl" -> AnalyzeImpl(s, c)
      [] s.k = "use" -> Ok(AddUse(c, s), NoneType)
      [] s.k = "ifdef" -> AnalyzeAll(s.then \o s.else, c)
      [] OTHER -> Ok(c, NoneType)

StatementKinds == {"module", "type", "fn", "const", "table", "system", "var", "assign", "expr", "return", "break", "continue",
                   "for", "impl", "use", "ifdef"}
Analyze(n, c) == IF n.k \in StatementKinds THEN AnalyzeStatement(n, c) ELSE Infer(n, c)

----------------------------------------------------------------------------
(* collect_definitions *)

CollectFunction(s, c) ==
    DefineVariable(DefineFunction(c, <<s.name>>, Types(s.params), Default(s.ret, I64)),
                   s.name, FnType(Types(s.params), Default(s.ret, I64)))

CollectType(s, c) ==
    LET d == [c EXCEPT !.types = Put(@, s.name, s.type)]
    IN  IF s.type.k # "trait" THEN d
        ELSE [d EXCEPT !.traits = Put(@, s.name, [assoc |-> s.type.assoc, methods |-> s.type.methods])]

CollectTable(s, c) ==
    Then(InferColumns(s.def, c), LAMBDA d, def :
        Then(Analyze([s EXCEPT !.def = def], d), LAMBDA f, t : Ok([f EXCEPT !.tables = Put(@, s.name, def)], NoneType)))

\* A method is a function too; a constant one of the type itself has a pointer to it in front,
\* unless it takes nothing.
CollectImpl(s, c) ==
    LET name == IF s.trait = "" THEN <<s.type>> ELSE <<s.trait, s.type>>
        start == IF s.trait = "" THEN [c EXCEPT !.impls = Put(@, s.type, EmptyMap)]
                 ELSE [c EXCEPT !.timpls = Put(@, name, EmptyMap)]
        Item(i, d) ==
            IF i.k \notin {"fn", "method"} THEN ValidateItem(i, d)
            ELSE LET self == IF i.k = "fn" /\ s.trait = "" /\ i.params # <<>> THEN <<Ptr(FALSE, s.self)>> ELSE <<>>
                 IN  Ok(DefineFunction(d, Append(name, i.name), self \o Types(i.params), Default(i.ret, I64)), NoneType)
    IN  Then(Each(s.items, start, Item), LAMBDA d, ts : Ok(d, NoneType))

RECURSIVE Collect(_, _)
Collect(s, c) ==
    CASE s.k = "module" ->
             InContext(Then(Each(s.items, [c EXCEPT !.path = Append(@, s.name)], Collect), LAMBDA d, ts : Ok(d, NoneType)),
                       LAMBDA d : [d EXCEPT !.path = Front(@)])
      [] s.k = "type" -> Ok(CollectType(s, c), NoneType)
      [] s.k = "fn" -> Ok(CollectFunction(s, c), NoneType)
      [] s.k = "const" -> Then(Analyze(s.value, c), LAMBDA d, t : Ok(DefineVariable(d, s.name, t), t))
      [] s.k = "table" -> CollectTable(s, c)
      [] s.k = "system" ->
             Ok(DefineFunction(c, <<s.name>>, [i \in DOMAIN s.params |-> ParameterType(s.params[i])],
                               Default(s.ret, NoneType)), NoneType)
      [] s.k = "impl" -> CollectImpl(s, c)
      [] OTHER -> Ok(c, NoneType)
=============================================================================
