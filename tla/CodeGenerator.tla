---------------------------- MODULE CodeGenerator ----------------------------
(***************************************************************************)
(* Expressions, statements and functions in generate_expression,           *)
(* generate_statement and declare_and_define_functions (codegen.rs).       *)
(* Generating returns [g, ok, held]: the generator, whether there was no   *)
(* error, and whether the value is the one loaded or made last (else it is *)
(* a constant or computed).  An error leaves what was emitted before it.   *)
(***************************************************************************)
EXTENDS CodeBuilder

Made(g, held) == [g |-> g, ok |-> TRUE, held |-> held]
Err(g) == [g |-> [g EXCEPT !.erred = TRUE], ok |-> FALSE, held |-> FALSE]
AndThen(r, Op(_)) == IF r.ok THEN Op(r.g) ELSE r
WithValue(r, Op(_, _)) == IF r.ok THEN Op(r.g, r.held) ELSE r
\* The part id of the program is not generated, as something it needs is not.
Unless(r, id, Op(_)) == IF r.ok THEN Op(r.g) ELSE Err([r.g EXCEPT !.skipped = @ \cup {id}])
\* let _ = self.generate_statement(..)
Swallow(r) == r.g

\* n is an expression or a statement.
RECURSIVE Gen(_, _), ContainsReturn(_)

\* Not in operands: those of a logical operator among them.
ContainsReturn(n) ==
    LET InOneOf(ss) == \E i \in DOMAIN ss : ContainsReturn(ss[i])
    IN  CASE n.k = "ret" -> TRUE
          [] n.k \in {"expr", "var", "assign", "question"} -> ContainsReturn(n.value)
          [] n.k \in {"for", "block", "loop"} -> InOneOf(n.body)
          [] n.k = "if" -> InOneOf(n.then \o n.else)
          [] n.k = "match" -> \E i \in DOMAIN n.arms : ContainsReturn(n.arms[i].body)
          [] OTHER -> FALSE

----------------------------------------------------------------------------
(* Names, calls, blocks *)

GenName(n, g) == IF n \in DOMAIN g.vars THEN Made(Emit(g, Load(g.vars[n], FALSE)), TRUE) ELSE Err(g)

GenNames(ns, g) == FoldLeft(LAMBDA r, n : AndThen(r, LAMBDA h : GenName(n, h)), Made(g, FALSE), ns)

GenTuple(ns, g) ==
    FoldLeft(LAMBDA r, i : AndThen(r, LAMBDA h : IF ns[i] \in DOMAIN h.vars
                                             THEN Made(Emit(h, Load(h.vars[ns[i]], i > 1)), TRUE) ELSE Err(h)),
             Made(g, FALSE), [i \in DOMAIN ns |-> i])

GenCall(e, g) == Unless(GenNames(e.args, g), e.id, LAMBDA h : Made(Emit(h, Do(e.id)), TRUE))

\* drop(x), for a variable.
GenDropCall(n, g) == Made(Forget(Unregister(DropCurrent(g, n), n), n), FALSE)

GenBlock(ss, g) ==
    IF ss = <<>> THEN Made(g, FALSE)
    ELSE LET h == FoldLeft(LAMBDA a, s : Swallow(Gen(s, a)), g, Front(ss))
         IN  IF Last(ss).k = "expr" THEN Gen(Last(ss).value, h) ELSE Made(Swallow(Gen(Last(ss), h)), FALSE)

----------------------------------------------------------------------------
(* if *)

\* Up to the first terminator; only an expression at the end passes its error on.
GenBranch(ss, g) ==
    FoldLeft(LAMBDA r, i : IF ~r.ok \/ Terminated(r.g) THEN r
                           ELSE IF i = Len(ss) /\ ss[i].k = "expr" THEN Gen(ss[i].value, r.g)
                           ELSE Made(Swallow(Gen(ss[i], r.g)), FALSE),
             Made(g, FALSE), [i \in DOMAIN ss |-> i])

FlowTo(g, cont) ==
    IF Terminated(g) THEN [g |-> g, cont |-> cont]
    ELSE IF cont # 0 THEN [g |-> JumpAlways(g, cont), cont |-> cont]
    ELSE [g |-> JumpAlways(NewBlocks(g, 1), Len(g.blocks) + 1), cont |-> Len(g.blocks) + 1]

\* The continuation is made when a branch reaches it; if none does, the builder stays at the end of
\* the else branch.
GenIf(e, g) ==
    Unless(Gen(e.cond, g), e.id, LAMBDA h :
        LET yes == Len(h.blocks) + 1
            no == yes + 1
        IN  AndThen(GenBranch(e.then, PositionAt(Emit(NewBlocks(h, 2), Branch(e.id, 0, yes, no)), yes)), LAMBDA t :
                LET a == FlowTo(t, 0)
                IN  AndThen(GenBranch(e.else, PositionAt(a.g, no)), LAMBDA f :
                        LET b == FlowTo(f, a.cont)
                        IN  Made(IF b.cont = 0 THEN b.g ELSE PositionAt(b.g, b.cont), FALSE))))

----------------------------------------------------------------------------
(* match *)

\* Comparisons from the current block on, each in a block of its own but the first; the last one
\* that fails leads to the default.  After an arm for everything, what follows is in the default.
TagChain(e, first, default, g) ==
    FoldLeft(LAMBDA h, i :
                 IF e.arms[i].pattern = "wild" THEN PositionAt(JumpAlways(h, first + i), default)
                 ELSE IF i < Len(e.arms)
                 THEN PositionAt(Emit(NewBlocks(h, 1), Branch(e.id, i, first + i, Len(h.blocks) + 1)), Len(h.blocks) + 1)
                 ELSE PositionAt(Emit(h, Branch(e.id, i, first + i, default)), default),
             g, [i \in DOMAIN e.arms |-> i])

\* On a tuple an arm for everything is compared too, by a branch on true: the chain goes on behind it.
TupleChain(e, first, default, g) ==
    FoldLeft(LAMBDA h, i :
                 LET last == i = Len(e.arms)
                     next == IF last THEN default ELSE Len(h.blocks) + 1
                     test == IF e.arms[i].pattern = "wild" THEN Jump(first + i) ELSE Branch(e.id, i, first + i, next)
                 IN  PositionAt(Emit(IF last THEN h ELSE NewBlocks(h, 1), test), next),
             g, [i \in DOMAIN e.arms |-> i])

\* An arm with a return in it, somewhere, is taken to end there.
GenArm(e, i, first, cont, g) ==
    LET a == e.arms[i]
        h == PositionAt(g, first + i)
        bound == IF a.pattern = "binds" THEN Emit(Allocate(h, a.name), Store(h.slots + 1, FALSE, FALSE)) ELSE h
    IN  AndThen(Gen(a.body, bound), LAMBDA b :
            LET out == IF ~e.tuple /\ ContainsReturn(a.body) THEN b ELSE JumpOnce(b, cont)
            IN  Made(IF a.pattern = "binds" THEN Restore(out, a.name, g.vars) ELSE out, FALSE))

GenMatch(e, g) ==
    Unless(Gen(e.value, g), e.id, LAMBDA h :
        LET first == Len(h.blocks)          \* arm i is block first + i
            default == first + Len(e.arms) + 1
            cont == default + 1
            blocks == NewBlocks(h, Len(e.arms) + 2)
            chain == IF e.tuple THEN TupleChain(e, first, default, blocks) ELSE TagChain(e, first, default, blocks)
        IN  AndThen(FoldLeft(LAMBDA r, i : AndThen(r, LAMBDA a : GenArm(e, i, first, cont, a)),
                          Made(chain, FALSE), [i \in DOMAIN e.arms |-> i]),
                 LAMBDA a : Made(PositionAt(JumpOnce(PositionAt(a, default), cont), cont), FALSE)))

\* value ? else other: the match with an arm for some(v), which is v, and one for none.
GenOrElse(e, g) ==
    Unless(Gen(e.value, g), e.id, LAMBDA h :
        LET some == Len(h.blocks) + 1
            none == some + 1
            cont == some + 2
            taken == PositionAt(Emit(NewBlocks(h, 3), Branch(e.id, 0, none, some)), some)
            bound == Emit(Allocate(taken, e.name), Store(taken.slots + 1, FALSE, FALSE))
            passed == JumpOnce(Restore(GenName(e.name, bound).g, e.name, h.vars), cont)
        IN  AndThen(Gen(e.other, PositionAt(passed, none)), LAMBDA f : Made(PositionAt(JumpOnce(f, cont), cont), FALSE)))

----------------------------------------------------------------------------
(* Operators that branch *)

\* left and right: the right operand in a block of its own, left without a look at how it ends.
GenLogic(e, g) ==
    Unless(Gen(e.left, g), e.id, LAMBDA h :
        LET rhs == Len(h.blocks) + 1
            short == rhs + 1
            merge == rhs + 2
            test == IF e.and THEN Branch(e.id, 0, rhs, short) ELSE Branch(e.id, 0, short, rhs)
            shorted == JumpAlways(PositionAt(Emit(NewBlocks(h, 3), test), short), merge)
        IN  AndThen(Gen(e.right, PositionAt(shorted, rhs)), LAMBDA r : Made(PositionAt(JumpAlways(r, merge), merge), FALSE)))

\* value?: a failure returns at once, with the owned locals as they are.
GenQuestion(e, g) ==
    Unless(Gen(e.value, g), e.id, LAMBDA h :
        IF ~h.optional THEN Err(h)
        ELSE LET success == Len(h.blocks) + 1
                 failure == success + 1
                 cont == success + 2
                 passed == JumpAlways(PositionAt(Emit(NewBlocks(h, 3), Branch(e.id, 0, success, failure)), success), cont)
             IN  Made(PositionAt(ReturnOnce(PositionAt(passed, failure), FALSE), cont), FALSE))

\* Loop is not among the expressions that are generated: its body is gone.
GenExpression(e, g) ==
    CASE e.k = "name" -> GenName(e.name, g)
      [] e.k = "tuple" -> GenTuple(e.names, g)
      [] e.k = "do" -> GenCall(e, g)
      [] e.k = "drop" -> GenDropCall(e.name, g)
      [] e.k = "block" -> GenBlock(e.body, g)
      [] e.k = "if" -> GenIf(e, g)
      [] e.k = "match" -> GenMatch(e, g)
      [] e.k = "orelse" -> GenOrElse(e, g)
      [] e.k = "logic" -> GenLogic(e, g)
      [] e.k = "question" -> GenQuestion(e, g)
      [] e.k \in {"literal", "loop"} -> Made(g, FALSE)

----------------------------------------------------------------------------
(* Statements *)

\* mark_expr_moved: a block is not looked into.
MarkMoved(e, g) ==
    CASE e.k = "name" -> Unregister(g, e.name)
      [] e.k = "tuple" -> FoldLeft(LAMBDA h, n : Unregister(h, n), g, e.names)
      [] OTHER -> g

\* The value is copied: what it is loaded from stays owned.
GenVar(s, g) ==
    WithValue(Gen(s.value, g), LAMBDA h, held :
        CASE s.pattern = "name" -> Made(Bind(h, s.names[1], s.typed, held), FALSE)
          [] s.pattern = "discard" -> Made(h, FALSE)
          [] s.pattern = "tuple" -> Made(FoldLeft(LAMBDA a, n : Bind(a, n, s.typed, FALSE), h, s.names), FALSE))

\* A constant inside a body: a variable whose type is not kept.
GenConst(s, g) ==
    WithValue(Gen(s.value, g), LAMBDA h, held : Made(Emit(Allocate(h, s.name), Store(h.slots + 1, held, FALSE)), FALSE))

\* The new value first, then the end of the old one.
GenAssign(s, g) ==
    WithValue(Gen(s.value, g), LAMBDA h, held :
        IF s.name \notin DOMAIN h.vars THEN Err(h)
        ELSE Made(Track(Emit(DropCurrent(h, s.name), Store(h.vars[s.name], held, OwnedType(h, s.name))), s.name), FALSE))

\* Whether i < end or i > end is known, unless the step is a variable: then there are three more blocks.
TestFixed(s, body, end, g) == Emit(g, Branch(s.id, 0, body, end))
TestEither(s, body, end, g) ==
    LET neg == Len(g.blocks) + 1
        pos == neg + 1
        join == neg + 2
        h == JumpAlways(PositionAt(Emit(NewBlocks(g, 3), Fork(neg, pos)), neg), join)
    IN  TestFixed(s, body, end, PositionAt(JumpAlways(PositionAt(h, pos), join), join))

\* Errors in the body are dropped, but those of a loop over a slice.
LoopBody(s, again, out, g) ==
    LET r == FoldLeft(LAMBDA q, t : IF s.over = "slice" THEN AndThen(q, LAMBDA h : Gen(t, h))
                                    ELSE Made(Swallow(Gen(t, q.g)), FALSE),
                      Made(PushLoop(g, again, out), FALSE), s.body)
    IN  [r EXCEPT !.g = PopLoop(IF r.ok THEN JumpOnce(r.g, again) ELSE r.g)]

\* over: "vector" (a matrix, a vector or a Vec), "range", "steps" (a range with a variable step),
\* "slice", or "other", which is passed over.
GenFor(s, g) ==
    IF s.over = "other" THEN Made(g, FALSE)
    ELSE Unless(FoldLeft(LAMBDA r, e : AndThen(r, LAMBDA h : Gen(e, h)), Made(g, FALSE), s.range), s.id, LAMBDA h :
        LET cond == Len(h.blocks) + 1
            body == cond + 1
            inc == cond + 2
            end == cond + 3
            head == PositionAt(JumpAlways(Allocate(NewBlocks(h, 4), s.name), cond), cond)
            tested == IF s.over = "steps" THEN TestEither(s, body, end, head) ELSE TestFixed(s, body, end, head)
            element == Emit(PositionAt(tested, body), Store(head.slots, FALSE, FALSE))
        IN  AndThen(LoopBody(s, inc, end, element), LAMBDA b :
                Made(Restore(PositionAt(JumpAlways(PositionAt(b, inc), cond), end), s.name, h.vars), FALSE)))

\* Moved, dropped, returned: whatever the block already ends in.
GenReturn(s, g) ==
    IF s.result = <<>> THEN Made(ReturnAlways(DropAll(g), FALSE), FALSE)
    ELSE LET r == Gen(s.result[1], g)
         IN  Unless(r, s.id, LAMBDA h : Made(ReturnAlways(DropAll(MarkMoved(s.result[1], h)), r.held), FALSE))

\* Outside a loop nothing is emitted.
GenBreak(g) == Made(IF g.loops = <<>> THEN g ELSE JumpOnce(g, Last(g.loops).out), FALSE)
GenContinue(g) == Made(IF g.loops = <<>> THEN g ELSE JumpOnce(g, Last(g.loops).again), FALSE)

GenStatement(s, g) ==
    CASE s.k = "var" -> GenVar(s, g)
      [] s.k = "const" -> GenConst(s, g)
      [] s.k = "assign" -> GenAssign(s, g)
      [] s.k = "for" -> GenFor(s, g)
      [] s.k = "expr" -> Gen(s.value, g)
      [] s.k = "ret" -> GenReturn(s, g)
      [] s.k = "break" -> GenBreak(g)
      [] s.k = "continue" -> GenContinue(g)

ExpressionKinds == {"literal", "name", "tuple", "do", "drop", "block", "if", "match", "orelse", "logic", "question", "loop"}
Gen(n, g) == IF n.k \in ExpressionKinds THEN GenExpression(n, g) ELSE GenStatement(n, g)

----------------------------------------------------------------------------
(* Functions: records [kind, destructor, optional, globals, params, body], body an expression *)

Enter(f) ==
    FoldLeft(LAMBDA g, p : Bind(Emit(g, Argument), p.name, p.typed, TRUE), NewGenerator(f.destructor, f.optional, f.globals), f.params)

\* A body with a scalar result.
GenScalar(f, g) ==
    WithValue(Gen(f.body, g), LAMBDA h, held : Made(ReturnOnce(DropAll(MarkMoved(f.body, h)), held), FALSE))

\* A body with a struct as its result, and every ?T and !T is one.  All statements but the last are
\* generated to see whether a struct literal is the last: if it is not, the whole block is, again.
GenStruct(f, g) ==
    IF f.body.k # "block" THEN GenScalar(f, g)
    ELSE IF f.body.body = <<>> THEN Made(ReturnOnce(DropAll(g), FALSE), FALSE)
    ELSE LET h == FoldLeft(LAMBDA a, s : Swallow(Gen(s, a)), g, Front(f.body.body))
             tail == Last(f.body.body)
         IN  IF tail.k = "expr" /\ tail.value.k = "literal" THEN Made(ReturnOnce(DropAll(h), FALSE), FALSE)
             ELSE GenScalar(f, h)

\* A method of an impl block: the return is built whatever the body ends in.
GenMethod(f, g) ==
    WithValue(Gen(f.body, g), LAMBDA h, held : Made(ReturnAlways(DropAll(MarkMoved(f.body, h)), held), FALSE))

\* A system: its locals are not dropped at the end, and one that says it returns none does not return.
GenSystem(f, g) ==
    AndThen(FoldLeft(LAMBDA r, s : AndThen(r, LAMBDA h : Gen(s, h)), Made(g, FALSE), f.body.body),
         LAMBDA h : Made(IF f.kind = "system" THEN ReturnOnce(h, FALSE) ELSE h, FALSE))

\* The statements outside functions, in the main of a program that has none.
GenTop(f, g) ==
    Made(ReturnAlways(DropAll(FoldLeft(LAMBDA a, s : Swallow(Gen(s, a)), g, f.body.body)), FALSE), FALSE)

GenFunction(f) ==
    CASE f.kind = "scalar" -> GenScalar(f, Enter(f))
      [] f.kind = "struct" -> GenStruct(f, Enter(f))
      [] f.kind = "method" -> GenMethod(f, Enter(f))
      [] f.kind \in {"system", "systemOfNone"} -> GenSystem(f, Enter(f))
      [] f.kind = "top" -> GenTop(f, Enter(f))
=============================================================================
