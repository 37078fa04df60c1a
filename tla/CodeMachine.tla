----------------------------- MODULE CodeMachine -----------------------------
(***************************************************************************)
(* A function is generated, verified (write_object_file) and run, block by *)
(* block; and what its body means, without blocks: the sequences of calls  *)
(* and decisions it may go through.  Types of values are left out of both. *)
(***************************************************************************)
EXTENDS CodeGenerator, FiniteSetsExt

CONSTANTS Functions,  \* the functions to compile
          MaxRounds   \* times a loop goes round

VARIABLES fn,   \* the function
          code, \* the generator when it is done with fn
          run   \* the machine

codeVars == <<fn, code, run>>

\* A machine: where it is; the values in the slots, none for a plain one and Junk for no store yet;
\* the value loaded or made last; the calls and decisions; the values dropped, returned and owned.
Junk == 0
Idle == [state |-> "generate", at |-> 1, slots |-> <<>>, value |-> {}, made |-> 0,
         events |-> <<>>, dropped |-> <<>>, given |-> {}, kept |-> {}]

----------------------------------------------------------------------------
(* Steps *)

Fresh(m) == [m EXCEPT !.made = @ + 1, !.value = {m.made + 1}]

Exec(m, i) ==
    CASE i.op = "do" -> Fresh([m EXCEPT !.events = Append(@, <<i.id, 0, TRUE>>)])
      [] i.op = "argument" -> Fresh(m)
      [] i.op = "load" -> [m EXCEPT !.value = (IF i.joins THEN @ ELSE {}) \cup m.slots[i.slot]]
      [] i.op = "store" -> LET v == IF i.held THEN m.value ELSE {}
                           IN  [m EXCEPT !.slots[i.slot] = v, !.kept = IF i.typed THEN @ \cup v ELSE @]
      [] i.op = "drop" -> [m EXCEPT !.dropped = @ \o SetToSeq(m.slots[i.slot])]

\* The current block up to its terminator.
Straight == FoldLeft(Exec, run, Front(code.blocks[run.at]))
Terminator == Last(code.blocks[run.at])

Compile ==
    /\ run.state = "generate"
    /\ \E r \in {GenFunction(fn)} :
           /\ code' = r.g
           /\ run' = [run EXCEPT !.state = IF ~r.ok THEN "failed" ELSE IF Verifies(r.g) THEN "run" ELSE "refused",
                                 !.slots = [i \in 1..r.g.slots |-> {Junk}]]
    /\ UNCHANGED fn

Follow(to) == run' = [Straight EXCEPT !.at = to] /\ UNCHANGED <<fn, code>>

JumpStep == run.state = "run" /\ Terminator.op = "jump" /\ Follow(Terminator.to)

ForkStep == run.state = "run" /\ Terminator.op = "fork" /\ \E to \in {Terminator.yes, Terminator.no} : Follow(to)

Rounds(m, id) == Quantify(DOMAIN m.events, LAMBDA i : m.events[i] = <<id, 0, TRUE>>)

\* Every way a condition may go, a bounded number of times each in one run.
BranchStep ==
    /\ run.state = "run"
    /\ Terminator.op = "branch"
    /\ \E outcome \in BOOLEAN :
           /\ outcome => Rounds(run, Terminator.id) < MaxRounds
           /\ run' = [Straight EXCEPT !.at = IF outcome THEN Terminator.yes ELSE Terminator.no,
                                      !.events = Append(@, <<Terminator.id, Terminator.arm, outcome>>)]
    /\ UNCHANGED <<fn, code>>

ReturnStep ==
    /\ run.state = "run"
    /\ Terminator.op = "return"
    /\ run' = [Straight EXCEPT !.state = "returned", !.given = IF Terminator.held THEN Straight.value ELSE {}]
    /\ UNCHANGED <<fn, code>>

CodeInit == fn \in Functions /\ code = NewGenerator(FALSE, FALSE, {}) /\ run = Idle
CodeNext == Compile \/ JumpStep \/ ForkStep \/ BranchStep \/ ReturnStep

----------------------------------------------------------------------------
(* What a body means *)

\* A path: its events and how it ends: "on", "break", "continue" or "return".
Path(events, exit) == [events |-> events, exit |-> exit]
Nothing == {Path(<<>>, "on")}
Event(id, arm, outcome) == Path(<<<<id, arm, outcome>>>>, "on")
Seqs(A, B) == {IF a.exit = "on" THEN Path(a.events \o b.events, b.exit) ELSE a : a \in A, b \in B}

\* skipped: what was not generated does not happen.
RECURSIVE Paths(_, _)
PathsAll(ss, skipped) == FoldLeft(LAMBDA A, s : Seqs(A, Paths(s, skipped)), Nothing, ss)

PathsMatch(e, skipped) ==
    LET from[i \in 1..(Len(e.arms) + 1)] ==
            IF i > Len(e.arms) THEN Nothing
            ELSE LET body == Paths(e.arms[i].body, skipped)
                 IN  IF e.arms[i].pattern = "wild" THEN body
                     ELSE Seqs({Event(e.id, i, TRUE)}, body) \cup Seqs({Event(e.id, i, FALSE)}, from[i + 1])
    IN  Seqs(Paths(e.value, skipped), from[1])

\* How a round of a loop leaves it, and how the next one is begun.
Leaving(body) ==
    {IF p.exit = "break" THEN Path(p.events, "on") ELSE p : p \in {p \in body : p.exit \in {"break", "return"}}}
Again(body) == {Path(p.events, "on") : p \in {p \in body : p.exit \in {"on", "continue"}}}

PathsLoop(e, skipped) ==
    LET body == PathsAll(e.body, skipped)
        rounds[n \in 1..MaxRounds] ==
            Leaving(body) \cup IF n = 1 THEN {} ELSE Seqs(Again(body), rounds[n - 1])
    IN  rounds[MaxRounds]

PathsFor(s, skipped) ==
    LET body == PathsAll(s.body, skipped)
        rounds[n \in 0..MaxRounds] ==
            {Event(s.id, 0, FALSE)}
            \cup IF n = 0 THEN {}
                 ELSE Seqs({Event(s.id, 0, TRUE)}, Leaving(body) \cup Seqs(Again(body), rounds[n - 1]))
    IN  Seqs(FoldLeft(LAMBDA A, e : Seqs(A, Paths(e, skipped)), Nothing, s.range), rounds[MaxRounds])

Paths(e, skipped) ==
    LET If(A, B) == Seqs({Event(e.id, 0, TRUE)}, A) \cup Seqs({Event(e.id, 0, FALSE)}, B)
        Leave == {Path(<<>>, "return")}
    IN  CASE e.k \in {"literal", "name", "tuple", "drop"} -> Nothing
          [] e.k = "loop" -> PathsLoop(e, skipped)
          [] e.k \in {"var", "const", "assign", "expr"} -> Paths(e.value, skipped)
          [] e.k \in {"break", "continue"} -> {Path(<<>>, e.k)}
          [] e.k = "block" -> PathsAll(e.body, skipped)
          [] "id" \in DOMAIN e /\ e.id \in skipped -> Nothing
          [] OTHER ->
             CASE e.k = "do" -> {Event(e.id, 0, TRUE)}
               [] e.k = "if" -> Seqs(Paths(e.cond, skipped), If(PathsAll(e.then, skipped), PathsAll(e.else, skipped)))
               [] e.k = "match" -> PathsMatch(e, skipped)
               [] e.k = "orelse" -> Seqs(Paths(e.value, skipped), If(Paths(e.other, skipped), Nothing))
               [] e.k = "logic" -> Seqs(Paths(e.left, skipped), IF e.and THEN If(Paths(e.right, skipped), Nothing)
                                                               ELSE If(Nothing, Paths(e.right, skipped)))
               [] e.k = "question" -> Seqs(Paths(e.value, skipped), If(Nothing, Leave))
               [] e.k = "for" -> PathsFor(e, skipped)
               [] e.k = "ret" -> IF e.result = <<>> THEN Leave ELSE Seqs(Paths(e.result[1], skipped), Leave)

----------------------------------------------------------------------------
(* Bodies by their shape *)

\* The expressions and statements a body is made of, at any depth.
RECURSIVE Parts(_)
Parts(n) ==
    LET All(ss) == UNION {Parts(ss[i]) : i \in DOMAIN ss}
    IN  {n} \cup
        CASE n.k \in {"block", "loop"} -> All(n.body)
          [] n.k = "for" -> All(n.range \o n.body)
          [] n.k = "if" -> Parts(n.cond) \cup All(n.then \o n.else)
          [] n.k = "match" -> Parts(n.value) \cup All([i \in DOMAIN n.arms |-> n.arms[i].body])
          [] n.k = "orelse" -> Parts(n.value) \cup Parts(n.other)
          [] n.k = "logic" -> Parts(n.left) \cup Parts(n.right)
          [] n.k = "ret" -> All(n.result)
          [] n.k \in {"var", "const", "assign", "expr", "question"} -> Parts(n.value)
          [] OTHER -> {}
Within(s) == {n \in Parts(s) : n.k \notin ExpressionKinds}
WithinAll(ss) == UNION {Within(ss[i]) : i \in DOMAIN ss}

Body(f) == IF f.body.k = "block" THEN f.body.body ELSE <<[k |-> "expr", value |-> f.body]>>
AllParts(f) == UNION {Parts(s) : s \in ToSet(Body(f))}
Nested(f) == UNION {Within(s) \ {s} : s \in ToSet(Body(f))}

\* The prefix of a struct function's body is there twice, unless a struct literal ends it.
Doubled(f) ==
    f.kind = "struct" /\ Len(Body(f)) > 1 /\ ~(Last(Body(f)).k = "expr" /\ Last(Body(f)).value.k = "literal")

\* Loops that the generator passes over without an error: `loop`, and for over what is neither a
\* vector nor a range nor a slice.
PassedOver(f) == \E n \in AllParts(f) : n.k = "loop" \/ (n.k = "for" /\ n.over = "other")

\* Every name is declared and nothing but the end of the body makes the generator forget one; ?
\* stands in functions that return an optional.  (A name is declared before it is used.)
NamesIn(n) ==
    CASE n.k \in {"name", "drop", "assign"} -> {n.name}
      [] n.k = "tuple" -> ToSet(n.names)
      [] n.k = "do" -> ToSet(n.args)
      [] OTHER -> {}
Declares(n) ==
    CASE n.k = "var" -> ToSet(n.names)
      [] n.k \in {"const", "for", "orelse"} -> {n.name}
      [] n.k = "match" -> {a.name : a \in ToSet(n.arms)}
      [] OTHER -> {}
Settled(f) ==
    /\ \A n \in AllParts(f) :
           /\ NamesIn(n) \subseteq {p.name : p \in ToSet(f.params)} \cup UNION {Declares(m) : m \in AllParts(f)}
           /\ n.k \notin {"drop"} \cup (IF f.optional THEN {} ELSE {"question"})
    /\ \A n \in AllParts(f) \ {Last(Body(f))} : n.k # "ret"

\* Nothing stands behind what always leaves; a return stands in no operand and in no arm, and at
\* the end of a body only where the return is not built again.
NoDeadCode(ss) == \A i \in 1..(Len(ss) - 1) : \E p \in Paths(ss[i], {}) : p.exit = "on"
Regular(f) ==
    /\ NoDeadCode(Body(f))
    /\ \A s \in WithinAll(Body(f)) :
           /\ s.k = "for" => NoDeadCode(s.body)
           /\ s.k = "expr" =>
                  /\ s.value.k = "if" => NoDeadCode(s.value.then) /\ NoDeadCode(s.value.else)
                  /\ s.value.k \in {"match", "logic"} =>
                         \A t \in Within(s) : t.k \notin {"ret", "break", "continue"}
                  /\ s.value.k \in {"block", "orelse"} => FALSE
    /\ f.kind \in {"scalar", "system", "method", "top"}
    /\ f.kind \in {"method", "top"} => \A p \in PathsAll(Body(f), {}) : p.exit = "on"

\* A function without dead code and without errors is compiled.
RegularCompiles == run.state = "refused" => ~Regular(fn) \/ code.erred

\* Errors inside bodies are dropped, with the part they stand in, but only where a name is missing.
SettledIsWhole == Body(fn) # <<>> /\ code.erred => ~Settled(fn)

\* A run of a function that is generated once and passes no loop over goes through the calls and
\* decisions of a path of the body, less the parts that were given up with an error, and the end
\* of the run is the end of the path (generate_statement, generate_expression, LoopScope,
\* branch_to, try_build_return).  The body of `loop` and of a for over anything else is lost
\* without an error, and the body of a struct function is generated twice.
CodeFollowsBody ==
    /\ RegularCompiles /\ SettledIsWhole
    /\ run.state = "returned" /\ ~Doubled(fn) /\ ~PassedOver(fn) =>
           \E p \in PathsAll(Body(fn), code.skipped) : p.events = run.events

\* Typed variables are declared once, on the top level of the body, with a fresh value, assigned
\* fresh values, and dropped or returned by name there; no variable is the value of the body itself.
Tame(f) ==
    LET all == WithinAll(Body(f))
        typed == {s \in all : s.k = "var" /\ s.typed}
        names == {p.name : p \in {p \in ToSet(f.params) : p.typed}} \cup UNION {ToSet(s.names) : s \in typed}
        Drops(s) == s.k = "expr" /\ s.value.k = "drop"
    IN  /\ Body(f) # <<>> /\ ~Doubled(f)
        /\ typed \cap Nested(f) = {}
        /\ \A s \in typed : s.value.k = "do"
        /\ \A s \in all : s.k \in {"var", "assign"} => s.value.k \in {"do", "literal"}
        /\ Cardinality(names) = Cardinality(typed) + Cardinality({p \in ToSet(f.params) : p.typed})
        /\ \A s \in all : s.k = "for" => \A t \in Within(s) : ~Drops(t)
        /\ \A s \in Nested(f) : s.k = "assign" => s.name \notin f.globals
        /\ Last(Body(f)).k = "expr" => Last(Body(f)).value.k \notin {"name", "tuple"}

\* No path ends or drops a variable early.
Straightforward(f) ==
    /\ f.kind \notin {"system", "systemOfNone"} \/ Last(Body(f)).k = "ret"
    /\ ~f.destructor
    /\ \A s \in Nested(f) : s.k # "ret" /\ (s.k = "expr" => s.value.k \notin {"drop", "question"})
    /\ \A s \in ToSet(Body(f)) : s.k \in {"var", "expr"} => s.value.k # "question"

\* A value is dropped at most once, not after it is returned, and only after it is stored; and where
\* no path ends early, every value a typed variable held has been dropped or returned at the end
\* (track_owned_binding, drop_all_owned_locals, drop_current_value, mark_expr_moved).
DropsOnce ==
    Tame(fn) =>
        /\ Junk \notin ToSet(run.dropped)
        /\ Cardinality(ToSet(run.dropped)) = Len(run.dropped)
        /\ run.given \cap ToSet(run.dropped) = {}
        /\ run.state = "returned" /\ Straightforward(fn) => run.kept \subseteq ToSet(run.dropped) \cup run.given
=============================================================================
