---------------------------- MODULE MCCodeMachine ----------------------------
(***************************************************************************)
(* Functions for CodeMachine: bodies of a declaration and up to two more   *)
(* statements, one of them with bodies inside, of every kind of function.  *)
(***************************************************************************)
EXTENDS CodeMachine

Literal1 == [k |-> "literal"]
NameOf(n) == [k |-> "name", name |-> n]
DoIt(id, args) == [k |-> "do", id |-> id, args |-> args]
AsStatement(e) == [k |-> "expr", value |-> e]
BlockOf(ss) == [k |-> "block", body |-> ss]
Var(n, typed, e) == [k |-> "var", pattern |-> "name", names |-> <<n>>, typed |-> typed, value |-> e]
Ret(id, e) == [k |-> "ret", id |-> id, result |-> e]
IfThen(id, t, f) == [k |-> "if", id |-> id, cond |-> Literal1, then |-> t, else |-> f]
ForOver(id, over, b) == [k |-> "for", id |-> id, over |-> over, name |-> "i", range |-> <<Literal1>>, body |-> b]
Arms(id, tuple, arms) == [k |-> "match", id |-> id, tuple |-> tuple, value |-> Literal1, arms |-> arms]
ArmOf(p, e) == [pattern |-> p, name |-> "v", body |-> e]

\* Statements without a body; x is the typed variable.  Identities: i, or i and a digit.
Simple(i) ==
    {AsStatement(DoIt(i, <<"x">>)), AsStatement([k |-> "drop", name |-> "x"]),
     [k |-> "assign", name |-> "x", value |-> DoIt(i, <<>>)],
     Ret(i, <<>>), Ret(i, <<NameOf("x")>>)}
LoopSimple(i) == Simple(i) \cup {[k |-> "break"], [k |-> "continue"]}

Branches(i, S(_)) == {<<s>> : s \in S(10 * i + 1)} \cup {<<AsStatement(DoIt(10 * i + 1, <<>>)), s>> : s \in S(10 * i + 2)}

Few(i) == {<<>>, <<AsStatement(DoIt(10 * i + 5, <<>>))>>, <<Ret(10 * i + 5, <<>>)>>}

Ifs(i) == {AsStatement(IfThen(i, t, f)) : t \in Branches(i, Simple), f \in Few(i)}

Loops(i) ==
    {ForOver(i, over, b) : over \in {"vector", "slice"}, b \in Branches(i, LoopSimple)}
    \cup {ForOver(i, over, <<AsStatement(DoIt(10 * i + 1, <<>>))>>) : over \in {"steps", "other"}}
    \cup {ForOver(i, "range", <<AsStatement(IfThen(10 * i + 1, <<s>>, <<>>)), AsStatement(DoIt(10 * i + 3, <<"i">>))>>) :
             s \in LoopSimple(10 * i + 2)}
    \cup {ForOver(i, "range", <<ForOver(10 * i + 1, "range", <<s>>), t>>) :
             s \in LoopSimple(10 * i + 2), t \in {[k |-> "break"], [k |-> "continue"], AsStatement(DoIt(10 * i + 4, <<>>))}}

MatchExprs(i) ==
    {AsStatement(Arms(i, tuple, <<ArmOf(p, DoIt(10 * i + 1, <<>>)), ArmOf(q, b)>>)) :
        tuple \in BOOLEAN, p \in {"tag", "wild"}, q \in {"binds", "wild"},
        b \in {BlockOf(<<s>>) : s \in Simple(10 * i + 2)} \cup {DoIt(10 * i + 2, <<"x">>)}}

Others(i) ==
    {AsStatement([k |-> "logic", id |-> i, and |-> and, left |-> DoIt(10 * i + 1, <<>>), right |-> r]) :
        and \in BOOLEAN, r \in {DoIt(10 * i + 2, <<"x">>), BlockOf(<<Ret(10 * i + 2, <<>>)>>)}}
    \cup {AsStatement([k |-> "orelse", id |-> i, name |-> "v", value |-> DoIt(10 * i + 1, <<>>), other |-> o]) :
             o \in {BlockOf(<<s>>) : s \in Simple(10 * i + 2)} \cup {DoIt(10 * i + 2, <<"y">>)}}
    \cup {[k |-> "var", pattern |-> p, names |-> <<"y">>, typed |-> FALSE, value |-> v] : p \in {"name", "discard", "tuple"},
             v \in {DoIt(i, <<>>), NameOf("x"), [k |-> "loop", body |-> <<AsStatement(DoIt(10 * i + 1, <<>>))>>]}}
    \cup {[k |-> "const", name |-> "y", value |-> DoIt(i, <<>>)]}
    \cup {Ret(i, <<[k |-> "tuple", names |-> <<"x", "x">>]>>), AsStatement(NameOf("x")), AsStatement(Literal1)}

AsksFor(i) == AsStatement([k |-> "question", id |-> i, value |-> DoIt(10 * i + 1, <<>>)])

Compound(i) == Ifs(i) \cup Loops(i) \cup MatchExprs(i) \cup Others(i)

Start == Var("x", TRUE, DoIt(1, <<>>))
TwoAfter == {<<Start, s>> : s \in Compound(2) \cup Simple(2)}
            \cup {<<Start, s, t>> : s \in Compound(2), t \in Simple(3)}
            \cup {<<Start, s, t>> : s \in Simple(2), t \in Compound(3) \cup Simple(3)}

Function(kind, ps, b) ==
    [kind |-> kind, destructor |-> FALSE, optional |-> kind \in {"struct", "method"}, globals |-> {}, params |-> ps, body |-> BlockOf(b)]
TypedParameter == [name |-> "p", typed |-> TRUE]

MCFunctions ==
    {Function("scalar", <<>>, b) : b \in TwoAfter}
    \cup {Function(k, <<>>, <<Start, s>>) : k \in {"struct", "method", "system", "top"},
             s \in Compound(2) \cup Simple(2)}
    \cup {Function(k, <<>>, b) : k \in {"struct", "method"}, b \in {<<AsksFor(2)>>, <<Start, AsksFor(2), AsStatement(Literal1)>>}}
    \cup {[Function("struct", <<TypedParameter>>, <<>>) EXCEPT !.body = e] :
             e \in {Literal1, NameOf("p"), DoIt(1, <<"p">>), BlockOf(<<>>)}}
    \cup {[Function("method", <<TypedParameter>>, <<Start, s>>) EXCEPT !.destructor = TRUE] : s \in Simple(2)}
    \cup {[Function("scalar", <<>>, <<Start, s, [k |-> "assign", name |-> "y", value |-> DoIt(3, <<>>)]>>) EXCEPT !.globals = {"y"}] :
             s \in {Var("y", FALSE, DoIt(2, <<>>)), [k |-> "const", name |-> "y", value |-> DoIt(2, <<>>)]}}
    \cup {Function("systemOfNone", <<TypedParameter>>, <<s>>) : s \in Simple(2)}
=============================================================================
