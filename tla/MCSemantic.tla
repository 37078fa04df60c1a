----------------------------- MODULE MCSemantic -----------------------------
(***************************************************************************)
(* Programs for SemanticProgram: function bodies enumerated over a few     *)
(* forms, tables enumerated over expressions, and one program for each of  *)
(* the other forms.                                                        *)
(***************************************************************************)
EXTENDS SemanticProgram

Lit(t) == [k |-> "lit", type |-> t]
One1 == Lit(I64)
Name(n) == [k |-> "name", name |-> <<n>>]
Expr(e) == [k |-> "expr", value |-> e]
Let(n, e) == [k |-> "var", pattern |-> [k |-> "name", name |-> n], type |-> <<>>, value |-> e]
Arm(p, b) == [pattern |-> p, body |-> b]
MatchOn(e, arms) == [k |-> "match", value |-> e, arms |-> arms]
Bin(op, l, r) == [k |-> "bin", op |-> op, left |-> l, right |-> r]
CallOf(n, args) == [k |-> "call", name |-> n, args |-> args]
Param(n, t) == [name |-> n, type |-> t]
Func(n, ps, ret, body) == [k |-> "fn", name |-> n, params |-> ps, ret |-> ret, body |-> body]

----------------------------------------------------------------------------
(* Scopes: up to two statements, some with a body, then a second function *)

Leaves == {Let("x", One1), Expr(Name("x")), [k |-> "break"], [k |-> "return", result |-> <<Name("x")>>],
           Expr(MatchOn(One1, <<Arm(Name("x"), Name("x"))>>))}
Local(b) == Func("k", <<Param("x", I64)>>, <<I64>>, b)
Inner == {<<>>, <<Let("x", One1), Expr(Name("x"))>>, <<[k |-> "break"], Expr(Name("x"))>>} \cup {<<l>> : l \in Leaves}
         \cup {<<Local(<<[k |-> "break"]>>)>>, <<Local(<<[k |-> "return", result |-> <<Name("x")>>]>>), Expr(Name("x"))>>}
Units == Leaves \cup {Expr([k |-> "loop", body |-> b]) : b \in Inner}
         \cup {[k |-> "for", name |-> "x", type |-> <<>>, over |-> One1, body |-> b] : b \in Inner}
         \cup {Func("g", <<Param("x", I64)>>, <<I64>>, b) : b \in Inner}
Bodies2 == {<<>>} \cup {<<u>> : u \in Units} \cup {<<u, v>> : u, v \in Units}

LexicalPrograms ==
    {<<Func("f", <<>>, <<>>, b), Func("h", <<>>, <<>>, <<l>>)>> :
        b \in Bodies2, l \in {[k |-> "break"], Expr(Name("x")), Expr(Name("f"))}}
    \cup {<<u, v>> : u, v \in Units}

----------------------------------------------------------------------------
(* Tables: a stored column of each kind, three computed columns in a row *)

Column(n, t, computed, e) ==
    [name |-> n, type |-> t, computed |-> computed, expr |-> e, annotations |-> <<>>, default |-> <<>>]
Expressions == {Name("i"), Name("a"), Name("b"), Name("c"), Bin("+", Name("a"), Name("f")), Bin("*", Name("b"), Name("i")),
                Bin("+", Name("c"), Name("b")), [k |-> "cast", value |-> Name("a"), to |-> Id("i32")],
                [k |-> "ifx", condition |-> Name("i"), branches |-> <<Name("b")>>],
                [k |-> "if", condition |-> Name("a"), then |-> <<Expr(Name("c"))>>, else |-> <<>>]}
TablePrograms ==
    {<<[k |-> "table", name |-> "T",
        def |-> <<Column("a", NoneType, TRUE, <<ea>>), Column("b", NoneType, TRUE, <<eb>>),
                  Column("c", tc, TRUE, <<ec>>), Column("i", I64, FALSE, <<>>), Column("f", Id("f64"), FALSE, <<>>)>>]>> :
        ea, eb, ec \in Expressions, tc \in {NoneType, I64}}

----------------------------------------------------------------------------
(* One program for each of the other forms *)

Shape == [k |-> "type", name |-> "Shape",
          type |-> EnumType([a |-> StructType([b |-> I64]), b |-> I64, c |-> Bare])]
Point == [k |-> "type", name |-> "Point", type |-> StructType([a |-> I64, b |-> Id("f64")])]
Show == [k |-> "type", name |-> "Show",
         type |-> TraitType({"Out"}, [a |-> FnType(<<Ptr(FALSE, Id("self"))>>, Id("Out")), b |-> FnType(<<>>, I64)])]
ShowPoint(items) == [k |-> "impl", trait |-> "Show", type |-> "Point", self |-> Id("Point"), items |-> items]
ItemA(ret) == [k |-> "fn", name |-> "a", params |-> <<Param("p", Ptr(FALSE, Id("Point")))>>, ret |-> <<ret>>]
ItemB == [k |-> "fn", name |-> "b", params |-> <<>>, ret |-> <<>>]
Out == [k |-> "type", name |-> "Out", type |-> I64]
Methods1 == [k |-> "impl", trait |-> "", type |-> "Point", self |-> Id("Point"),
             items |-> <<[k |-> "method", name |-> "c", params |-> <<Param("p", Ptr(FALSE, Id("Point"))), Param("n", I64)>>, ret |-> <<>>],
                         ItemB>>]
Main(body) == Func("main", <<Param("p", Id("Point")), Param("s", Id("Shape"))>>, <<Opt(I64)>>, body)
Pat(n, args) == [k |-> "call", name |-> n, args |-> args, path |-> FALSE]

Samples ==
    {<<Shape, Point, Main(<<Expr(e)>>), Func("h", <<>>, <<>>, <<Expr(Name("x"))>>)>> : e \in {
        MatchOn(Name("s"), <<Arm(Pat(<<"Shape", "b">>, <<Name("x")>>), Name("x")), Arm(Name("_"), One1)>>),
        MatchOn(Name("s"), <<Arm([k |-> "struct", type |-> <<"Shape", "a">>, fields |-> [b |-> Name("x")]], Name("x"))>>),
        MatchOn(CallOf(<<"some">>, <<One1>>), <<Arm(Pat(<<"some">>, <<[k |-> "ref", name |-> <<"x">>]>>), Name("x"))>>),
        MatchOn([k |-> "tuple", elems |-> <<One1, Lit(Bool)>>],
                <<Arm([k |-> "tuple", elems |-> <<Name("x"), Name("_")>>], Name("x"))>>),
        [k |-> "field", object |-> Name("p"), field |-> "b"],
        [k |-> "vec", elems |-> <<One1, MatchOn(One1, <<Arm(Name("x"), Name("y"))>>)>>],
        [k |-> "question", operand |-> CallOf(<<"some">>, <<One1>>)],
        [k |-> "range", start |-> One1, end |-> One1, step |-> <<One1>>, zero |-> TRUE],
        CallOf(<<"Shape", "b">>, <<One1>>), CallOf(<<"Shape", "c">>, <<One1>>),
        CallOf(<<"len">>, <<One1>>)}}
    \cup {<<Point, Show, ShowPoint(items), Methods1,
            Main(<<Expr([k |-> "method", object |-> Name("p"), name |-> n, args |-> <<>>])>>)>> :
            items \in {<<Out, ItemA(I64), ItemB>>, <<ItemA(I64), ItemB>>, <<Out, ItemA(Bool)>>, <<Out, ItemA(Bool), ItemB>>},
            n \in {"a", "b", "c"}}
    \cup {<<[k |-> "module", name |-> "m", items |-> <<Func("f", <<>>, <<>>, <<>>), Func("g", <<>>, <<>>, body)>>],
            [k |-> "use", path |-> <<"m", "f">>, alias |-> "q", star |-> FALSE],
            Func("h", <<>>, <<>>, <<Expr(CallOf(<<"q">>, <<>>))>>)>> :
            body \in {<<>>, <<Expr(CallOf(<<"f">>, <<>>))>>, <<Expr([k |-> "vecnew", type |-> I64, dims |-> <<One1>>, fill |-> <<Lit(Bool)>>])>>}}
    \cup {<<[k |-> "table", name |-> "T", def |-> <<Column("a", I64, FALSE, <<>>)>>],
            [k |-> "system", name |-> "sys", params |-> ps, ret |-> <<>>, body |-> <<Expr(Name("r")), Expr([k |-> "query"])>>],
            [k |-> "ifdef", then |-> <<Let("z", One1)>>, else |-> <<[k |-> "other"]>>]>> :
            ps \in {<<[k |-> "query", name |-> "r", table |-> t, joins |-> <<>>]>> : t \in {"T", "U"}}
                   \cup {<<[k |-> "resource", name |-> "r", type |-> I64, access |-> "Mutable"]>>,
                         <<[k |-> "regular", name |-> "r", type |-> I64, default |-> <<One1>>]>>}}

Program(form, order, ss) == [form |-> form, order |-> order, statements |-> ss, checks |-> TRUE]
Orders == {<<"a", "b", "c">>, <<"c", "b", "a">>, <<"b", "c", "a">>}

MCPrograms == {Program("scopes", <<"a", "b", "c">>, p) : p \in LexicalPrograms}
              \cup {Program("columns", o, p) : o \in Orders, p \in TablePrograms}
              \cup {[Program("sample", o, p) EXCEPT !.checks = b] : o \in Orders, p \in Samples, b \in BOOLEAN}
=============================================================================
