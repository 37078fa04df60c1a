---------------------------- MODULE SemanticTypes ----------------------------
(***************************************************************************)
(* Types of the semantic analysis (semantic.rs, ast.rs) and the relations  *)
(* it asks of them.  A type is a record with the field k:                  *)
(*     id(name)  ptr/ref(mut, inner)  raw/opt/res(inner)  tup(elems)       *)
(*     mat(inner)  fn(params, ret)  struct(fields)  enum(variants)         *)
(*     trait(assoc, methods)  none                                         *)
(* fields, variants and methods are functions from names to types; a       *)
(* variant without payload has Bare.  Type arguments are left out.         *)
(***************************************************************************)
EXTENDS Integers, Sequences, SequencesExt, TLC

NoneType == [k |-> "none"]
Bare == [k |-> "bare"]
Id(name) == [k |-> "id", name |-> name]
Ptr(mut, t) == [k |-> "ptr", mut |-> mut, inner |-> t]
Reference(mut, t) == [k |-> "ref", mut |-> mut, inner |-> t]
Opt(t) == [k |-> "opt", inner |-> t]
Res(t) == [k |-> "res", inner |-> t]
Tup(ts) == [k |-> "tup", elems |-> ts]
Mat(t) == [k |-> "mat", inner |-> t]
FnType(ps, r) == [k |-> "fn", params |-> ps, ret |-> r]
StructType(fields) == [k |-> "struct", fields |-> fields]
EnumType(variants) == [k |-> "enum", variants |-> variants]
TraitType(assoc, methods) == [k |-> "trait", assoc |-> assoc, methods |-> methods]

I64 == Id("i64")
Bool == Id("bool")
String == Id("string")

----------------------------------------------------------------------------
(* Numeric types *)

PromotionOrder == <<"u8", "i8", "u16", "i16", "u32", "i32", "u64", "i64", "f32", "f64">>
NumericNames == ToSet(PromotionOrder)
Floats == {"f32", "f64"}
Signed == {"i8", "i16", "i32", "i64"}
Bits(n) == CASE n \in {"u8", "i8"} -> 8 [] n \in {"u16", "i16"} -> 16
             [] n \in {"u32", "i32", "f32"} -> 32 [] OTHER -> 64

IsId(t, names) == t.k = "id" /\ t.name \in names
IsNumeric(t) == IsId(t, NumericNames)
IsInteger(t) == IsId(t, NumericNames \ Floats)
IsString(t) == IsId(t, {"string", "String"})
IsAddress(t) == t.k \in {"ptr", "raw", "ref"}

\* promote_numeric_types: a float wins, with its own width; a signed and an unsigned give the
\* signed one of the larger width; else the higher in the order.
Promote(l, r) ==
    LET L == l.name
        R == r.name
        Wider == IF Bits(L) >= Bits(R) THEN Bits(L) ELSE Bits(R)
        Rank(n) == CHOOSE i \in DOMAIN PromotionOrder : PromotionOrder[i] = n
    IN  CASE ~IsNumeric(r) -> l
          [] ~IsNumeric(l) -> r
          [] L \in Floats /\ R \in Floats -> IF Wider = 64 THEN Id("f64") ELSE Id("f32")
          [] L \in Floats -> l
          [] R \in Floats -> r
          [] (L \in Signed) # (R \in Signed) -> Id(CHOOSE n \in Signed : Bits(n) = Wider)
          [] OTHER -> IF Rank(L) >= Rank(R) THEN l ELSE r

----------------------------------------------------------------------------
(* Compatibility *)

\* types_compatible: not an equivalence, since an expected pointer takes the value it points to.
RECURSIVE Compatible(_, _)
Compatible(e, f) ==
    \/ e = f
    \/ e.k = "none" \/ f.k = "none"
    \/ {e.k, f.k} = {"id", "enum"} /\ (IsId(e, {"i64"}) \/ IsId(f, {"i64"}))
    \/ e.k = "ptr" /\ f.k = "id" /\ ~IsId(f, {"i64", "u64"}) /\ e.inner = f
    \/ IsAddress(e) /\ IsId(f, {"i64", "u64"})
    \/ IsAddress(f) /\ IsId(e, {"i64", "u64"})
    \/ e.k = f.k /\ e.k \in {"opt", "res"} /\ Compatible(e.inner, f.inner)
    \/ IsNumeric(e) /\ IsNumeric(f)
    \/ IsString(e) /\ IsString(f)
    \/ /\ e.k = "tup" /\ f.k = "tup" /\ Len(e.elems) = Len(f.elems)
       /\ \A i \in DOMAIN e.elems : Compatible(e.elems[i], f.elems[i])

\* An enum is an i64 for an assignment too, whether by its name or by its variants.
Assignable(types, target, value) ==
    \/ target.k = "id" /\ IsId(value, {"i64"}) /\ target.name \in DOMAIN types
       /\ types[target.name].k = "enum"
    \/ Compatible(target, value)

\* peel_to_identifier_name: references are not peeled.
RECURSIVE Peeled(_)
Peeled(t) ==
    CASE t.k \in {"ptr", "raw", "opt", "res"} -> Peeled(t.inner)
      [] t.k = "id" -> t.name
      [] OTHER -> ""

\* types_match_with_assoc_and_self: the types are equal once self and the associated types of the
\* implementation stand for what they are.
RECURSIVE Subst(_, _, _)
Subst(t, assoc, self) ==
    LET S(u) == Subst(u, assoc, self)
        Each(f) == [x \in DOMAIN f |-> IF f[x].k = "bare" THEN Bare ELSE S(f[x])]
    IN  CASE t.k = "id" -> IF t.name = "self" THEN self
                           ELSE IF t.name \in DOMAIN assoc THEN assoc[t.name] ELSE t
          [] t.k \in {"ptr", "ref", "raw", "opt", "res"} -> [t EXCEPT !.inner = S(t.inner)]
          [] t.k = "tup" -> Tup(Each(t.elems))
          [] t.k = "fn" -> FnType(Each(t.params), S(t.ret))
          [] t.k = "struct" -> StructType(Each(t.fields))
          [] t.k = "enum" -> EnumType(Each(t.variants))
          [] t.k = "trait" -> TraitType(t.assoc, Each(t.methods))
          [] OTHER -> t

Matches(e, f, assoc, self) == Subst(e, assoc, self) = Subst(f, assoc, self)

\* resolve_concrete_type: names of types are followed until one is not known or names itself.
RECURSIVE Concrete(_, _)
Concrete(types, t) ==
    IF t.k = "id" /\ t.name \in DOMAIN types /\ types[t.name] # t THEN Concrete(types, types[t.name]) ELSE t

\* validate_type
Builtin == {"i8", "i16", "i32", "i64", "u8", "u16", "u32", "u64", "f32", "f64", "bool", "String", "char"}
RECURSIVE Known(_, _)
Known(types, t) ==
    LET All(f) == \A x \in DOMAIN f : f[x].k = "bare" \/ Known(types, f[x])
    IN  CASE t.k = "id" -> t.name \in Builtin \cup DOMAIN types
          [] t.k \in {"ptr", "ref", "raw", "opt", "res", "mat"} -> Known(types, t.inner)
          [] t.k = "tup" -> All(t.elems)
          [] t.k = "fn" -> All(t.params) /\ Known(types, t.ret)
          [] t.k = "struct" -> All(t.fields)
          [] t.k = "enum" -> All(t.variants)
          [] t.k = "trait" -> All(t.methods)
          [] OTHER -> TRUE

----------------------------------------------------------------------------
(* Operators; the result is a set, empty when the operation is invalid *)

Arithmetic(l, r, strings, ok) ==
    CASE strings -> {String}
      [] l.k = "none" -> {r}
      [] r.k = "none" -> {l}
      [] Compatible(l, r) /\ ok -> {Promote(l, r)}
      [] OTHER -> {}

BinaryType(op, l, r) ==
    CASE op = "+" -> Arithmetic(l, r, IsString(l) /\ IsString(r), IsNumeric(l) \/ IsNumeric(r))
      [] op \in {"-", "*", "/"} -> Arithmetic(l, r, FALSE, IsNumeric(l) \/ IsNumeric(r))
      [] op = "%" -> Arithmetic(l, r, FALSE, IsInteger(l) /\ IsInteger(r))
      [] op \in {"==", "<"} -> IF Compatible(l, r) THEN {Bool} ELSE {}
      [] op \in {"and", "or", "xor"} -> IF Compatible(l, Bool) /\ Compatible(r, Bool) THEN {Bool} ELSE {}
      [] OTHER -> {l}

UnaryType(op, t) ==
    CASE op = "-" -> IF IsNumeric(t) THEN {t} ELSE {}
      [] op = "not" -> IF Compatible(t, Bool) THEN {Bool} ELSE {}
      [] op = "&" -> {Ptr(FALSE, t)}
      [] op = "&mut" -> {Ptr(TRUE, t)}
      [] op = "deref" -> IF t.k \in {"ptr", "raw"} THEN {t.inner} ELSE {}
      [] OTHER -> {t}

\* merge_match_branch_type
Merge(old, new) ==
    CASE Compatible(old, new) -> {IF old.k = "none" THEN new ELSE old}
      [] Compatible(new, old) -> {new}
      [] OTHER -> {}
=============================================================================
