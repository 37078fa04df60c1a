----------------------------- MODULE CodeBuilder -----------------------------
(***************************************************************************)
(* What CodeGenerator (codegen.rs) carries while it emits one function:    *)
(* the blocks with their instructions, the variables, the owned locals and *)
(* the loops around the statement at hand.  An operator takes the state of *)
(* the generator and returns the one it leaves.                            *)
(***************************************************************************)
EXTENDS Integers, Sequences, SequencesExt, TLC

\* Instructions: records with the field op.  Arithmetic and the temporaries of single expressions
\* are left out; what stays is what has an effect, what moves values and what ends a block.
Do(id) == [op |-> "do", id |-> id]                          \* the call of the program's own code id
Argument == [op |-> "argument"]                             \* the value of a parameter
Load(slot, joins) == [op |-> "load", slot |-> slot, joins |-> joins]
Store(slot, held, typed) == [op |-> "store", slot |-> slot, held |-> held, typed |-> typed]
DropSlot(slot) == [op |-> "drop", slot |-> slot]            \* the call of Drop_T_drop
Jump(to) == [op |-> "jump", to |-> to]
Branch(id, arm, yes, no) == [op |-> "branch", id |-> id, arm |-> arm, yes |-> yes, no |-> no]
Fork(yes, no) == [op |-> "fork", yes |-> yes, no |-> no]    \* a branch on what the program does not see
Return(held) == [op |-> "return", held |-> held]

Terminators == {"jump", "branch", "fork", "return"}

NewGenerator(destructor, optional, globals) ==
    [blocks |-> <<<<>>>>, at |-> 1, slots |-> 0,
     vars |-> <<>>,             \* variables: name -> slot
     types |-> <<>>,            \* local_types: name -> whether its type has a destructor
     globals |-> globals,       \* names the analysis gives such a type to, outside functions
     owned |-> <<>>,            \* owned_locals
     loops |-> <<>>,            \* loop_stack
     skipped |-> {},            \* the parts of the program given up because of an error
     erred |-> FALSE,           \* there has been an error
     destructor |-> destructor, \* the function's name contains "_drop"
     optional |-> optional]     \* current_function_return_ast is ?T or !T

----------------------------------------------------------------------------
(* The builder of LLVM *)

Emit(g, i) == [g EXCEPT !.blocks[g.at] = Append(@, i)]
PositionAt(g, b) == [g EXCEPT !.at = b]
\* append_basic_block, n times: the new ones are Len(g.blocks) + 1 and so on.
NewBlocks(g, n) == [g EXCEPT !.blocks = @ \o [i \in 1..n |-> <<>>]]
\* get_terminator: the last instruction, if it is one.
Terminated(g) == LET b == g.blocks[g.at] IN b # <<>> /\ Last(b).op \in Terminators

ReturnAlways(g, held) == Emit(g, Return(held))
ReturnOnce(g, held) == IF Terminated(g) THEN g ELSE ReturnAlways(g, held)
JumpAlways(g, to) == Emit(g, Jump(to))
JumpOnce(g, to) == IF Terminated(g) THEN g ELSE JumpAlways(g, to)

\* The verifier: a block ends in a terminator and has no other.
Verifies(g) ==
    \A b \in ToSet(g.blocks) : b # <<>> /\ \A i \in DOMAIN b : (b[i].op \in Terminators) = (i = Len(b))

----------------------------------------------------------------------------
(* Variables and owned locals *)

Without(vars, n) == [m \in DOMAIN vars \ {n} |-> vars[m]]
Hide(g, n) == [g EXCEPT !.vars = Without(@, n)]

\* The variable n in the slot it had in old, or none if it had none.
Restore(g, n, old) == IF n \in DOMAIN old THEN [g EXCEPT !.vars = n :> old[n] @@ @] ELSE Hide(g, n)

\* owned_type_of: a name without a local type may have one outside functions.
OwnedType(g, n) == IF n \in DOMAIN g.types THEN g.types[n] ELSE n \in g.globals

Track(g, n) ==
    IF g.destructor \/ Contains(g.owned, n) \/ ~OwnedType(g, n) THEN g
    ELSE [g EXCEPT !.owned = Append(@, n)]

\* Mutant of Unregister: a moved local stays owned.
StaysOwned(g, n) == g
Unregister(g, n) == [g EXCEPT !.owned = SelectSeq(@, LAMBDA m : m # n)]

EmitDrop(g, n) == IF OwnedType(g, n) /\ n \in DOMAIN g.vars THEN Emit(g, DropSlot(g.vars[n])) ELSE g

DropCurrent(g, n) == IF Contains(g.owned, n) THEN EmitDrop(g, n) ELSE g

Forget(g, n) == [Hide(g, n) EXCEPT !.types = Without(@, n)]

\* The locals from the last to the first; the names are gone with them.
DropAll(g) == FoldRight(LAMBDA n, h : Forget(EmitDrop(Unregister(h, n), n), n), g.owned, g)

\* A new slot for n, in the entry block.
Allocate(g, n) == [g EXCEPT !.slots = @ + 1, !.vars = n :> (g.slots + 1) @@ @]

\* typed: the generator knows a type with a destructor for it, from the annotation or, without
\* one, from what the analysis says of the name outside functions.
Bind(g, n, typed, held) ==
    LET h == Emit(Allocate(g, n), Store(g.slots + 1, held, typed))
    IN  Track([h EXCEPT !.types = n :> typed @@ @], n)

----------------------------------------------------------------------------
(* Loops *)

PushLoop(g, again, out) == [g EXCEPT !.loops = Append(@, [again |-> again, out |-> out])]
\* Mutant of PopLoop: the loop stays the innermost one.
KeepsLoop(g) == g
PopLoop(g) == [g EXCEPT !.loops = Front(@)]
=============================================================================
