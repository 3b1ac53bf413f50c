------------------------------ MODULE Bytecode ------------------------------
(***************************************************************************)
(* Instructions, values and programs (hiko-compile/src/op.rs, chunk.rs and  *)
(* hiko-vm/src/value.rs).  An instruction holds its operands: n and m a     *)
(* slot, count, tag, function or target, x a constant, l captures or        *)
(* handler clauses.  Targets are places in the code, counted from 1; the    *)
(* short forms of one instruction are one here.                             *)
(***************************************************************************)
EXTENDS Integers, Sequences, SequencesExt

\* A number, text, tuple or datatype value (n its tag), closure (n its place
\* in the machine's store) or builtin.
Value(k, n, v, c) == [k |-> k, n |-> n, v |-> v, c |-> c]
UnitV == Value("Unit", 0, "", <<>>)
Bool(b) == Value("Bool", IF b THEN 1 ELSE 0, "", <<>>)
IntV(n) == Value("Int", n, "", <<>>)
WordV(n) == Value("Word", n, "", <<>>)
StrV(v) == Value("String", 0, v, <<>>)
TupleV(c) == Value("Tuple", 0, "", c)
DataV(tag, c) == Value("Data", tag, "", c)
CloV(n) == Value("Closure", n, "", <<>>)
BuiltinV(v) == Value("Builtin", 0, v, <<>>)

Ins(op, n, m, x, l) == [op |-> op, n |-> n, m |-> m, x |-> x, l |-> l]
Op(op) == Ins(op, 0, 0, UnitV, <<>>)
OpN(op, n) == Ins(op, n, 0, UnitV, <<>>)
OpNM(op, n, m) == Ins(op, n, m, UnitV, <<>>)
Const(x) == Ins("Const", 0, 0, x, <<>>)

\* Where a closure's capture comes from: a local or a capture of the creating
\* function, or a member of the group created with it.
Capture(from, i) == [from |-> from, i |-> i]
\* A handler clause: the local slot of its closure, or the place of its code.
Clause(tag, provider, at) == [tag |-> tag, provider |-> provider, at |-> at]

Jumps == {"Jump", "JumpIfFalse", "JumpIfLocalNotTag", "JumpIfNotEq", "JumpIfEq",
          "JumpIfNotLtInt", "JumpIfNotGtInt", "JumpIfNotLeInt", "JumpIfNotGeInt"}
IntOps == {"AddInt", "SubInt", "MulInt", "DivInt", "ModInt"}
WordOps == {"AddWord", "SubWord", "MulWord", "DivWord", "ModWord"}
IntTests == {"LtInt", "GtInt", "LeInt", "GeInt"}
WordTests == {"LtWord", "GtWord", "LeWord", "GeWord"}

\* The builtins that programs here use.
Builtins == {"string_length"}

=============================================================================
