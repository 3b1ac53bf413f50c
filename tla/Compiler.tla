------------------------------ MODULE Compiler ------------------------------
(***************************************************************************)
(* Code generation (hiko-compile/src/compiler.rs).  An operator maps the    *)
(* compiler's state to the state after it; stack holds the functions being  *)
(* compiled, the innermost last, and err is set by the first error.  Places *)
(* of functions count from 1, slots from 0.  Limits of operand width are    *)
(* left out.                                                                *)
(***************************************************************************)
EXTENDS Syntax, Bytecode, TLC

\* FuncCtx: cont is the slot of a provider clause's continuation or -1,
\* reserved the function's place or 0.
FuncCtx(name, arity, reserved, self) ==
  [name |-> name, arity |-> arity, code |-> <<>>, locals |-> <<>>, max |-> 0, depth |-> 0,
   upvalues |-> <<>>, cont |-> -1, reserved |-> reserved, self |-> self]

None == [x \in {} |-> 0]
New(types) ==
  [functions |-> <<>>, stack |-> <<FuncCtx("", 0, 0, FALSE)>>, tags |-> None, effects |-> None,
   nextEffect |-> 0, protos |-> None, flats |-> None, bindings |-> None, versions |-> None, pinned |-> {},
   slots |-> None, names |-> <<>>, reserved |-> 0, self |-> FALSE, types |-> types, err |-> FALSE]

CompileError(c) == [c EXCEPT !.err = TRUE]
Ctx(c) == c.stack[Len(c.stack)]
SetCtx(c, x) == [c EXCEPT !.stack[Len(c.stack)] = x]
At(c) == Len(Ctx(c).code)
Emit(c, ins) == IF c.err THEN c ELSE SetCtx(c, [Ctx(c) EXCEPT !.code = Append(@, ins)])
EmitAll(c, is) == IF c.err THEN c ELSE SetCtx(c, [Ctx(c) EXCEPT !.code = @ \o is])
Times(n, ins) == [i \in 1..n |-> ins]
\* patch_jump of the jumps at the given places: they land after the code so far.
Patch(c, ats) ==
  SetCtx(c, [Ctx(c) EXCEPT !.code = [i \in DOMAIN @ |-> IF i \in ats
                                                        THEN [@[i] EXCEPT !.m = Len(Ctx(c).code) + 1]
                                                        ELSE @[i]]])

-----------------------------------------------------------------------------
(* Locals and scopes                                                        *)

Larger(a, b) == IF a > b THEN a ELSE b
NLocals(c) == Len(Ctx(c).locals)
AddLocal(c, name) ==
  SetCtx(c, [Ctx(c) EXCEPT !.locals = Append(@, [name |-> name, depth |-> Ctx(c).depth,
                                                 cont |-> FALSE]),
                           !.max = Larger(@, NLocals(c) + 1)])
\* The slot add_local returns, asked before it is called.
NextSlot(c) == NLocals(c)
AddContinuation(c, name) ==
  SetCtx(AddLocal(c, name),
         [Ctx(AddLocal(c, name)) EXCEPT !.locals[NLocals(c) + 1].cont = TRUE])
Truncated(c, n) == SetCtx(c, [Ctx(c) EXCEPT !.locals = SubSeq(@, 1, n)])
Deeper(c, by) == SetCtx(c, [Ctx(c) EXCEPT !.depth = @ + by])
BeginScope(c) == Deeper(c, 1)
AtTop(c) == Ctx(c).depth = 0

\* How many locals remain below the trailing ones of the given depth.
Below(c, depth) ==
  LET others == {i \in DOMAIN Ctx(c).locals : Ctx(c).locals[i].depth # depth}
  IN IF others = {} THEN 0 ELSE MaxOf(others)

\* end_scope_keep_result
EndScope(c) ==
  LET base == Below(c, Ctx(c).depth)
      n == NLocals(c) - base
      out == Deeper(Truncated(c, base), -1)
  IN IF c.err THEN c ELSE IF n = 0 THEN out ELSE EmitAll(out, <<OpN("SetLocal", base)>> \o Times(n - 1, Op("Pop")))

-----------------------------------------------------------------------------
(* Names                                                                    *)

\* The slot of a name in one function, or -1.
LocalIn(x, name) ==
  LET at == {i \in DOMAIN x.locals : x.locals[i].name = name}
  IN IF at = {} THEN -1 ELSE MaxOf(at) - 1
ResolveLocal(c, name) == LocalIn(Ctx(c), name)
\* resolve_local or resolve_upvalue would find it.
IsLocal(c, name) == \E f \in DOMAIN c.stack : LocalIn(c.stack[f], name) >= 0

IsContinuation(c, name) ==
  LET holding == {f \in DOMAIN c.stack : LocalIn(c.stack[f], name) >= 0}
      x == c.stack[MaxOf(holding)]
  IN holding # {} /\ x.locals[LocalIn(x, name) + 1].cont

AddUpvalue(c, f, up) ==
  LET held == {i \in DOMAIN c.stack[f].upvalues : c.stack[f].upvalues[i] = up}
  IN IF held # {} THEN [c |-> c, i |-> MaxOf(held) - 1]
     ELSE [c |-> [c EXCEPT !.stack[f].upvalues = Append(@, up)], i |-> Len(c.stack[f].upvalues)]

\* resolve_upvalue_at, for a name some enclosing function has.
RECURSIVE ResolveUpvalue(_, _, _)
ResolveUpvalue(c, name, f) ==
  LET slot == LocalIn(c.stack[f - 1], name)
      outer == ResolveUpvalue(c, name, f - 1)
  IN IF slot >= 0 THEN AddUpvalue(c, f, Capture("local", slot))
     ELSE AddUpvalue(outer.c, f, Capture("upvalue", outer.i))

GlobalName(c, name) == IF name \in DOMAIN c.bindings THEN c.bindings[name] ELSE name
\* global_slot: the state, in which the name has a slot.
WithSlot(c, name) ==
  LET global == GlobalName(c, name)
  IN IF global \in DOMAIN c.slots THEN c
     ELSE [c EXCEPT !.slots = (global :> Len(c.names)) @@ @, !.names = Append(@, global)]
SlotOf(c, name) == c.slots[GlobalName(c, name)]

\* Faulty: functions do not keep the bindings they read.
GetVarUnpinned(c, name) ==
  LET up == ResolveUpvalue(c, name, Len(c.stack))
      g == WithSlot(c, name)
  IN CASE ResolveLocal(c, name) >= 0 -> Emit(c, OpN("GetLocal", ResolveLocal(c, name)))
       [] ResolveLocal(c, name) < 0 /\ IsLocal(c, name) -> Emit(up.c, OpN("GetUpvalue", up.i))
       [] OTHER -> Emit(g, OpN("GetGlobal", SlotOf(g, name)))

GetVar(c, name) ==
  LET up == ResolveUpvalue(c, name, Len(c.stack))
      g == WithSlot(c, name)
      pinned == IF Len(c.stack) > 1 THEN {SlotOf(g, name)} ELSE {}
  IN CASE ResolveLocal(c, name) >= 0 -> Emit(c, OpN("GetLocal", ResolveLocal(c, name)))
       [] ResolveLocal(c, name) < 0 /\ IsLocal(c, name) -> Emit(up.c, OpN("GetUpvalue", up.i))
       [] OTHER -> Emit([g EXCEPT !.pinned = @ \cup pinned], OpN("GetGlobal", SlotOf(g, name)))

Without(f, x) == [y \in DOMAIN f \ {x} |-> f[y]]

\* A new binding of a global takes the slot of the one it shadows unless code
\* that can still run reads that.
DeclareGlobal(c, name) ==
  LET version == IF name \in DOMAIN c.versions THEN c.versions[name]
                 ELSE IF name \in Builtins THEN 1 ELSE 0
      global == IF version = 0 THEN name ELSE name \o "$" \o ToString(version)
      old == c.bindings[name]
      slot == c.slots[old]
      d == [c EXCEPT !.versions = (name :> version + 1) @@ @, !.bindings = (name :> global) @@ @]
  IN IF /\ name \in DOMAIN c.bindings
        /\ old \in DOMAIN c.slots
        /\ slot \notin c.pinned
     THEN [d EXCEPT !.slots = (global :> slot) @@ Without(@, old), !.names[slot + 1] = global]
     ELSE d

SetDeclared(c, name) ==
  LET g == WithSlot([c EXCEPT !.protos = Without(@, name)], name)
  IN Emit(g, OpN("SetGlobal", SlotOf(g, name)))
SetGlobal(c, name) == SetDeclared(DeclareGlobal(c, name), name)
BindName(c, name) == IF AtTop(c) THEN SetGlobal(c, name) ELSE AddLocal(c, name)
KnowProto(c, name, proto) == [c EXCEPT !.protos = (name :> proto) @@ @]

\* direct_call_proto and direct_flat_proto: the function's place, or 0.
DirectProto(c, name) == IF ~IsLocal(c, name) /\ name \in DOMAIN c.protos THEN c.protos[name] ELSE 0
FlatProto(c, name, width) ==
  IF name \in DOMAIN c.flats /\ c.flats[name].width = width
       /\ DirectProto(c, name) = c.flats[name].wrapper
  THEN c.flats[name].flat ELSE 0

-----------------------------------------------------------------------------
(* Functions                                                                *)

ReserveProto(c) == [c EXCEPT !.functions = Append(@, [arity |-> 0, captures |-> 0, locals |-> 0,
                                                      code |-> <<>>])]
PushFunction(c, name) ==
  [c EXCEPT !.stack = Append(@, FuncCtx(name, 1, c.reserved, c.self)),
            !.reserved = 0, !.self = FALSE]

\* finish_function_proto: the state and the closure that is still to be made.
FinishFunction(c) ==
  LET x == Ctx(c)
      proto == [arity |-> x.arity, captures |-> Len(x.upvalues), locals |-> x.max, code |-> x.code]
      out == [c EXCEPT !.stack = Front(@),
                       !.functions = IF x.reserved = 0 THEN Append(@, proto)
                                     ELSE [@ EXCEPT ![x.reserved] = proto]]
  IN [c |-> out, cl |-> [proto |-> IF x.reserved = 0 THEN Len(out.functions) ELSE x.reserved,
                         upvalues |-> x.upvalues]]
MakeClosure(c, cl) == Emit(c, Ins("MakeClosure", cl.proto, 0, UnitV, cl.upvalues))
Closing(r) == MakeClosure(r.c, r.cl)
Returning(c) ==
  IF c.err THEN [c |-> c, cl |-> [proto |-> 0, upvalues |-> <<>>]]
  ELSE FinishFunction(Emit(c, Op("Return")))

-----------------------------------------------------------------------------
(* Patterns                                                                 *)

RECURSIVE Unwrapped(_)
Unwrapped(e) == IF e.k \in {"Paren", "Ann", "PParen", "PAnn"} THEN Unwrapped(e.c[1]) ELSE e
IsSimple(p) == Unwrapped(p).k \in {"PVar", "PWildcard"}
IsTrivial(p) == Unwrapped(p).k \in {"PVar", "PWildcard", "PUnit"}
SimpleName(p) == IF Unwrapped(p).k = "PVar" THEN Unwrapped(p).v ELSE "_"

LitValue(e) ==
  CASE e.k \in {"IntLit", "PIntLit"} -> IntV(e.n)
    [] e.k \in {"WordLit", "PWordLit"} -> WordV(e.n)
    [] e.k \in {"StringLit", "PStringLit"} -> StrV(e.v)
    [] OTHER -> Value("Char", 0, e.v, <<>>)

LocalField(c, slot, i) ==
  IF i < 2 THEN Emit(c, OpNM("GetLocalField", slot, i))
  ELSE EmitAll(c, <<OpN("GetLocal", slot), OpN("GetField", i)>>)
FieldExtract(c, slot, i) == AddLocal(LocalField(c, slot, i), "_tmp")

\* The tests of a pattern: the code, and where it fails with how many locals.
Failing(r, c) == [c |-> c, fails |-> Append(r.fails, [at |-> At(c), locals |-> NLocals(c)])]
TagCheck(r, slot, tag) ==
  Failing(r, Emit(r.c, Ins("JumpIfLocalNotTag", slot, 0, IntV(tag), <<>>)))

RECURSIVE PatternTest(_, _, _), FieldTests(_, _, _, _)
PatternTest(r, slot, p) ==
  CASE r.c.err -> r
    [] ~r.c.err /\ p.k \in {"PWildcard", "PVar", "PUnit"} -> r
    [] ~r.c.err /\ p.k = "PBoolLit" ->
         Failing(r, EmitAll(r.c, <<OpN("GetLocal", slot)>>
                                   \o (IF p.n = 1 THEN <<>> ELSE <<Op("Not")>>)
                                   \o <<Op("JumpIfFalse")>>))
    [] ~r.c.err /\ p.k = "PCon" ->
         IF p.v \notin DOMAIN r.c.tags THEN [r EXCEPT !.c = CompileError(@)]
         ELSE FieldTests(TagCheck(r, slot, r.c.tags[p.v]), slot, p.c, 1)
    [] ~r.c.err /\ p.k = "PTuple" -> FieldTests(r, slot, p.c, 1)
    [] ~r.c.err /\ p.k = "PCons" -> FieldTests(TagCheck(r, slot, 1), slot, p.c, 1)
    [] ~r.c.err /\ p.k = "PList" -> TagCheck(r, slot, 0)
    [] ~r.c.err /\ p.k \in {"PAs", "PParen", "PAnn"} -> PatternTest(r, slot, p.c[1])
    [] OTHER -> Failing(r, EmitAll(r.c, <<OpN("GetLocal", slot), Const(LitValue(p)),
                                          Op("JumpIfNotEq")>>))

\* emit_field_extract_test on the fields from i on.
FieldTests(r, slot, ps, i) ==
  LET inner == PatternTest([r EXCEPT !.c = FieldExtract(@, slot, i - 1)], NextSlot(r.c), ps[i])
      popped == [inner EXCEPT !.c = Emit(Truncated(@, NLocals(@) - 1), Op("Pop"))]
  IN CASE r.c.err \/ i > Len(ps) -> r
       [] ~(r.c.err \/ i > Len(ps)) /\ IsTrivial(ps[i]) -> FieldTests(r, slot, ps, i + 1)
       [] OTHER -> FieldTests(popped, slot, ps, i + 1)

RECURSIVE PatternBind(_, _, _), FieldBinds(_, _, _, _)
PatternBind(c, slot, p) ==
  CASE p.k = "PVar" -> AddLocal(Emit(c, OpN("GetLocal", slot)), p.v)
    [] p.k \in {"PCon", "PTuple", "PCons"} -> FieldBinds(c, slot, p.c, 1)
    [] p.k = "PAs" -> PatternBind(AddLocal(Emit(c, OpN("GetLocal", slot)), p.v), slot, p.c[1])
    [] p.k \in {"PParen", "PAnn"} -> PatternBind(c, slot, p.c[1])
    [] OTHER -> c
FieldBinds(c, slot, ps, i) ==
  IF c.err \/ i > Len(ps) THEN c
  ELSE FieldBinds(PatternBind(FieldExtract(c, slot, i - 1), NextSlot(c), ps[i]), slot, ps, i + 1)

RECURSIVE Tests(_, _), Binds(_, _), Trampolines(_, _, _, _)
Tests(r, parts) ==
  IF r.c.err \/ parts = <<>> THEN r
  ELSE Tests(PatternTest(r, Head(parts).slot, Head(parts).pat), Tail(parts))
Binds(c, parts) ==
  IF c.err \/ parts = <<>> THEN c
  ELSE Binds(PatternBind(c, Head(parts).slot, Head(parts).pat), Tail(parts))

\* Each failing test drops the temporaries it had and goes on to the next
\* branch: the state and the jumps that still have to land there.
Trampolines(c, fails, before, landing) ==
  LET pops == Head(fails).locals - before
      t == EmitAll(Patch(c, {Head(fails).at}), Append(Times(pops, Op("Pop")), Op("Jump")))
  IN CASE c.err \/ fails = <<>> -> Patch(c, landing)
       [] ~(c.err \/ fails = <<>>) /\ pops = 0 ->
            Trampolines(c, Tail(fails), before, landing \cup {Head(fails).at})
       [] OTHER -> Trampolines(t, Tail(fails), before, landing \cup {At(t)})

-----------------------------------------------------------------------------
(* Expressions                                                              *)

\* The instruction of an operator, by the type inference decided for it.
ArithOps == [Add |-> "Add", Sub |-> "Sub", Mul |-> "Mul", Div |-> "Div", Mod |-> "Mod",
             Lt |-> "Lt", Gt |-> "Gt", Le |-> "Le", Ge |-> "Ge"]
BinopOp(c, e) ==
  IF e.v \in DOMAIN ArithOps /\ e.p \in DOMAIN c.types THEN ArithOps[e.v] \o c.types[e.p]
  ELSE IF e.v = "ConcatStr" THEN "ConcatString" ELSE e.v

\* compile_cond_jump's comparisons that are also branches.
FusedJumps == [Eq |-> "JumpIfNotEq", Ne |-> "JumpIfEq", LtInt |-> "JumpIfNotLtInt",
               GtInt |-> "JumpIfNotGtInt", LeInt |-> "JumpIfNotLeInt", GeInt |-> "JumpIfNotGeInt"]

RECURSIVE EndsInResume(_, _)
EndsInResume(expr, k) ==
  LET e == Unwrapped(expr)
  IN CASE e.k = "Resume" -> Unwrapped(e.c[1]).k = "Var" /\ Unwrapped(e.c[1]).v = k
       [] e.k = "Let" -> EndsInResume(Last(e.c), k)
       [] e.k = "If" -> EndsInResume(e.c[2], k) /\ EndsInResume(e.c[3], k)
       [] e.k = "Case" -> Len(e.c) > 1 /\ \A i \in 2..Len(e.c) : EndsInResume(e.c[i].c[2], k)
       [] OTHER -> FALSE

IsSelfCall(c, f) ==
  /\ f.k = "Var" /\ Ctx(c).self /\ Ctx(c).arity = 1 /\ Ctx(c).name = f.v
  /\ ResolveLocal(c, f.v) < 0

RECURSIVE UnParen(_)
UnParen(e) == IF e.k = "Paren" THEN UnParen(e.c[1]) ELSE e
FlatTarget(c, f, arg) ==
  IF f.k = "Var" /\ UnParen(arg).k = "Tuple" THEN FlatProto(c, f.v, Len(UnParen(arg).c)) ELSE 0

ResumesClause(c, k) ==
  Unwrapped(k).k = "Var" /\ ResolveLocal(c, Unwrapped(k).v) >= 0
    /\ ResolveLocal(c, Unwrapped(k).v) = Ctx(c).cont

TupleWidth(p) == IF Unwrapped(p).k = "PTuple" THEN Len(Unwrapped(p).c) ELSE 0
\* flat_tuple_width, or 0; the parameters of a clause precede its body.
FlatWidth(binding) ==
  LET width == TupleWidth(binding.c[1].c[1])
  IN IF width >= 2 /\ \A i \in DOMAIN binding.c :
                        Len(binding.c[i].c) = 2 /\ TupleWidth(binding.c[i].c[1]) = width
     THEN width ELSE 0

ArgName(i) == "_arg" \o ToString(i)

\* The parts of the compiler call each other through Code, defined at the end;
\* x, y and z are what the part needs besides the state, 0 for nothing.
RECURSIVE Code(_, _, _, _, _), AbortClauses(_, _, _, _, _)
Compile(c, e, tail) == Code("expr", c, e, tail, 0)
OperandsFrom(c, es, i, keep) == Code("operands", c, es, i, keep)
Branches(c, bs, tail, ends) == Code("branches", c, bs, tail, ends)
Scrutinize(c, pats, bodies, tail) == Code("match", c, pats, bodies, tail)
App(c, f, arg, tail) == Code("app", c, f, arg, tail)
Handle(c, e) == Code("handle", c, e, 0, 0)
Providers(c, hs, slots) == Code("providers", c, hs, slots, 0)
LambdaProto(c, name, pat, body) == Code("lambda", c, name, pat, body)
CurriedFn(c, name, i, clause) == Code("curried", c, name, i, clause)
Clausal(c, name, i, clauses) == Code("clausal", c, name, i, clauses)
FunBinding(c, b) == Code("fun", c, b, 0, 0)
Members(c, d, ms) == Code("members", c, d, ms, 0)
CompileFuns(c, bs, ms) == Code("funs", c, bs, ms, 0)
BindingPattern(c, p) == Code("bind", c, p, 0, 0)
CompileDecls(c, ds) == Code("decls", c, ds, 0, 0)
CompileDecl(c, d) == Code("decl", c, d, 0, 0)

\* The values from the i-th on; the first `keep` ones take a slot.
CompileOperands(c, es, i, keep) ==
  LET o == Compile(c, es[i], FALSE)
  IN IF c.err \/ i > Len(es) THEN c
     ELSE IF o.err THEN o ELSE OperandsFrom(IF i <= keep THEN AddLocal(o, "") ELSE o, es, i + 1, keep)

Operands(c, es) == Truncated(OperandsFrom(c, es, 1, Len(es) - 1), NLocals(c))

CondJump(c, cond) ==
  LET e == Unwrapped(cond)
      op == BinopOp(c, e)
  IN IF e.k = "BinOp" /\ op \in DOMAIN FusedJumps
     THEN Emit(Operands(c, e.c), Op(FusedJumps[op]))
     ELSE Emit(Compile(c, cond, FALSE), Op("JumpIfFalse"))

\* compile_multi_case_branches: ends are the jumps to the end.
Restored(next, c) ==
  SetCtx(next, [Ctx(next) EXCEPT !.locals = SubSeq(@, 1, NLocals(c)), !.depth = Ctx(c).depth])
\* After the code of the first branch, whose tests fail at the given places.
AfterBranch(c, bs, tail, ends, fails, done) ==
  IF done.err THEN CompileError(c)
  ELSE Branches(Restored(Trampolines(done, fails, NLocals(c), {}), c), Tail(bs), tail,
                ends \cup {At(done)})
Tested(c, bs, tail, ends, r) ==
  LET body == Compile(Binds(r.c, Head(bs).parts), Head(bs).body, tail)
  IN IF r.c.err THEN CompileError(c)
     ELSE AfterBranch(c, bs, tail, ends, r.fails, Emit(EndScope(body), Op("Jump")))
CompileBranches(c, bs, tail, ends) ==
  CASE c.err -> c
    [] ~c.err /\ bs = <<>> -> Patch(Emit(c, Op("Panic")), ends)
    [] OTHER -> Tested(c, bs, tail, ends,
                       Tests([c |-> BeginScope(c), fails |-> <<>>], Head(bs).parts))

\* Arms over one slot.
Arms(slot, pats, bodies) ==
  [i \in DOMAIN pats |-> [parts |-> <<[slot |-> slot, pat |-> pats[i]]>>, body |-> bodies[i]]]
CompileMatch(c, pats, bodies, tail) ==
  EndScope(Branches(AddLocal(c, "_scrut"), Arms(NextSlot(c), pats, bodies), tail, {}))

CompileApp(c, f, arg, tail) ==
  LET call(op) == IF tail THEN "Tail" \o op ELSE op
      flat == FlatTarget(c, f, arg)
      direct == IF f.k = "Var" THEN DirectProto(c, f.v) ELSE 0
  IN CASE IsSelfCall(c, f) -> Emit(Compile(c, arg, FALSE), Op(call("CallSelf")))
       [] ~IsSelfCall(c, f) /\ flat # 0 ->
            Emit(Operands(c, UnParen(arg).c), OpN(call("CallDirect"), flat))
       [] ~IsSelfCall(c, f) /\ flat = 0 /\ direct # 0 ->
            Emit(Compile(c, arg, FALSE), OpN(call("CallDirect"), direct))
       [] OTHER -> Emit(Operands(c, <<f, arg>>), OpN(call("Call"), 1))

If(c, e, tail) ==
  LET cond == CondJump(c, e.c[1])
      then == Emit(Compile(cond, e.c[2], tail), Op("Jump"))
      else == Compile(Patch(then, {At(cond)}), e.c[3], tail)
  IN IF cond.err \/ then.err THEN CompileError(c) ELSE Patch(else, {At(then)})

CompileExpr(c, e, tail) ==
  CASE c.err -> c
    [] ~c.err /\ e.k \in {"IntLit", "WordLit", "StringLit", "CharLit"} -> Emit(c, Const(LitValue(e)))
    [] ~c.err /\ e.k = "BoolLit" -> Emit(c, Op(IF e.n = 1 THEN "True" ELSE "False"))
    [] ~c.err /\ e.k = "Unit" -> Emit(c, Op("Unit"))
    [] ~c.err /\ e.k \in {"Var", "Constructor"} ->
         IF IsContinuation(c, e.v) THEN CompileError(c) ELSE GetVar(c, e.v)
    [] ~c.err /\ e.k = "Tuple" -> Emit(Operands(c, e.c), OpN("MakeTuple", Len(e.c)))
    [] ~c.err /\ e.k = "List" ->
         EmitAll(Truncated(OperandsFrom(c, e.c, 1, Len(e.c)), NLocals(c)),
                 <<OpNM("MakeData", 0, 0)>> \o Times(Len(e.c), Op("MakeCons")))
    [] ~c.err /\ e.k = "Cons" -> Emit(Operands(c, e.c), Op("MakeCons"))
    [] ~c.err /\ e.k = "BinOp" -> Emit(Operands(c, e.c), Op(BinopOp(c, e)))
    [] ~c.err /\ e.k = "UnaryNeg" ->
         Emit(Compile(c, e.c[1], FALSE),
              Op(IF e.p \in DOMAIN c.types /\ c.types[e.p] = "Float" THEN "NegFloat" ELSE "Neg"))
    [] ~c.err /\ e.k = "App" -> App(c, e.c[1], e.c[2], tail)
    [] ~c.err /\ e.k = "Fn" -> Closing(LambdaProto(c, "", e.c[1], e.c[2]))
    [] ~c.err /\ e.k = "If" -> If(c, e, tail)
    [] ~c.err /\ e.k = "Let" ->
         EndScope(Compile(CompileDecls(BeginScope(c), Front(e.c)), Last(e.c), tail))
    [] ~c.err /\ e.k = "Case" ->
         Scrutinize(Compile(BeginScope(c), e.c[1], FALSE),
                    [i \in 1..Len(e.c) - 1 |-> e.c[i + 1].c[1]],
                    [i \in 1..Len(e.c) - 1 |-> e.c[i + 1].c[2]], tail)
    [] ~c.err /\ e.k \in {"Ann", "Paren"} -> Compile(c, e.c[1], tail)
    [] ~c.err /\ e.k = "Perform" ->
         IF e.v \in DOMAIN c.effects
         THEN Emit(Compile(c, e.c[1], FALSE), OpN("Perform", c.effects[e.v]))
         ELSE CompileError(c)
    [] ~c.err /\ e.k = "Handle" -> Handle(c, e)
    [] OTHER -> IF tail /\ ResumesClause(c, e.c[1]) THEN Compile(c, e.c[2], FALSE)
                ELSE CompileError(c)

-----------------------------------------------------------------------------
(* Effect handlers                                                          *)

\* compile_provider_clause: a closure of the payload and the continuation.
ProviderClosure(c, h) ==
  LET f == [c EXCEPT !.stack = Append(@, FuncCtx("", 2, 0, FALSE))]
      k == AddContinuation(AddLocal(f, h.c[1].v), h.c[2].v)
  IN Closing(Returning(Compile(SetCtx(k, [Ctx(k) EXCEPT !.cont = 1]), h.c[3], TRUE)))

\* The closures of the provider clauses, each in a slot; -1 for an abort clause.
CompileProviders(c, hs, slots) ==
  LET h == hs[Len(slots) + 1]
      made == ProviderClosure(c, h)
  IN CASE c.err \/ Len(slots) = Len(hs) -> [c |-> c, slots |-> slots]
       [] ~(c.err \/ Len(slots) = Len(hs)) /\ EndsInResume(h.c[3], h.c[2].v) ->
            IF made.err THEN [c |-> made, slots |-> slots]
            ELSE Providers(AddLocal(made, ""), hs, Append(slots, NextSlot(made)))
       [] OTHER -> Providers(c, hs, Append(slots, -1))

\* The abort clauses, whose places go into the handler installed at `at`.
AbortClauses(c, hs, slots, at, ends) ==
  LET i == CHOOSE j \in DOMAIN hs : slots[j] = -1 /\ \A l \in 1..j - 1 : slots[l] # -1
      placed == SetCtx(c, [Ctx(c) EXCEPT !.code[at].l[i].at = At(c) + 1])
      bound == AddContinuation(AddLocal(BeginScope(placed), hs[i].c[1].v), hs[i].c[2].v)
      done == Emit(EndScope(Compile(bound, hs[i].c[3], FALSE)), Op("Jump"))
  IN IF c.err \/ \A j \in DOMAIN hs : slots[j] # -1 THEN [c |-> c, ends |-> ends]
     ELSE AbortClauses(done, hs, [slots EXCEPT ![i] = -2], at, ends \cup {At(done)})

CompileHandle(c, e) ==
  LET hs == SubSeq(e.c, 3, Len(e.c))
      p == Providers(BeginScope(c), hs, <<>>)
      install == Emit(p.c, Ins("InstallHandler", 0, 0, UnitV,
                               [i \in DOMAIN hs |-> Clause(c.effects[hs[i].v], p.slots[i] >= 0,
                                                           p.slots[i])]))
      skip == Emit(install, Op("Jump"))
      a == AbortClauses(skip, hs, p.slots, At(install), {})
      body == Emit(Compile(Patch(a.c, {At(skip)}), e.c[1], FALSE), Op("RemoveHandler"))
      ret == EndScope(Compile(AddLocal(BeginScope(body), e.v), e.c[2], TRUE))
  IN IF p.c.err \/ (\E i \in DOMAIN hs : hs[i].v \notin DOMAIN c.effects) \/ a.c.err \/ body.err
     THEN CompileError(c)
     ELSE EndScope(Patch(ret, a.ends))

-----------------------------------------------------------------------------
(* Functions of declarations and lambdas                                    *)

CompileLambda(c, name, pat, body) ==
  LET f == PushFunction(c, name)
      arg == Emit(BeginScope(AddLocal(f, "_arg")), OpN("GetLocal", 0))
  IN Returning(IF IsSimple(pat) THEN Compile(AddLocal(f, SimpleName(pat)), body, TRUE)
               ELSE Scrutinize(arg, <<pat>>, <<body>>, TRUE))

CompileCurried(c, name, i, clause) ==
  LET f == AddLocal(PushFunction(c, name), SimpleName(clause.c[i]))
  IN Returning(IF i + 1 < Len(clause.c) THEN Closing(CurriedFn(f, "", i + 1, clause))
               ELSE Compile(f, Last(clause.c), TRUE))

RECURSIVE GetArgs(_, _, _)
GetArgs(c, i, n) == IF i = n THEN c ELSE GetArgs(GetVar(c, ArgName(i)), i + 1, n)

\* compile_clausal_fn_inner: one function per parameter; the innermost matches
\* the clauses against the tuple of all parameters, or the only one.
CompileClausal(c, name, i, clauses) ==
  LET arity == Len(clauses[1].c) - 1
      f == AddLocal(PushFunction(c, name), ArgName(i))
      args == GetArgs(BeginScope(f), 0, arity)
      scrut == IF arity = 1 THEN args ELSE Emit(args, OpN("MakeTuple", arity))
      pats == [j \in DOMAIN clauses |-> IF arity = 1 THEN clauses[j].c[1]
                                        ELSE Of("PTuple", Front(clauses[j].c))]
  IN Returning(IF i + 1 < arity THEN Closing(Clausal(f, "", i + 1, clauses))
               ELSE Scrutinize(scrut, pats, [j \in DOMAIN clauses |-> Last(clauses[j].c)], TRUE))

CompileFun(c, b) ==
  LET pats == Front(b.c[1].c)
  IN IF Len(b.c) = 1 /\ \A i \in DOMAIN pats : IsSimple(pats[i])
     THEN CurriedFn(c, b.v, 1, b.c[1])
     ELSE Clausal(c, b.v, 0, b.c)

RECURSIVE AddLocals(_, _), ExtractFrom(_, _, _)
AddLocals(c, names) == IF names = <<>> THEN c ELSE AddLocals(AddLocal(c, Head(names)), Tail(names))
ExtractFrom(c, i, n) == IF i = n THEN c ELSE ExtractFrom(FieldExtract(c, 0, i), i + 1, n)

FlatFun(c, b, width) ==
  LET f == PushFunction(c, b.v)
      args == AddLocals(SetCtx(f, [Ctx(f) EXCEPT !.arity = width]),
                        [i \in 1..width |-> ArgName(i - 1)])
      arms == [j \in DOMAIN b.c |->
                 [parts |-> [i \in 1..width |-> [slot |-> i - 1, pat |-> Unwrapped(b.c[j].c[1]).c[i]]],
                  body |-> b.c[j].c[2]]]
  IN Returning(EndScope(Branches(BeginScope(args), arms, TRUE, {})))

FlatWrapper(c, name, entry) ==
  Returning(Emit(ExtractFrom(AddLocal(PushFunction(c, name), "_arg"), 0, entry.width),
                 OpN("TailCallDirect", entry.flat)))

-----------------------------------------------------------------------------
(* Recursive groups                                                         *)

MemberName(d, i) == IF d.k = "ValRec" THEN d.v ELSE d.c[i].v
Member(c, d, i) ==
  LET s == [c EXCEPT !.self = TRUE]
      m == IF d.k = "ValRec" THEN LambdaProto(s, d.v, d.c[1].c[1], d.c[1].c[2])
           ELSE FunBinding(s, d.c[i])
  IN [m EXCEPT !.c.self = FALSE]

CompileMembers(c, d, ms) ==
  LET m == Member(c, d, Len(ms) + 1)
  IN IF c.err \/ Len(ms) = Len(d.c) THEN [c |-> c, ms |-> ms]
     ELSE Members(m.c, d, Append(ms, m.cl))

\* compile_local_rec_group: members that refer to the group are made together.
LocalRecGroup(c, d) ==
  LET first == NLocals(c)
      r == Members(AddLocals(c, [i \in DOMAIN d.c |-> MemberName(d, i)]), d, <<>>)
      inGroup(up) == up.from = "local" /\ up.i \in first..first + Len(d.c) - 1
      linked(up) == IF inGroup(up) THEN Capture("group", up.i - first) ELSE up
      ups(m) == [u \in DOMAIN m.upvalues |-> linked(m.upvalues[u])]
      recursive == \E i \in DOMAIN r.ms : \E u \in DOMAIN r.ms[i].upvalues :
                     inGroup(r.ms[i].upvalues[u])
  IN CASE r.c.err -> r.c
       [] ~r.c.err /\ recursive ->
            Emit(r.c, Ins("MakeRecClosures", 0, 0, UnitV,
                          [i \in DOMAIN r.ms |-> [proto |-> r.ms[i].proto,
                                                  upvalues |-> ups(r.ms[i])]]))
       [] OTHER -> EmitAll(r.c, [i \in DOMAIN r.ms |-> Ins("MakeClosure", r.ms[i].proto, 0, UnitV,
                                                            r.ms[i].upvalues)])

\* The first loop over a top-level group: names and functions are reserved.
RECURSIVE ReserveFuns(_, _, _)
ReserveFuns(c, bs, ms) ==
  LET b == bs[Len(ms) + 1]
      d == ReserveProto(DeclareGlobal(c, b.v))
      proto == Len(d.functions)
      entry == [wrapper |-> proto, flat |-> proto + 1, width |-> FlatWidth(b)]
      known == KnowProto(d, b.v, proto)
      flat == [ReserveProto(known) EXCEPT !.flats = (b.v :> entry) @@ @]
  IN IF Len(ms) = Len(bs) THEN [c |-> c, ms |-> ms]
     ELSE ReserveFuns(IF entry.width = 0 THEN known ELSE flat, bs, Append(ms, entry))

\* The second loop: the members from the given ones on.
CompileGroup(c, bs, ms) ==
  LET m == Head(ms)
      b == Head(bs)
      flat == FlatFun([c EXCEPT !.reserved = m.flat], b, m.width)
      f == IF m.width = 0 THEN FunBinding([c EXCEPT !.reserved = m.wrapper], b)
           ELSE FlatWrapper([flat.c EXCEPT !.reserved = m.wrapper], b.v, m)
      capturing == f.cl.upvalues # <<>> \/ (m.width # 0 /\ flat.cl.upvalues # <<>>)
  IN CASE c.err \/ bs = <<>> -> c
       [] ~(c.err \/ bs = <<>>) /\ (f.c.err \/ capturing) -> CompileError(c)
       [] OTHER -> CompileFuns(KnowProto(SetDeclared(Closing(f), b.v), b.v, m.wrapper),
                               Tail(bs), Tail(ms))

-----------------------------------------------------------------------------
(* Declarations                                                             *)

RECURSIVE BindFields(_, _, _, _), Constructors(_, _, _)
BindPattern(c, p) ==
  LET bound == BindFields(AddLocal(c, "_tup"), NextSlot(c), p.c, 1)
  IN CASE p.k = "PVar" -> BindName(c, p.v)
       [] p.k = "PWildcard" -> Emit(c, Op("Pop"))
       [] p.k = "PTuple" -> IF ~AtTop(c) \/ bound.err THEN bound
                            ELSE Emit(Truncated(bound, NLocals(bound) - 1), Op("Pop"))
       [] p.k \in {"PParen", "PAnn"} -> BindingPattern(c, p.c[1])
       [] OTHER -> CompileError(c)
BindFields(c, slot, ps, i) ==
  IF c.err \/ i > Len(ps) THEN c
  ELSE BindFields(BindingPattern(LocalField(c, slot, i - 1), ps[i]), slot, ps, i + 1)

ConFunction(c, con, tag) ==
  Returning(EmitAll(AddLocal(PushFunction(c, con.v), "_arg"),
                    <<OpN("GetLocal", 0), OpNM("MakeData", tag, 1)>>))
\* compile_datatype from the constructor with the given tag on.
Constructors(c, cons, tag) ==
  LET con == cons[tag + 1]
      known == [c EXCEPT !.tags = (con.v :> tag) @@ @]
      made == Closing(ConFunction(known, con, tag))
      bound == BindName(made, con.v)
  IN CASE tag = Len(cons) -> c
       [] tag < Len(cons) /\ con.c = <<>> ->
            Constructors(BindName(Emit(known, OpNM("MakeData", tag, 0)), con.v), cons, tag + 1)
       [] OTHER -> Constructors(IF AtTop(bound) THEN KnowProto(bound, con.v, Len(bound.functions))
                                ELSE bound, cons, tag + 1)

ExportVal(c, d) ==
  LET proto == DirectProto(c, d.c[1].v)
      bound == BindName(Compile(c, d.c[1], FALSE), d.v)
  IN IF AtTop(c) /\ proto # 0 THEN KnowProto(bound, d.v, proto) ELSE bound

\* The private locals on top of the stack go.
DropPrivate(c, depth) ==
  EmitAll(Truncated(c, Below(c, depth)), Times(NLocals(c) - Below(c, depth), Op("Pop")))
\* Local's private declarations, then its body one scope further out.
CompileLocal(c, d) ==
  LET private == CompileDecls(BeginScope(c), SubSeq(d.c, 1, d.n))
      body == CompileDecls(Deeper(private, -1), SubSeq(d.c, d.n + 1, Len(d.c)))
  IN IF private.err \/ body.err THEN CompileError(c) ELSE DropPrivate(body, Ctx(private).depth)

ForgetProto(c, name) == [c EXCEPT !.protos = Without(@, name)]

FunGroup(d, reserved) == CompileFuns(reserved.c, d.c, reserved.ms)

CompileOne(c, d) ==
  LET recursive == DeclareGlobal(ForgetProto(c, d.v), d.v)
  IN CASE c.err -> c
       [] ~c.err /\ d.k = "Val" -> BindingPattern(Compile(c, d.c[2], FALSE), d.c[1])
       [] ~c.err /\ d.k \in {"ValRec", "Fun"} /\ ~AtTop(c) -> LocalRecGroup(c, d)
       [] ~c.err /\ d.k = "ValRec" /\ AtTop(c) ->
            SetDeclared(Compile(recursive, d.c[1], FALSE), d.v)
       [] ~c.err /\ d.k = "Fun" /\ AtTop(c) -> FunGroup(d, ReserveFuns(c, d.c, <<>>))
       [] ~c.err /\ d.k = "Datatype" ->
            Constructors(c, SelectSeq(d.c, LAMBDA x : x.k = "Con"), 0)
       [] ~c.err /\ d.k = "ExportVal" -> ExportVal(c, d)
       [] ~c.err /\ d.k = "Effect" ->
            [c EXCEPT !.effects = (d.v :> c.nextEffect) @@ @, !.nextEffect = @ + 1]
       [] ~c.err /\ d.k = "Local" -> CompileLocal(c, d)
       [] OTHER -> c
CompileEach(c, ds) ==
  LET next == CompileDecl(c, Head(ds))
  IN IF c.err \/ ds = <<>> THEN c ELSE IF next.err THEN next ELSE CompileDecls(next, Tail(ds))

Code(part, c, x, y, z) ==
  CASE part = "expr" -> CompileExpr(c, x, y)
    [] part = "operands" -> CompileOperands(c, x, y, z)
    [] part = "branches" -> CompileBranches(c, x, y, z)
    [] part = "match" -> CompileMatch(c, x, y, z)
    [] part = "app" -> CompileApp(c, x, y, z)
    [] part = "handle" -> CompileHandle(c, x)
    [] part = "providers" -> CompileProviders(c, x, y)
    [] part = "lambda" -> CompileLambda(c, x, y, z)
    [] part = "curried" -> CompileCurried(c, x, y, z)
    [] part = "clausal" -> CompileClausal(c, x, y, z)
    [] part = "fun" -> CompileFun(c, x)
    [] part = "members" -> CompileMembers(c, x, y)
    [] part = "funs" -> CompileGroup(c, x, y)
    [] part = "bind" -> BindPattern(c, x)
    [] part = "decls" -> CompileEach(c, x)
    [] part = "decl" -> CompileOne(c, x)

=============
