------------------------------- MODULE StackVm -------------------------------
(***************************************************************************)
(* The stack machine (hiko-vm/src/vm/dispatch.rs).  A machine has call      *)
(* frames, a stack, installed and hidden effect handlers, globals, the      *)
(* closures made so far and the work charged; Step is one instruction.      *)
(* Slots and bases count from 0, functions from 1 with 0 for the main code. *)
(* state is "run", "done" or why it failed: "type", "underflow",            *)
(* "undefined", "inactive" and "code" are failures of the code, the others  *)
(* of the program.                                                          *)
(***************************************************************************)
EXTENDS Bytecode, Numbers, TLC

CONSTANTS MaxCallFrames,    \* DEFAULT_MAX_CALL_FRAMES
          MaxStackSlots,    \* DEFAULT_MAX_STACK_SLOTS
          MaxHandlerFrames  \* DEFAULT_MAX_HANDLER_FRAMES

Frame(proto, base, caps) == [proto |-> proto, ip |-> 1, base |-> base, caps |-> caps]
Undefined == Value("Undefined", 0, "", <<>>)
\* The builtins among a program's globals have values from the start.
NewVm(prog) ==
  [frames |-> <<Frame(0, 0, <<>>)>>, stack |-> <<>>, handlers |-> <<>>, hidden |-> <<>>,
   globals |-> [i \in DOMAIN prog.globals |-> IF prog.globals[i] \in Builtins
                                              THEN BuiltinV(prog.globals[i]) ELSE Undefined],
   closures |-> <<>>, work |-> 0, state |-> "run"]

Fail(vm, why) == [vm EXCEPT !.state = why]
Code(prog, proto) == IF proto = 0 THEN prog.main ELSE prog.functions[proto].code
FrameOf(vm) == Last(vm.frames)
Depth(vm) == Len(vm.stack)

Push(vm, v) ==
  IF Depth(vm) >= MaxStackSlots THEN Fail(vm, "overflow") ELSE [vm EXCEPT !.stack = Append(@, v)]
Cut(vm, n) == [vm EXCEPT !.stack = SubSeq(@, 1, n)]
Top(vm, i) == vm.stack[Depth(vm) - i]
Goto(vm, ip) == [vm EXCEPT !.frames[Len(vm.frames)].ip = ip]
\* Pops n values and pushes one.
Replace(vm, n, v) == Push(Cut(vm, Depth(vm) - n), v)
Has(vm, n) == Depth(vm) >= n
LocalAt(vm, slot) == FrameOf(vm).base + slot + 1
HasLocal(vm, slot) == LocalAt(vm, slot) <= Depth(vm)
Local(vm, slot) == vm.stack[LocalAt(vm, slot)]

-----------------------------------------------------------------------------
(* Values                                                                   *)

\* values_equal: functions are equal only to themselves, and closures only as
\* the same heap object; a builtin to none.
RECURSIVE ValuesEqual(_, _)
ValuesEqual(a, b) ==
  /\ a.k = b.k /\ a.k # "Builtin"
  /\ a.n = b.n /\ a.v = b.v /\ Len(a.c) = Len(b.c)
  /\ \A i \in DOMAIN a.c : ValuesEqual(a.c[i], b.c[i])

\* The operators by instruction.
OpName == [AddInt |-> "Add", SubInt |-> "Sub", MulInt |-> "Mul", DivInt |-> "Div", ModInt |-> "Mod",
           AddWord |-> "Add", SubWord |-> "Sub", MulWord |-> "Mul", DivWord |-> "Div",
           ModWord |-> "Mod", LtInt |-> "Lt", GtInt |-> "Gt", LeInt |-> "Le", GeInt |-> "Ge",
           LtWord |-> "Lt", GtWord |-> "Gt", LeWord |-> "Le", GeWord |-> "Ge",
           JumpIfNotLtInt |-> "Lt", JumpIfNotGtInt |-> "Gt", JumpIfNotLeInt |-> "Le",
           JumpIfNotGeInt |-> "Ge"]

Both(vm, kind) == Top(vm, 1).k = kind /\ Top(vm, 0).k = kind

\* int_checked_binop, word_binop and word_checked_binop
Arithmetic(vm, op, kind) ==
  LET name == OpName[op]
      a == Top(vm, 1).n
      b == Top(vm, 0).n
  IN CASE ~Has(vm, 2) -> Fail(vm, "underflow")
       [] Has(vm, 2) /\ ~Both(vm, kind) -> Fail(vm, "type")
       [] Has(vm, 2) /\ Both(vm, kind) /\ name \in {"Div", "Mod"} /\ b = 0 -> Fail(vm, "zero")
       [] Has(vm, 2) /\ Both(vm, kind) /\ ~(name \in {"Div", "Mod"} /\ b = 0) ->
            IF kind = "Word" THEN Replace(vm, 2, WordV(Wrapped(Arith(name, a, b))))
            ELSE IF Checked(name, a, b) THEN Replace(vm, 2, IntV(Arith(name, a, b)))
            ELSE Fail(vm, "range")

Comparison(vm, op, kind) ==
  CASE ~Has(vm, 2) -> Fail(vm, "underflow")
    [] Has(vm, 2) /\ ~Both(vm, kind) -> Fail(vm, "type")
    [] OTHER -> Replace(vm, 2, Bool(Compares(OpName[op], Top(vm, 1).n, Top(vm, 0).n)))

Negate(vm) ==
  CASE ~Has(vm, 1) -> Fail(vm, "underflow")
    [] Has(vm, 1) /\ Top(vm, 0).k # "Int" -> Fail(vm, "type")
    [] OTHER -> IF IntFits(-Top(vm, 0).n) THEN Replace(vm, 1, IntV(-Top(vm, 0).n))
                ELSE Fail(vm, "range")

Field(vm, v, i, pops) ==
  IF v.k \in {"Tuple", "Data"} /\ i < Len(v.c) THEN Replace(vm, pops, v.c[i + 1])
  ELSE Fail(vm, "type")

\* Conditional jumps: the values they pop, whether these have the right kind,
\* and whether the jump is taken.
JumpPops(op) == CASE op \in {"Jump", "JumpIfLocalNotTag"} -> 0 [] op = "JumpIfFalse" -> 1 [] OTHER -> 2
JumpWellTyped(vm, ins) ==
  CASE ins.op = "JumpIfLocalNotTag" -> HasLocal(vm, ins.n) /\ Local(vm, ins.n).k = "Data"
    [] ins.op = "JumpIfFalse" -> Top(vm, 0).k = "Bool"
    [] ins.op \in {"Jump", "JumpIfEq", "JumpIfNotEq"} -> TRUE
    [] OTHER -> Both(vm, "Int")
Taken(vm, ins) ==
  CASE ins.op = "Jump" -> TRUE
    [] ins.op = "JumpIfLocalNotTag" -> Local(vm, ins.n).n # ins.x.n
    [] ins.op = "JumpIfFalse" -> Top(vm, 0).n = 0
    [] ins.op = "JumpIfEq" -> ValuesEqual(Top(vm, 1), Top(vm, 0))
    [] ins.op = "JumpIfNotEq" -> ~ValuesEqual(Top(vm, 1), Top(vm, 0))
    [] OTHER -> ~Compares(OpName[ins.op], Top(vm, 1).n, Top(vm, 0).n)
JumpStep(vm, ins) ==
  LET popped == Cut(vm, Depth(vm) - JumpPops(ins.op))
  IN CASE ~Has(vm, JumpPops(ins.op)) -> Fail(vm, "underflow")
       [] Has(vm, JumpPops(ins.op)) /\ ~JumpWellTyped(vm, ins) -> Fail(vm, "type")
       [] OTHER -> IF Taken(vm, ins) THEN Goto(popped, ins.m) ELSE popped

-----------------------------------------------------------------------------
(* Closures and calls                                                       *)

CaptureFits(vm, up) ==
  IF up.from = "local" THEN HasLocal(vm, up.i) ELSE up.from = "group" \/ up.i < Len(FrameOf(vm).caps)
\* The value a capture takes; members of a group follow the closures so far.
Captured(vm, up) ==
  CASE up.from = "local" -> Local(vm, up.i)
    [] up.from = "upvalue" -> FrameOf(vm).caps[up.i + 1]
    [] OTHER -> CloV(Len(vm.closures) + up.i + 1)
Closures(vm, members) ==
  IF \E i \in DOMAIN members : \E u \in DOMAIN members[i].upvalues :
       ~CaptureFits(vm, members[i].upvalues[u])
  THEN Fail(vm, "code")
  ELSE IF Depth(vm) + Len(members) > MaxStackSlots THEN Fail(vm, "overflow")
  ELSE [vm EXCEPT
          !.closures = @ \o [i \in DOMAIN members |->
                               [proto |-> members[i].proto,
                                caps |-> [u \in DOMAIN members[i].upvalues |->
                                            Captured(vm, members[i].upvalues[u])]]],
          !.stack = @ \o [i \in DOMAIN members |-> CloV(Len(vm.closures) + i)]]

CallBuiltin(vm, arity) ==
  LET arg == Top(vm, 0)
  IN IF arity = 1 /\ arg.k = "String" THEN Replace(vm, 2, IntV(Len(arg.v))) ELSE Fail(vm, "type")

\* enter_closure: the arguments move down over the callee.
EnterClosure(vm, arity, prog) ==
  LET at == Depth(vm) - arity
      clo == vm.closures[vm.stack[at].n]
  IN CASE vm.stack[at].k # "Closure" -> Fail(vm, "type")
       [] vm.stack[at].k = "Closure" /\ prog.functions[clo.proto].arity # arity -> Fail(vm, "type")
       [] OTHER -> IF Len(vm.frames) >= MaxCallFrames THEN Fail(vm, "overflow")
                   ELSE [vm EXCEPT !.stack = SubSeq(@, 1, at - 1) \o SubSeq(@, at + 1, Depth(vm)),
                                   !.frames = Append(@, Frame(clo.proto, at - 1, clo.caps))]

\* The frame starts again as another function, on its arguments.
TailInto(vm, proto, arity, caps) ==
  LET f == FrameOf(vm)
  IN IF f.base + arity > Depth(vm) THEN Fail(vm, "underflow")
     ELSE [vm EXCEPT !.stack = SubSeq(@, 1, f.base) \o SubSeq(@, Depth(vm) - arity + 1, Depth(vm)),
                     !.frames[Len(vm.frames)] = Frame(proto, f.base, caps)]
CallInto(vm, proto, arity, caps) ==
  IF Len(vm.frames) >= MaxCallFrames THEN Fail(vm, "overflow")
  ELSE [vm EXCEPT !.frames = Append(@, Frame(proto, Depth(vm) - arity, caps))]

Call(vm, arity, prog) ==
  CASE ~Has(vm, arity + 1) -> Fail(vm, "underflow")
    [] Has(vm, arity + 1) /\ Top(vm, arity).k = "Builtin" -> CallBuiltin(vm, arity)
    [] OTHER -> EnterClosure(vm, arity, prog)

\* A builtin in tail position returns to the instruction after the call.
TailCall(vm, arity, prog) ==
  LET clo == vm.closures[Top(vm, arity).n]
  IN CASE ~Has(vm, arity + 1) -> Fail(vm, "underflow")
       [] Has(vm, arity + 1) /\ Top(vm, arity).k = "Builtin" -> CallBuiltin(vm, arity)
       [] OTHER -> IF Top(vm, arity).k # "Closure" THEN Fail(vm, "type")
                   ELSE IF prog.functions[clo.proto].arity # arity THEN Fail(vm, "type")
                   ELSE TailInto(vm, clo.proto, arity, clo.caps)

\* CallDirect, CallSelf and their tail forms.
DirectCall(vm, ins, prog) ==
  LET self == ins.op \in {"CallSelf", "TailCallSelf"}
      proto == IF self THEN FrameOf(vm).proto ELSE ins.n
      arity == prog.functions[proto].arity
      caps == IF self THEN FrameOf(vm).caps ELSE <<>>
  IN CASE ~Has(vm, arity) -> Fail(vm, "underflow")
       [] Has(vm, arity) /\ ins.op \in {"CallDirect", "CallSelf"} -> CallInto(vm, proto, arity, caps)
       [] OTHER -> TailInto(vm, proto, arity, caps)

\* Faulty: the handlers a clause hid stay hidden.
ReturnStillHidden(vm) ==
  LET popped == Push(Cut([vm EXCEPT !.frames = Front(@)], FrameOf(vm).base), Top(vm, 0))
  IN IF ~Has(vm, 1) THEN Fail(vm, "underflow")
     ELSE IF popped.frames = <<>> THEN Fail(popped, "done") ELSE popped

Return(vm) ==
  LET popped == Push(Cut([vm EXCEPT !.frames = Front(@)], FrameOf(vm).base), Top(vm, 0))
      shown == IF vm.hidden # <<>> /\ Last(vm.hidden).frame = Len(popped.frames)
               THEN [popped EXCEPT !.handlers = @ \o Last(vm.hidden).handlers, !.hidden = Front(@)]
               ELSE popped
  IN IF ~Has(vm, 1) THEN Fail(vm, "underflow")
     ELSE IF shown.frames = <<>> THEN Fail(shown, "done") ELSE shown

-----------------------------------------------------------------------------
(* Effect handlers                                                          *)

\* A handler remembers the frame and the stack it was installed in.  Provider
\* clauses hold the closure's place in the stack.
InstallHandler(vm, clauses) ==
  LET f == FrameOf(vm)
      placed == [i \in DOMAIN clauses |-> IF clauses[i].provider
                                          THEN [clauses[i] EXCEPT !.at = f.base + @] ELSE clauses[i]]
  IN CASE Len(vm.handlers) >= MaxHandlerFrames -> Fail(vm, "overflow")
       [] /\ Len(vm.handlers) < MaxHandlerFrames
          /\ \E i \in DOMAIN clauses : clauses[i].provider /\ ~HasLocal(vm, clauses[i].at) ->
            Fail(vm, "code")
       [] OTHER -> [vm EXCEPT !.handlers = Append(@, [frame |-> Len(vm.frames), base |-> Depth(vm),
                                                      clauses |-> placed, proto |-> f.proto,
                                                      caps |-> f.caps])]

\* The clause runs at the perform site with its handler and the inner ones hidden.
Provide(vm, h, slot, payload, prog) ==
  LET hidden == [vm EXCEPT !.handlers = SubSeq(@, 1, h - 1),
                           !.hidden = Append(@, [frame |-> Len(vm.frames),
                                                 handlers |-> SubSeq(vm.handlers, h, Len(vm.handlers))])]
      called == Push(Push(Push(hidden, vm.stack[slot + 1]), payload), UnitV)
  IN IF slot >= vm.handlers[h].base THEN Fail(vm, "code")
     ELSE IF called.state # "run" THEN called ELSE EnterClosure(called, 2, prog)

\* Unwinds to the handler's frame and goes on in the clause's code.
Abort(vm, h, ip, payload) ==
  LET handler == vm.handlers[h]
      frame == [Frame(handler.proto, vm.frames[handler.frame].base, handler.caps) EXCEPT !.ip = ip]
      kept == {i \in DOMAIN vm.hidden : vm.hidden[i].frame < handler.frame}
      n == IF kept = {} THEN 0 ELSE CHOOSE i \in kept : \A j \in kept : i >= j
  IN Push(Push(Cut([vm EXCEPT !.handlers = SubSeq(@, 1, h - 1),
                              !.frames = Append(SubSeq(@, 1, handler.frame - 1), frame),
                              !.hidden = SubSeq(@, 1, n)],
                   handler.base), payload), UnitV)

Perform(vm, tag, prog) ==
  LET popped == Cut(vm, Depth(vm) - 1)
      handling == {h \in DOMAIN vm.handlers :
                     \E i \in DOMAIN vm.handlers[h].clauses : vm.handlers[h].clauses[i].tag = tag}
      h == CHOOSE x \in handling : \A y \in handling : x >= y
      handler == vm.handlers[h]
      clauses == handler.clauses
      c == clauses[CHOOSE i \in DOMAIN clauses :
                     clauses[i].tag = tag /\ \A j \in 1..i - 1 : clauses[j].tag # tag]
      active == handler.frame <= Len(vm.frames) /\ vm.frames[handler.frame].base <= handler.base
                  /\ handler.base <= Depth(popped)
  IN CASE ~Has(vm, 1) -> Fail(vm, "underflow")
       [] Has(vm, 1) /\ handling = {} -> Fail(vm, "unhandled")
       [] Has(vm, 1) /\ handling # {} /\ ~active -> Fail(vm, "inactive")
       [] OTHER -> IF c.provider THEN Provide(popped, h, c.at, Top(vm, 0), prog)
                   ELSE Abort(popped, h, c.at, Top(vm, 0))

-----------------------------------------------------------------------------
(* One instruction                                                          *)

SetLocal(vm, slot) ==
  LET popped == Cut(vm, Depth(vm) - 1)
  IN CASE ~Has(vm, 1) -> Fail(vm, "underflow")
       [] Has(vm, 1) /\ ~HasLocal(popped, slot) -> Fail(vm, "code")
       [] OTHER -> [popped EXCEPT !.stack[LocalAt(vm, slot)] = Top(vm, 0)]

SetGlobalSlot(vm, slot) ==
  IF ~Has(vm, 1) THEN Fail(vm, "underflow")
  ELSE [Cut(vm, Depth(vm) - 1) EXCEPT !.globals[slot + 1] = Top(vm, 0)]

\* MakeTuple, MakeData and MakeCons from the n values on top.
Build(vm, n, v) ==
  IF Has(vm, n) THEN Replace(vm, n, [v EXCEPT !.c = SubSeq(vm.stack, Depth(vm) - n + 1, Depth(vm))])
  ELSE Fail(vm, "underflow")

Concat(vm) ==
  CASE ~Has(vm, 2) -> Fail(vm, "underflow")
    [] Has(vm, 2) /\ ~Both(vm, "String") -> Fail(vm, "type")
    [] OTHER -> Replace(vm, 2, StrV(Top(vm, 1).v \o Top(vm, 0).v))

Equality(vm, wanted) ==
  IF Has(vm, 2) THEN Replace(vm, 2, Bool(ValuesEqual(Top(vm, 1), Top(vm, 0)) = wanted))
  ELSE Fail(vm, "underflow")

OnBool(vm) ==
  CASE ~Has(vm, 1) -> Fail(vm, "underflow")
    [] Has(vm, 1) /\ Top(vm, 0).k # "Bool" -> Fail(vm, "type")
    [] OTHER -> Replace(vm, 1, Bool(Top(vm, 0).n = 0))

\* Loads and stores; v is the machine past the instruction.
Loads == {"Const", "Unit", "True", "False", "GetLocal", "GetUpvalue", "GetGlobal", "GetLocalField",
          "GetField"}
Load(vm, ins) ==
  CASE ins.op = "Const" -> Push(vm, ins.x)
    [] ins.op = "Unit" -> Push(vm, UnitV)
    [] ins.op \in {"True", "False"} -> Push(vm, Bool(ins.op = "True"))
    [] ins.op = "GetLocal" -> IF HasLocal(vm, ins.n) THEN Push(vm, Local(vm, ins.n)) ELSE Fail(vm, "code")
    [] ins.op = "GetUpvalue" -> IF ins.n < Len(FrameOf(vm).caps) THEN Push(vm, FrameOf(vm).caps[ins.n + 1])
                                ELSE Fail(vm, "code")
    [] ins.op = "GetGlobal" -> IF vm.globals[ins.n + 1] = Undefined THEN Fail(vm, "undefined")
                               ELSE Push(vm, vm.globals[ins.n + 1])
    [] ins.op = "GetLocalField" -> IF HasLocal(vm, ins.n) THEN Field(vm, Local(vm, ins.n), ins.m, 0)
                                   ELSE Fail(vm, "code")
    [] OTHER -> IF Has(vm, 1) THEN Field(vm, Top(vm, 0), ins.n, 1) ELSE Fail(vm, "underflow")

Step(vm, prog) ==
  LET f == FrameOf(vm)
      code == Code(prog, f.proto)
      ins == code[f.ip]
      v == Goto([vm EXCEPT !.work = @ + 1], f.ip + 1)
  IN IF f.ip > Len(code) THEN Fail(vm, "code")
     ELSE
       CASE ins.op = "Halt" -> Fail(v, "done")
       [] ins.op \in Loads -> Load(v, ins)
       [] ins.op = "SetLocal" -> SetLocal(v, ins.n)
       [] ins.op = "SetGlobal" -> SetGlobalSlot(v, ins.n)
       [] ins.op = "Pop" ->
            IF Has(v, 1) THEN Cut(v, Depth(v) - 1) ELSE Fail(v, "underflow")
       [] ins.op \in IntOps -> Arithmetic(v, ins.op, "Int")
       [] ins.op \in WordOps -> Arithmetic(v, ins.op, "Word")
       [] ins.op \in IntTests -> Comparison(v, ins.op, "Int")
       [] ins.op \in WordTests -> Comparison(v, ins.op, "Word")
       [] ins.op = "Neg" -> Negate(v)
       [] ins.op \in {"Eq", "Ne"} -> Equality(v, ins.op = "Eq")
       [] ins.op = "ConcatString" -> Concat(v)
       [] ins.op = "Not" -> OnBool(v)
       [] ins.op = "MakeTuple" -> Build(v, ins.n, TupleV(<<>>))
       [] ins.op = "MakeData" -> Build(v, ins.m, DataV(ins.n, <<>>))
       [] ins.op = "MakeCons" -> Build(v, 2, DataV(1, <<>>))
       [] ins.op \in Jumps -> JumpStep(v, ins)
       [] ins.op = "MakeClosure" ->
            Closures(v, <<[proto |-> ins.n, upvalues |-> ins.l]>>)
       [] ins.op = "MakeRecClosures" -> Closures(v, ins.l)
       [] ins.op = "Call" -> Call(v, ins.n, prog)
       [] ins.op = "TailCall" -> TailCall(v, ins.n, prog)
       [] ins.op \in {"CallDirect", "CallSelf", "TailCallDirect", "TailCallSelf"} ->
            DirectCall(v, ins, prog)
       [] ins.op = "Return" -> Return(v)
       [] ins.op = "Panic" -> Fail(v, "match")
       [] ins.op = "InstallHandler" -> InstallHandler(v, ins.l)
       [] ins.op = "RemoveHandler" ->
            IF v.handlers = <<>> THEN v ELSE [v EXCEPT !.handlers = Front(@)]
       [] OTHER -> Perform(v, ins.n, prog)

=============
