----------------------------- MODULE RegisterVm -----------------------------
(***************************************************************************)
(* The register machine (hiko-vm/src/vm/register.rs).  Functions whose      *)
(* instructions allow it are translated to register code, one instruction   *)
(* per TranslateStep; the machine runs those on registers and the others as *)
(* StackVm does, in slices of fuel.  Register r of a frame is the stack     *)
(* slot base + r.  Constants are carried by their instructions.             *)
(***************************************************************************)
EXTENDS StackVm, FiniteSets

CONSTANT SliceFuel  \* the fuel of a slice, at least 1

LOCAL V == INSTANCE Verifier

\* RegOp and its operands: registers dst, a and b, a value or the operator x,
\* the function or jump target n, and the number of arguments b of a call.
Reg(op, dst, a, b, x, n) ==
  [op |-> op, dst |-> dst, a |-> a, b |-> b, x |-> x, n |-> n, weight |-> 0, peak |-> 0]
Move(dst, src) == Reg("Move", dst, src, 0, UnitV, 0)
LoadConst(dst, x) == Reg("LoadConst", dst, 0, 0, x, 0)

\* Entry: the register that holds a stack position's value, or its constant.
NoReg == -1
InReg(r) == [reg |-> r, x |-> UnitV]
Known(x) == [reg |-> NoReg, x |-> x]
InOrder(d) == [k \in 1..d |-> InReg(k - 1)]
\* The instruction that puts an entry into a register.
Put(dst, e) == IF e.reg = NoReg THEN LoadConst(dst, e.x) ELSE Move(dst, e.reg)

\* A translated function; one that did not translate has no code.
Untranslated == [code |-> <<>>, regs |-> 0]
IsRegister(f) == f.code # <<>>

-----------------------------------------------------------------------------
(* Translation of one function: first the stack depth of every instruction  *)
(* (work, depth), then the instructions in order (at).                      *)

NewTranslation(prog, proto, done) ==
  [proto |-> proto, done |-> done, ok |-> Code(prog, proto) # <<>>,
   work |-> <<<<1, V!ArityOf(prog, proto)>>>>, depth |-> [i \in {} |-> 0],
   at |-> 1, code |-> <<>>, stack |-> <<>>, pending |-> 0, peak |-> 0, flows |-> FALSE,
   pcs |-> [i \in {} |-> 0]]

Refuse(t) == [t EXCEPT !.ok = FALSE]

\* One turn of the depth analysis: every path must agree on an instruction's
\* depth.
FollowDepth(t, prog) ==
  LET ip == Head(t.work)[1]
      d == Head(t.work)[2]
      ins == Code(prog, t.proto)[ip]
      rule == V!StackRule(ins, t.proto, prog)
      next == IF rule.terminal THEN {} ELSE V!Successors(ins, ip)
  IN CASE ip \in DOMAIN t.depth /\ t.depth[ip] = d -> [t EXCEPT !.work = Tail(@)]
       [] ip \in DOMAIN t.depth /\ t.depth[ip] # d -> Refuse(t)
       [] OTHER -> IF d + rule.delta < 0 THEN Refuse(t)
                   ELSE [t EXCEPT !.depth = (ip :> d) @@ @,
                                  !.work = SetToSeq({<<i, d + rule.delta>> : i \in next}) \o Tail(@)]

\* emit: an instruction that does the work of the pending stack instructions.
Emit(t, ins) ==
  [t EXCEPT !.code = Append(@, [ins EXCEPT !.weight = t.pending, !.peak = t.peak]),
            !.pending = 0, !.peak = 0]
Spill(t, ins) == [t EXCEPT !.code = Append(@, ins)]
PushEntry(t, e) == [t EXCEPT !.stack = Append(@, e)]
PopEntries(t, n) == [t EXCEPT !.stack = SubSeq(@, 1, Len(@) - n)]

\* Entries of the positions (from 0) in ks get their own registers, in order.
SpillAt(t, ks) ==
  LET order == SetToSortSeq(ks, LAMBDA x, y : x < y)
  IN [t EXCEPT !.code = @ \o [i \in DOMAIN order |-> Put(order[i], t.stack[order[i] + 1])],
               !.stack = [k \in DOMAIN @ |-> IF k - 1 \in ks THEN InReg(k - 1) ELSE @[k]]]
Materialize(t) == SpillAt(t, {k \in 0..Len(t.stack) - 1 : t.stack[k + 1] # InReg(k)})

\* operand: the register of an entry popped from a position, and its load.
OperandReg(e, pos) == IF e.reg = NoReg THEN pos ELSE e.reg
LoadOperand(t, e, pos) == IF e.reg = NoReg THEN Spill(t, Put(pos, e)) ELSE t

\* Arithmetic, comparisons and conditional jumps on two integers: dst is where
\* the result of one that has a result goes.
OnTwo(t, ins) ==
  LET n == Len(t.stack)
      lhs == t.stack[n - 1]
      rhs == t.stack[n]
      popped == IF ins.op \in Jumps THEN Materialize(PopEntries(t, 2)) ELSE PopEntries(t, 2)
      loaded == LoadOperand(LoadOperand(popped, lhs, n - 2), rhs, n - 1)
      emitted == Emit(loaded, Reg(ins.op, n - 2, OperandReg(lhs, n - 2), OperandReg(rhs, n - 1), UnitV, ins.m))
  IN IF n < 2 THEN Refuse(t)
     ELSE IF ins.op \in Jumps THEN emitted ELSE PushEntry(emitted, InReg(n - 2))

OnFalse(t, ins) ==
  LET n == Len(t.stack)
      cond == t.stack[n]
      loaded == LoadOperand(Materialize(PopEntries(t, 1)), cond, n - 1)
  IN IF n < 1 THEN Refuse(t)
     ELSE Emit(loaded, Reg(ins.op, 0, OperandReg(cond, n - 1), 0, UnitV, ins.m))

\* SetLocal: entries that still read the slot's old value keep it.
StoreSlot(t, slot) ==
  LET value == Last(t.stack)
      popped == PopEntries(t, 1)
      kept == SpillAt(popped, {k \in 0..Len(popped.stack) - 1 : k # slot /\ popped.stack[k + 1] = InReg(slot)})
      stored == IF value = InReg(slot) THEN kept ELSE Emit(kept, Put(slot, value))
  IN IF Len(t.stack) < slot + 2 THEN Refuse(t) ELSE [stored EXCEPT !.stack[slot + 1] = InReg(slot)]

Tails == {"TailCallDirect", "TailCallSelf"}
Calling(t, ins, prog) ==
  LET args == V!ArityOf(prog, V!Callee(ins, t.proto))
      ready == Materialize(t)
      first == Len(t.stack) - args
      called == Emit(ready, Reg(ins.op, first, first, args, UnitV, V!Callee(ins, t.proto)))
  IN IF first < 0 THEN Refuse(t)
     ELSE IF ins.op \in Tails THEN [called EXCEPT !.flows = FALSE]
     ELSE [called EXCEPT !.stack = Append(SubSeq(@, 1, first), InReg(first))]

Returning(t) ==
  LET n == Len(t.stack)
      loaded == LoadOperand(t, t.stack[n], n - 1)
  IN IF n < 1 THEN Refuse(t)
     ELSE [Emit(loaded, Reg("Return", 0, OperandReg(t.stack[n], n - 1), 0, UnitV, 0)) EXCEPT !.flows = FALSE]

\* Faulty: a target reached by falling through finds constants and copies unwritten.
ArriveUnwritten(t, ip, prog) ==
  LET code == Code(prog, t.proto)
      target == \E i \in DOMAIN code : code[i].op \in Jumps /\ code[i].m = ip
      charged == IF t.pending > 0 THEN Emit(t, Reg("Nop", 0, 0, 0, UnitV, 0)) ELSE t
      met == IF target /\ t.flows THEN charged ELSE t
      fresh == [met EXCEPT !.stack = InOrder(t.depth[ip])]
  IN IF target THEN [fresh EXCEPT !.pcs = (ip :> Len(met.code) + 1) @@ @]
     ELSE IF t.flows THEN t ELSE fresh

\* A jump target is reached with every entry in its own register; the work
\* still pending before it is charged there.
Arrive(t, ip, prog) ==
  LET code == Code(prog, t.proto)
      target == \E i \in DOMAIN code : code[i].op \in Jumps /\ code[i].m = ip
      ready == Materialize(t)
      charged == IF ready.pending > 0 THEN Emit(ready, Reg("Nop", 0, 0, 0, UnitV, 0)) ELSE ready
      met == IF target /\ t.flows THEN charged ELSE t
      fresh == [met EXCEPT !.stack = InOrder(t.depth[ip])]
  IN IF target THEN [fresh EXCEPT !.pcs = (ip :> Len(met.code) + 1) @@ @]
     ELSE IF t.flows THEN t ELSE fresh

Ends(t, op) == [Emit(t, Reg(op, 0, 0, 0, UnitV, 0)) EXCEPT !.flows = FALSE]
Translated(t, ins, prog) ==
  CASE ins.op = "Const" /\ ins.x.k # "String" -> PushEntry(t, Known(ins.x))
    [] ins.op = "Unit" -> PushEntry(t, Known(UnitV))
    [] ins.op \in {"True", "False"} -> PushEntry(t, Known(Bool(ins.op = "True")))
    [] ins.op = "GetLocal" -> IF ins.n < Len(t.stack) THEN PushEntry(t, t.stack[ins.n + 1]) ELSE Refuse(t)
    [] ins.op = "SetLocal" -> StoreSlot(t, ins.n)
    [] ins.op = "Pop" -> IF t.stack = <<>> THEN Refuse(t) ELSE PopEntries(t, 1)
    [] ins.op \in {"AddInt", "SubInt", "MulInt"} \cup IntTests
         \cup {"JumpIfNotLtInt", "JumpIfNotGtInt", "JumpIfNotLeInt", "JumpIfNotGeInt"} -> OnTwo(t, ins)
    [] ins.op = "JumpIfFalse" -> OnFalse(t, ins)
    [] ins.op = "Jump" -> [Emit(Materialize(t), Reg("Jump", 0, 0, 0, UnitV, ins.m)) EXCEPT !.flows = FALSE]
    [] ins.op \in V!Calls -> Calling(t, ins, prog)
    [] ins.op = "Return" -> Returning(t)
    [] ins.op \in {"Panic", "Halt"} -> Ends(t, ins.op)
    [] OTHER -> Refuse(t)

\* The next instruction's work is pending, and the depth it needs.
Begun(t, depth) == [t EXCEPT !.pending = @ + 1, !.peak = IF depth > @ THEN depth ELSE @, !.flows = TRUE]
TranslateIns(t, prog) ==
  LET ip == t.at
      ins == Code(prog, t.proto)[ip]
      rule == V!StackRule(ins, t.proto, prog)
      deepest == IF rule.delta > 0 THEN t.depth[ip] + rule.delta ELSE 0
  IN IF ip \notin DOMAIN t.depth THEN [t EXCEPT !.flows = FALSE, !.at = ip + 1]
     ELSE [Translated(Begun(Arrive(t, ip, prog), deepest), ins, prog) EXCEPT !.at = ip + 1]

\* The jumps patched, and every register and target checked.
Finish(t, prog) ==
  LET code == Code(prog, t.proto)
      after(ip) == t.depth[ip] + V!StackRule(code[ip], t.proto, prog).delta
      depths == {1, V!ArityOf(prog, t.proto)} \cup {after(ip) : ip \in DOMAIN t.depth}
      regs == CHOOSE d \in depths : \A e \in depths : d >= e
      patched == [i \in DOMAIN t.code |->
                    IF t.code[i].op \in Jumps /\ t.code[i].n \in DOMAIN t.pcs
                    THEN [t.code[i] EXCEPT !.n = t.pcs[@]] ELSE t.code[i]]
      fits(r) == /\ r.dst < regs /\ r.a < regs
                 /\ IF r.op \in V!Calls THEN r.a + r.b <= regs ELSE r.b < regs
                 /\ r.op \in Jumps => r.n \in DOMAIN t.code
      sound == /\ \A i \in DOMAIN t.code : t.code[i].op \in Jumps => t.code[i].n \in DOMAIN t.pcs
               /\ \A i \in DOMAIN patched : fits(patched[i])
  IN IF t.ok /\ sound THEN [code |-> patched, regs |-> regs] ELSE Untranslated

\* RegisterCode.translate: done has the functions translated so far, the main
\* code first.
NextFunction(t, prog, done) ==
  IF t.proto = Len(prog.functions) THEN [t EXCEPT !.proto = @ + 1, !.done = done]
  ELSE NewTranslation(prog, t.proto + 1, done)
TranslateStep(t, prog) ==
  CASE t.ok /\ t.work # <<>> -> FollowDepth(t, prog)
    [] t.ok /\ t.work = <<>> /\ t.at <= Len(Code(prog, t.proto)) -> TranslateIns(t, prog)
    [] OTHER -> NextFunction(t, prog, Append(t.done, Finish(t, prog)))
AllTranslated(t, prog) == t.proto > Len(prog.functions)

-----------------------------------------------------------------------------
(* Execution                                                                *)

\* The machine, the fuel left in the slice, and what has been paid towards the
\* next register instruction.
NewMachine(prog) == [vm |-> NewVm(prog), fuel |-> SliceFuel, paid |-> 0]

\* A register frame owns its registers.
Resize(vm, regs) ==
  LET top == FrameOf(vm).base + regs
  IN [vm EXCEPT !.stack = [i \in 1..top |-> IF i <= Depth(vm) THEN vm.stack[i] ELSE UnitV]]
SetReg(vm, r, v) == [vm EXCEPT !.stack[LocalAt(vm, r)] = v]

ShiftArgs(vm, first, args) ==
  LET base == FrameOf(vm).base
  IN [vm EXCEPT !.stack = [i \in DOMAIN @ |-> IF i > base /\ i <= base + args THEN @[i + first] ELSE @[i]]]

Enter(vm, ins) ==
  LET f == FrameOf(vm)
      at == f.base + ins.a
  IN IF Len(vm.frames) >= MaxCallFrames THEN Fail(vm, "overflow")
     ELSE [Cut(vm, at + ins.b) EXCEPT
             !.frames = Append(@, Frame(ins.n, at, IF ins.op = "CallSelf" THEN f.caps ELSE <<>>))]

\* One register instruction; vm's frame is already past it.
Execute(vm, ins) ==
  LET a == Local(vm, ins.a)
      b == Local(vm, ins.b)
      ints == a.k = "Int" /\ b.k = "Int"
      f == FrameOf(vm)
  IN CASE ins.op = "Nop" -> vm
       [] ins.op = "LoadConst" -> SetReg(vm, ins.dst, ins.x)
       [] ins.op = "Move" -> SetReg(vm, ins.dst, a)
       [] ins.op \in IntOps -> IF ~ints THEN Fail(vm, "type")
                               ELSE IF Checked(OpName[ins.op], a.n, b.n)
                               THEN SetReg(vm, ins.dst, IntV(Arith(OpName[ins.op], a.n, b.n)))
                               ELSE Fail(vm, "range")
       [] ins.op \in IntTests -> IF ints THEN SetReg(vm, ins.dst, Bool(Compares(OpName[ins.op], a.n, b.n)))
                                 ELSE Fail(vm, "type")
       [] ins.op = "Jump" -> Goto(vm, ins.n)
       [] ins.op = "JumpIfFalse" -> IF a.k # "Bool" THEN Fail(vm, "type")
                                    ELSE IF a.n = 0 THEN Goto(vm, ins.n) ELSE vm
       [] ins.op \in Jumps \ {"Jump", "JumpIfFalse"} ->
            IF ~ints THEN Fail(vm, "type")
            ELSE IF Compares(OpName[ins.op], a.n, b.n) THEN vm ELSE Goto(vm, ins.n)
       [] ins.op \in {"CallDirect", "CallSelf"} -> Enter(vm, ins)
       [] ins.op = "TailCallDirect" ->
            [Cut(ShiftArgs(vm, ins.a, ins.b), f.base + ins.b) EXCEPT
               !.frames[Len(vm.frames)] = Frame(ins.n, f.base, <<>>)]
       [] ins.op = "TailCallSelf" -> Goto(ShiftArgs(vm, ins.a, ins.b), 1)
       [] ins.op = "Return" -> Return([vm EXCEPT !.stack = Append(@, a)])
       [] ins.op = "Panic" -> Fail(vm, "match")
       [] OTHER -> Fail(vm, "done")

\* A register instruction is paid for before it runs, in part when the slice
\* has too little fuel left for it.
RegisterStep(m, fn) ==
  LET f == FrameOf(m.vm)
      ins == fn.code[f.ip]
      due == ins.weight - m.paid
      ready == [Resize(m.vm, fn.regs) EXCEPT !.work = @ + due]
  IN IF m.fuel < due
     THEN [m EXCEPT !.paid = @ + m.fuel, !.vm.work = @ + m.fuel, !.fuel = SliceFuel]
     ELSE [vm |-> IF f.base + ins.peak > MaxStackSlots THEN Fail(ready, "overflow")
                  ELSE Execute(Goto(ready, f.ip + 1), ins),
           fuel |-> m.fuel - due, paid |-> 0]

\* dispatch: the top frame runs register code, or one stack instruction.
MachineStep(m, functions, prog) ==
  LET fn == functions[FrameOf(m.vm).proto + 1]
  IN CASE IsRegister(fn) -> RegisterStep(m, fn)
       [] ~IsRegister(fn) /\ m.fuel = 0 -> [m EXCEPT !.fuel = SliceFuel]
       [] OTHER -> [m EXCEPT !.vm = Step(@, prog), !.fuel = @ - 1]

=============================================================================
