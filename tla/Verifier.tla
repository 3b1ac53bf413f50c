------------------------------ MODULE Verifier ------------------------------
(***************************************************************************)
(* The bytecode verifier (hiko-vm/src/verify.rs).  Each instruction's       *)
(* operands are checked, then the stack depth is followed along all paths,  *)
(* keeping the smallest depth per instruction; Follow is one turn of that   *)
(* loop.  Opcode bytes, truncated operands and the constant pool are left   *)
(* out.                                                                     *)
(***************************************************************************)
EXTENDS Bytecode, TLC

CodeOf(prog, proto) == IF proto = 0 THEN prog.main ELSE prog.functions[proto].code
LocalsOf(prog, proto) == IF proto = 0 THEN prog.locals ELSE prog.functions[proto].locals
CapturesOf(prog, proto) == IF proto = 0 THEN 0 ELSE prog.functions[proto].captures
ArityOf(prog, proto) == IF proto = 0 THEN 0 ELSE prog.functions[proto].arity

Binary == IntOps \cup WordOps \cup IntTests \cup WordTests \cup {"Eq", "Ne", "ConcatString", "MakeCons"}
Calls == {"CallDirect", "CallSelf", "TailCallDirect", "TailCallSelf"}
\* The function a direct call enters.
Callee(ins, proto) == IF ins.op \in {"CallSelf", "TailCallSelf"} THEN proto ELSE ins.n

\* StackRule: the least depth, and the change of depth; a terminal rule has none.
Exact(min, delta) == [min |-> min, delta |-> delta, terminal |-> FALSE]
Terminal(min) == [min |-> min, delta |-> 0, terminal |-> TRUE]
StackRule(ins, proto, prog) ==
  CASE ins.op \in {"Halt", "Panic"} -> Terminal(0)
    [] ins.op \in {"Const", "Unit", "True", "False", "GetUpvalue", "GetGlobal", "MakeClosure"} -> Exact(0, 1)
    [] ins.op \in {"GetLocal", "GetLocalField"} -> Exact(ins.n + 1, 1)
    [] ins.op = "SetLocal" -> Exact(ins.n + 2, -1)
    [] ins.op \in {"SetGlobal", "Pop", "JumpIfFalse"} -> Exact(1, -1)
    [] ins.op \in Binary -> Exact(2, -1)
    [] ins.op \in {"Neg", "Not", "GetField", "Perform"} -> Exact(1, 0)
    [] ins.op = "MakeTuple" -> Exact(ins.n, 1 - ins.n)
    [] ins.op = "MakeData" -> Exact(ins.m, 1 - ins.m)
    [] ins.op = "JumpIfLocalNotTag" -> Exact(ins.n + 1, 0)
    [] ins.op \in Jumps \ {"Jump", "JumpIfFalse", "JumpIfLocalNotTag"} -> Exact(2, -2)
    [] ins.op = "MakeRecClosures" -> Exact(0, Len(ins.l))
    [] ins.op = "Call" -> Exact(ins.n + 1, -ins.n)
    [] ins.op = "TailCall" -> Terminal(ins.n + 1)
    [] ins.op = "Return" -> Terminal(1)
    [] ins.op \in {"CallDirect", "CallSelf"} ->
         Exact(ArityOf(prog, Callee(ins, proto)), 1 - ArityOf(prog, Callee(ins, proto)))
    [] ins.op \in {"TailCallDirect", "TailCallSelf"} -> Terminal(ArityOf(prog, Callee(ins, proto)))
    [] OTHER -> Exact(0, 0)

Successors(ins, ip) ==
  CASE ins.op = "Jump" -> {ins.m}
    [] ins.op \in Jumps \ {"Jump"} -> {ins.m, ip + 1}
    [] ins.op \in {"Halt", "Return", "TailCall", "TailCallSelf", "TailCallDirect"} -> {}
    [] OTHER -> {ip + 1}
ClauseTargets(ins) ==
  IF ins.op = "InstallHandler" THEN {ins.l[i].at : i \in {j \in DOMAIN ins.l : ~ins.l[j].provider}} ELSE {}

CaptureFits(up, proto, prog, group) ==
  up.i < CASE up.from = "local" -> LocalsOf(prog, proto)
           [] up.from = "upvalue" -> CapturesOf(prog, proto)
           [] up.from = "group" -> group
ClosureFits(target, upvalues, proto, prog, group) ==
  /\ target \in DOMAIN prog.functions
  /\ Len(upvalues) = prog.functions[target].captures
  /\ \A u \in DOMAIN upvalues : CaptureFits(upvalues[u], proto, prog, group)

\* decode_instruction's and decode_chunk's checks.
Decodes(ins, ip, proto, prog) ==
  /\ CASE ins.op \in {"GetLocal", "SetLocal", "GetLocalField", "JumpIfLocalNotTag"} ->
            ins.n < LocalsOf(prog, proto)
       [] ins.op = "GetUpvalue" -> ins.n < CapturesOf(prog, proto)
       [] ins.op \in {"GetGlobal", "SetGlobal"} -> ins.n < Len(prog.globals)
       [] ins.op = "MakeClosure" -> ClosureFits(ins.n, ins.l, proto, prog, 0)
       [] ins.op = "MakeRecClosures" ->
            ins.l # <<>> /\ \A i \in DOMAIN ins.l :
                              ClosureFits(ins.l[i].proto, ins.l[i].upvalues, proto, prog, Len(ins.l))
       [] ins.op \in Calls -> Callee(ins, proto) \in DOMAIN prog.functions
       [] ins.op = "InstallHandler" -> \A i \in DOMAIN ins.l : ins.l[i].tag \in prog.effects
       [] ins.op = "Perform" -> ins.n \in prog.effects
       [] OTHER -> TRUE
  /\ Successors(ins, ip) \cup ClauseTargets(ins) \subseteq DOMAIN CodeOf(prog, proto)
DecodeChunk(proto, prog) ==
  \A ip \in DOMAIN CodeOf(prog, proto) : Decodes(CodeOf(prog, proto)[ip], ip, proto, prog)

-----------------------------------------------------------------------------
\* The chunks are verified one after the other, the main one (0) first:
\* depths[<<proto, ip>>] is the least depth found so far.
At(ip, depth) == [ip |-> ip, depth |-> depth]
Begin(v, proto, prog) ==
  [v EXCEPT !.proto = proto,
            !.pending = IF CodeOf(prog, proto) = <<>> THEN <<>> ELSE <<At(1, ArityOf(prog, proto))>>,
            !.ok = @ /\ DecodeChunk(proto, prog)]
NewVerifier(prog) ==
  Begin([proto |-> 0, pending |-> <<>>, depths |-> [x \in {} |-> 0], ok |-> TRUE, done |-> FALSE], 0, prog)

\* Faulty: a clause is entered with its handler on the stack as well.
FollowDeepClause(v, prog) ==
  LET i == Head(v.pending)
      place == <<v.proto, i.ip>>
      ins == CodeOf(prog, v.proto)[i.ip]
      rule == StackRule(ins, v.proto, prog)
      next == IF rule.terminal THEN {} ELSE Successors(ins, i.ip)
  IN IF place \in DOMAIN v.depths /\ i.depth >= v.depths[place] THEN [v EXCEPT !.pending = Tail(@)]
     ELSE [v EXCEPT !.depths = (place :> i.depth) @@ @,
                    !.pending = Tail(@) \o SetToSeq({At(t, i.depth + rule.delta) : t \in next})
                                  \o SetToSeq({At(t, i.depth + 3) : t \in ClauseTargets(ins)}),
                    !.ok = i.depth >= rule.min]

\* One turn of verify_stack_effects.
Follow(v, prog) ==
  LET i == Head(v.pending)
      place == <<v.proto, i.ip>>
      ins == CodeOf(prog, v.proto)[i.ip]
      rule == StackRule(ins, v.proto, prog)
      next == IF rule.terminal THEN {} ELSE Successors(ins, i.ip)
      provided == ins.op # "InstallHandler"
                    \/ \A j \in DOMAIN ins.l : ins.l[j].provider => ins.l[j].at < i.depth
  IN IF place \in DOMAIN v.depths /\ i.depth >= v.depths[place] THEN [v EXCEPT !.pending = Tail(@)]
     ELSE [v EXCEPT !.depths = (place :> i.depth) @@ @,
                    !.pending = Tail(@) \o SetToSeq({At(t, i.depth + rule.delta) : t \in next})
                                  \o SetToSeq({At(t, i.depth + 2) : t \in ClauseTargets(ins)}),
                    !.ok = provided /\ i.depth >= rule.min]

\* verify_program: the next turn, or the next chunk.
VerifyStep(v, prog) ==
  CASE ~v.ok \/ (v.pending = <<>> /\ v.proto = Len(prog.functions)) -> [v EXCEPT !.done = TRUE]
    [] v.ok /\ v.pending = <<>> /\ v.proto < Len(prog.functions) -> Begin(v, v.proto + 1, prog)
    [] OTHER -> Follow(v, prog)

=============================================================================
