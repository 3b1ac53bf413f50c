---------------------------- MODULE ProcessHeaps ----------------------------
(***************************************************************************)
(* A parent and a child process, each with a heap of its own.  The opcodes  *)
(* that allocate, or that move values between the places the collector      *)
(* treats as roots (vm/gc.rs, vm/dispatch.rs); `spawn`, which sends a       *)
(* closure's captures and the parent's globals (vm/builtins.rs,             *)
(* vm/child_globals.rs); a child's reads of an inherited global; and its    *)
(* result, delivered to the parent.                                         *)
(***************************************************************************)
EXTENDS Messages

CONSTANTS
  Ops,          \* process -> the operations its program uses
  MaxStack, MaxHeld, MaxSpawns, MaxAllocs   \* bounds

Parent == 1
Child == 2
Procs == {Parent, Child}

VARIABLES
  vm,       \* process -> what its interpreter holds
  heap,     \* process -> its heap
  spawns,   \* children created so far
  allocs    \* opcodes so far that allocate

vars == <<vm, heap, spawns, allocs>>

NoGlobal == -1
Unset == <<"unset">>

\* One global slot, one string constant.  `held` are the capture arrays of the
\* frames, the handlers and the hidden handlers.  `defined` is the entry of
\* defined_globals, `sendable` its cached form, `snapshot` spawn_snapshot.
NewVm ==
  [state |-> "running", stack |-> <<>>, held |-> <<>>, global |-> NoGlobal, constant |-> 0, defined |-> FALSE,
   sendable |-> Unset, snapshot |-> Unset, inherited |-> Unset, result |-> Unset]

Absent == [NewVm EXCEPT !.state = "absent"]

Init ==
  /\ vm = [p \in Procs |-> IF p = Parent THEN NewVm ELSE Absent]
  /\ heap = [p \in Procs |-> NewHeap]
  /\ spawns = 0 /\ allocs = 0

-----------------------------------------------------------------------------
(* Roots and allocation (vm/gc.rs)                                          *)

\* Faulty: what frames and handlers captured is not a root.
RootsWithoutHeld(m) ==
  RefsIn(m.stack) \cup RefsIn(<<m.constant>>)
    \cup (IF m.global = NoGlobal THEN {} ELSE RefsIn(<<m.global>>))

Roots(m) ==
  RefsIn(m.stack) \cup UNION {RefsIn(m.held[i]) : i \in DOMAIN m.held}
    \cup (IF m.global = NoGlobal THEN {} ELSE RefsIn(<<m.global>>))
    \cup RefsIn(<<m.constant>>)

\* Faulty: the references of the object being allocated are not roots.
RoomWithoutExtraRoots(h, m, object) ==
  IF ShouldCollect(h) \/ AllocationWouldExceed(h) THEN Collect(h, Roots(m)) ELSE h

\* The heap in which VM::alloc places the object.
Room(h, m, object) ==
  IF ShouldCollect(h) \/ AllocationWouldExceed(h)
  THEN Collect(h, Roots(m) \cup RefsOf(object))
  ELSE h

AtBoundary(h, m) ==
  IF ShouldCollectAtBoundary(h) THEN Collect(h, Roots(m)) ELSE h

\* A failed process is dropped with its heap, and its children with it.
Fail(p) ==
  /\ vm' = [q \in Procs |-> IF q = p THEN [Absent EXCEPT !.state = "failed"]
                            ELSE IF p = Parent THEN Absent ELSE vm[q]]
  /\ heap' = [q \in Procs |-> IF q = p \/ p = Parent THEN NewHeap ELSE heap[q]]

\* VM::alloc with interpreter state m; then push the new object and go on as
\* `after` says.
AllocAnd(p, m, object, After(_, _)) ==
  LET h == Room(heap[p], m, object) IN
  IF AllocationWouldExceed(h) THEN Fail(p)
  ELSE /\ heap' = [heap EXCEPT ![p] = Place(h, object)]
       /\ vm' = [vm EXCEPT ![p] = After(m, SlotFor(h))]

Push(m, v) == [m EXCEPT !.stack = Append(@, v)]
Popped(m, n) == [m EXCEPT !.stack = SubSeq(@, 1, Len(@) - n)]
Top(m) == Last(m.stack)
KindOf(p, v) == IF v = 0 THEN "scalar" ELSE heap[p].objects[v].kind

Running(p, op) == vm[p].state = "running" /\ op \in Ops[p]
Allocates(p, op) ==
  /\ Running(p, op) /\ allocs < MaxAllocs /\ allocs' = allocs + 1
Roomy(p) == Len(vm[p].stack) < MaxStack

-----------------------------------------------------------------------------
(* Opcodes that allocate                                                    *)

\* Const of a string: allocated on the first load, then cached.
Const(p) ==
  /\ Allocates(p, "const") /\ Roomy(p)
  /\ IF vm[p].constant # 0
     THEN vm' = [vm EXCEPT ![p] = Push(@, vm[p].constant)] /\ UNCHANGED heap
     ELSE AllocAnd(p, vm[p], Object("string", <<>>),
                   LAMBDA m, r : Push([m EXCEPT !.constant = r], r))
  /\ UNCHANGED spawns

\* MakeTuple, MakeData and MakeCons pop their fields before they allocate.
MakeData(p, kind, arity) ==
  LET m == vm[p]
      fields == SubSeq(m.stack, Len(m.stack) - arity + 1, Len(m.stack))
  IN /\ Allocates(p, kind) /\ Len(m.stack) >= arity
     /\ arity = 0 => Roomy(p)
     /\ kind = "cons" => KindOf(p, Top(m)) \in {"nil", "cons"}
     /\ AllocAnd(p, Popped(m, arity), Object(kind, fields), Push)
     /\ UNCHANGED spawns

\* MakeClosure over the value on top of the stack, which stays there.
MakeClosure(p) ==
  /\ Allocates(p, "closure") /\ vm[p].stack # <<>> /\ Roomy(p)
  /\ AllocAnd(p, vm[p], Object("closure", <<Top(vm[p])>>), Push)
  /\ UNCHANGED spawns

\* MakeRecClosures, for a function that captures itself: the closure exists
\* with Unit in place of the capture, then gets its final captures.
MakeRecClosures(p) ==
  LET m == vm[p]
      draft == Object("closure", <<0>>)
      h == Room(heap[p], m, draft)
      r == SlotFor(h)
  IN /\ Allocates(p, "rec") /\ Roomy(p)
     /\ IF AllocationWouldExceed(h) THEN Fail(p)
        ELSE /\ heap' = [heap EXCEPT ![p] =
                           SetClosureCaptures(Place(h, draft), r, <<r>>)]
             /\ vm' = [vm EXCEPT ![p] = Push(@, r)]
     /\ UNCHANGED spawns

\* A builtin that returns an Rng or a host handle allocates without a
\* collection.
CallBuiltin(p) ==
  /\ Allocates(p, "rng") /\ Roomy(p)
  /\ IF AllocationWouldExceed(heap[p]) THEN Fail(p)
     ELSE /\ vm' = [vm EXCEPT ![p] = Push(@, SlotFor(heap[p]))]
          /\ heap' = [heap EXCEPT ![p] = Place(@, Object("rng", <<>>))]
  /\ UNCHANGED spawns

-----------------------------------------------------------------------------
(* Opcodes that move values between roots                                   *)

\* What an opcode that allocates nothing leaves alone.
Moves(p, op, m) ==
  /\ Running(p, op)
  /\ vm' = [vm EXCEPT ![p] = m]
  /\ UNCHANGED <<heap, spawns, allocs>>

Pop(p) == vm[p].stack # <<>> /\ Moves(p, "pop", Popped(vm[p], 1))

\* Faulty: the snapshot of an earlier spawn survives a definition.
DefinedKeepingSnapshot(m, v) == [m EXCEPT !.global = v, !.defined = TRUE, !.sendable = Unset]

\* SetGlobal, with note_global_defined.
Defined(m, v) ==
  [m EXCEPT !.global = v, !.defined = TRUE, !.sendable = Unset, !.snapshot = Unset]

SetGlobal(p) ==
  /\ vm[p].stack # <<>>
  /\ Moves(p, "define", Defined(Popped(vm[p], 1), Top(vm[p])))

CapturesOf(p, v) == heap[p].objects[v].fields

\* Call and InstallHandler keep a closure's captures in the frame or handler
\* record, where they outlive the closure itself; Return, TailCall, Perform and
\* RemoveHandler let such a record go.
Hold(p) ==
  LET m == vm[p] IN
  /\ m.stack # <<>> /\ KindOf(p, Top(m)) = "closure" /\ Len(m.held) < MaxHeld
  /\ Moves(p, "call", [Popped(m, 1) EXCEPT !.held = Append(@, CapturesOf(p, Top(m)))])

Release(p) ==
  /\ vm[p].held # <<>>
  /\ Moves(p, "call", [vm[p] EXCEPT !.held = Front(@)])

\* The end of a slice: a collection if enough was allocated.
Yield(p) ==
  /\ Running(p, "yield")
  /\ ShouldCollectAtBoundary(heap[p])
  /\ heap' = [heap EXCEPT ![p] = AtBoundary(@, vm[p])]
  /\ UNCHANGED <<vm, spawns, allocs>>

-----------------------------------------------------------------------------
(* spawn                                                                    *)

\* refresh_spawn_snapshot
Snapshotted(m, h) ==
  LET own == IF m.sendable # Unset THEN m.sendable ELSE Serialize(h, m.global) IN
  CASE m.snapshot # Unset -> m
    [] m.snapshot = Unset /\ ~m.defined -> [m EXCEPT !.snapshot = m.inherited]
    [] OTHER -> [m EXCEPT !.snapshot = own, !.sendable = own]

\* serialize_shared
Shared(h, v) ==
  IF v \in DOMAIN h.sent THEN h.sent[v] ELSE Serialize(h, v)
Remembered(h, v, message) ==
  IF v = 0 \/ v \in DOMAIN h.sent THEN h
  ELSE RememberSent(h, v, message, Footprint(message))

\* check_message_size does not end on a recursive closure; the programs
\* considered send none.
Cyclic(h, v) == \E s \in Reached(h, {v} \ {0}) : s \in Reached(h, RefsOf(h.objects[s]))
Sendable(h, v) == ~Cyclic(h, v)

\* The spawn builtin with the closure on top of the stack; the suspension and
\* its collection; then handle_spawn and create_child.  A capture that cannot
\* be sent, or does not fit in the child, fails the parent.  The programs
\* considered await a child before they go on: the heaps share nothing.
Spawn(p) ==
  LET m == Snapshotted(vm[p], heap[p])
      v == CapturesOf(p, Top(vm[p]))[1]
      message == Shared(heap[p], v)
      sent == Remembered(heap[p], v, message)
      resumed == [m EXCEPT !.stack = Append(Front(@), 0)]
      child == Deserialize(NewHeap, message)
  IN /\ Running(p, "spawn") /\ p = Parent /\ vm[Child].state # "running"
     /\ spawns < MaxSpawns
     /\ vm[p].stack # <<>> /\ KindOf(p, Top(vm[p])) = "closure"
     /\ Sendable(heap[p], v)
     /\ vm[p].defined => Sendable(heap[p], vm[p].global)
     /\ spawns' = spawns + 1 /\ UNCHANGED allocs
     /\ IF message = Unsendable \/ ~child.ok THEN Fail(p)
        ELSE /\ heap' = [heap EXCEPT ![p] = AtBoundary(sent, resumed),
                                     ![Child] = child.heap]
             /\ vm' = [vm EXCEPT ![p] = [resumed EXCEPT !.state = "waiting"],
                          ![Child] = [NewVm EXCEPT !.inherited = m.snapshot,
                                        !.held = <<child.values>>,
                                        !.stack = <<0>>]]

\* GetGlobal, with load_global on the first read in a child.
GetGlobal(p) ==
  LET m == vm[p]
      b == Deserialize(heap[p], m.inherited)
  IN /\ Running(p, "global") /\ Roomy(p)
     /\ m.global # NoGlobal \/ m.inherited # Unset
     /\ CASE m.global # NoGlobal -> vm' = [vm EXCEPT ![p] = Push(@, m.global)] /\ UNCHANGED heap
          [] m.global = NoGlobal /\ m.inherited = Unsendable -> Fail(p)
          [] OTHER ->
               IF ~b.ok THEN Fail(p)
               ELSE /\ heap' = [heap EXCEPT ![p] = b.heap]
                    /\ vm' = [vm EXCEPT ![p] = Push([m EXCEPT !.global = b.values[1]], b.values[1])]
     /\ UNCHANGED <<spawns, allocs>>

\* The child finishes with the value on top of its stack; its VM is dropped.
Finish(p) ==
  LET message == Serialize(heap[p], Top(vm[p])) IN
  /\ Running(p, "finish") /\ p = Child /\ vm[p].stack # <<>>
  /\ Sendable(heap[p], Top(vm[p]))
  /\ vm' = [vm EXCEPT ![p] = [Absent EXCEPT
               !.state = IF message = Unsendable THEN "failed" ELSE "done",
               !.result = message]]
  /\ heap' = [heap EXCEPT ![p] = NewHeap]
  /\ UNCHANGED <<spawns, allocs>>

\* await_process: the parent resumes with the result rebuilt in its heap.
Await(p) ==
  LET b == Deserialize(heap[p], vm[Child].result) IN
  /\ p = Parent /\ vm[p].state = "waiting"
  /\ vm[Child].state \in {"done", "failed"}
  /\ IF vm[Child].state = "failed" \/ ~b.ok THEN Fail(p)
     ELSE /\ heap' = [heap EXCEPT ![p] = b.heap]
          /\ vm' = [vm EXCEPT ![p] = [@ EXCEPT !.state = "running", !.stack = Append(Front(@), b.values[1])],
                      ![Child] = Absent]
  /\ UNCHANGED <<spawns, allocs>>

Next ==
  \E p \in Procs :
    \/ Const(p) \/ MakeClosure(p) \/ MakeRecClosures(p) \/ CallBuiltin(p)
    \/ MakeData(p, "tuple", 2) \/ MakeData(p, "nil", 0) \/ MakeData(p, "cons", 2)
    \/ Pop(p) \/ SetGlobal(p) \/ GetGlobal(p)
    \/ Hold(p) \/ Release(p) \/ Yield(p) \/ Spawn(p) \/ Finish(p) \/ Await(p)

Spec == Init /\ [][Next]_vars

-----------------------------------------------------------------------------
(* Properties                                                               *)

IsRunning(p) == vm[p].state \in {"running", "waiting"}

\* Every reference an opcode may still read: whatever the roots of gc.rs are,
\* these are the places values live in.
Readable(m) ==
  UNION {RefsIn(m.held[i]) : i \in DOMAIN m.held}
    \cup RefsIn(m.stack \o <<m.constant, AtLeast(m.global, 0)>>)
Live(p) == Reached(heap[p], Readable(vm[p]))

\* Heap::get never meets a dangling GcRef: whatever the stack, the frames, the
\* globals, the handlers or the string cache reach is an occupied slot, and no
\* slot that alloc may hand out is occupied or listed twice.
NoDanglingRef ==
  \A p \in Procs : IsRunning(p) =>
    LET h == heap[p] IN
    /\ Readable(vm[p]) \subseteq Occupied(h)
    /\ \A s \in Live(p) : RefsOf(h.objects[s]) \subseteq Occupied(h)
    /\ \A i, j \in DOMAIN h.free : /\ h.free[i] \notin Occupied(h)
                                   /\ h.free[i] = h.free[j] => i = j

\* A collection inside an allocation, and the reuse of the slots it frees,
\* never change an object that the interpreter still reaches afterwards.
ReachableKept ==
  [][\A p \in Procs : IsRunning(p) /\ IsRunning(p)' =>
       \A s \in Live(p) \cap Live(p)' :
         heap'[p].objects[s] = heap[p].objects[s]]_vars

\* A cached message is what serializing the object again would give, although
\* slots are reused and closures rewritten; the cache keeps to its bound.
SentCacheCoherent ==
  \A p \in Procs :
    LET h == heap[p] IN
    /\ \A s \in DOMAIN h.sent : s \in Occupied(h) /\ Message(h, s) = h.sent[s]
    /\ h.sentBytes = MapThenSumSet(LAMBDA s : Footprint(h.sent[s]), DOMAIN h.sent)
    /\ h.sentBytes <= SentMax

\* A snapshot kept for later children always shows the global's present value,
\* and a global loaded from a snapshot is the value that was sent.
GlobalsAgree ==
  \A p \in Procs : IsRunning(p) =>
    LET m == vm[p] IN
    /\ m.snapshot # Unset =>
         m.snapshot = IF m.defined THEN Serialize(heap[p], m.global) ELSE m.inherited
    /\ m.global # NoGlobal /\ ~m.defined =>
         Message(heap[p], m.global) = m.inherited

\* What a child gets is what its parent held, and the other way round.
TransfersFaithful ==
  [][/\ spawns' # spawns /\ IsRunning(Parent)' =>
          Message(heap'[Child], Last(vm'[Child].held)[1])
            = Message(heap[Parent], CapturesOf(Parent, Top(vm[Parent]))[1])
     /\ vm[Child].state = "done" /\ vm'[Child].state = "absent" /\ IsRunning(Parent)' =>
          Message(heap'[Parent], Top(vm'[Parent])) = vm[Child].result]_vars

Sent ==
  {m \in UNION {{vm[p].snapshot, vm[p].inherited, vm[p].result} : p \in Procs} :
     m \notin {Unset, Unsendable}}

\* The memoized measure of a shared value is the size of the tree that is built
\* from it: nothing larger than max_message_bytes is ever built.
MessagesBounded ==
  /\ \A m \in Sent : Footprint(m) <= MaxMessage
  /\ \A p \in Procs : \A s \in DOMAIN heap[p].sent : Footprint(heap[p].sent[s]) <= MaxMessage

=============================================================================
