----------------------------- MODULE TreeBudgets -----------------------------
(***************************************************************************)
(* The budgets a process tree shares (hiko-vm/src/budget.rs) and the code   *)
(* that charges and refunds them: admission of a child, scheduling slices,  *)
(* heap allocation, host resources, collection, and the drop of a VM.       *)
(*                                                                          *)
(* Every process runs on the one thread that owns it; the counters are      *)
(* atomics, so each charge and each refund is a step of its own.            *)
(***************************************************************************)
EXTENDS Integers, FiniteSets, FiniteSetsExt

CONSTANTS
  Procs,   \* names for processes; the name of a dropped one is used again
  Root,
  Kinds,   \* kinds of host resources
  Limit,   \* budget -> its limit
  Slice,   \* reductions_per_slice
  Sizes,   \* estimated_bytes of an object
  Ops      \* what an opcode may do: "alloc", "handle", "collect", "spawn"

Counters == {"live", "spawns", "fuel", "mem", "res"}
Budgets == Counters \cup Kinds

ASSUME BudgetAssumption ==
  /\ IsFiniteSet(Procs) /\ Root \in Procs
  /\ IsFiniteSet(Kinds) /\ Kinds # {} /\ Kinds \cap Counters = {}
  /\ Limit \in [Budgets -> Nat]
  /\ Slice \in Nat \ {0} /\ Sizes \subseteq Nat \ {0}
  /\ Ops \subseteq {"alloc", "handle", "collect", "spawn"}

VARIABLES
  used,     \* SharedBudget::used of every budget
  pc,       \* process -> what its thread is doing
  child,    \* process -> the child it is admitting, itself if there is none
  slots,    \* processes that hold a BudgetSlot
  fuel,     \* process -> unspent fuel of its slice
  bytes,    \* process -> Heap::current_bytes
  count,    \* process -> host_resources.len()
  handles,  \* process -> kind -> host_resources_by_kind
  kind,     \* process -> kind of the resource being created or collected
  failing,  \* processes whose current slice ends in failure
  leaving,  \* processes whose slice is over and that collect before it returns
  left,     \* process -> kinds the Drop of its heap has yet to refund
  spent,    \* history: opcodes executed by the whole tree
  starved   \* history: a process has failed with FuelExhausted

vars == <<used, pc, child, slots, fuel, bytes, count, handles, kind, failing,
          leaving, left, spent, starved>>
heap == <<bytes, count, handles, kind>>
phase == <<leaving, left>>
history == <<spent, starved>>

Init ==
  /\ used = [b \in Budgets |-> 0]
  /\ pc = [p \in Procs |-> IF p = Root THEN "ready" ELSE "none"]
  /\ child = [p \in Procs |-> p] /\ slots = {}
  /\ fuel = [p \in Procs |-> 0] /\ bytes = [p \in Procs |-> 0]
  /\ count = [p \in Procs |-> 0]
  /\ handles = [p \in Procs |-> [k \in Kinds |-> 0]]
  /\ kind = [p \in Procs |-> CHOOSE k \in Kinds : TRUE]
  /\ failing = {} /\ leaving = {} /\ left = [p \in Procs |-> {}]
  /\ spent = 0 /\ starved = FALSE

At(p, label) == pc[p] = label
Goto(p, label) == pc' = [pc EXCEPT ![p] = label]

\* SharedBudget::try_charge, reserve_up_to and refund.
CanCharge(b, n) == used[b] + n <= Limit[b]
Charge(b, n) == used' = [used EXCEPT ![b] = @ + n]
UpTo(b, n) == IF n <= Limit[b] - used[b] THEN n ELSE Limit[b] - used[b]
Refund(b, n) == used' = [used EXCEPT ![b] = IF @ >= n THEN @ - n ELSE 0]

-----------------------------------------------------------------------------
(* run_slice                                                                *)

\* A process with a start-up error, or that has been cancelled, gets no slice.
Refuse(p) ==
  /\ At(p, "ready") /\ Goto(p, "drop")
  /\ UNCHANGED <<used, child, slots, fuel, heap, failing, phase, history>>

Reserve(p) ==
  LET n == UpTo("fuel", Slice) IN
  /\ At(p, "ready")
  /\ Charge("fuel", n)
  /\ fuel' = [fuel EXCEPT ![p] = n]
  /\ starved' = (starved \/ n = 0)
  /\ Goto(p, IF n = 0 THEN "drop" ELSE "start")
  /\ UNCHANGED <<child, slots, heap, failing, phase, spent>>

\* One opcode, and the allocation or collection it may cause.
Dispatch(p) ==
  /\ pc[p] \in {"start", "slice"} /\ fuel[p] > 0 /\ p \notin failing
  /\ fuel' = [fuel EXCEPT ![p] = @ - 1]
  /\ spent' = spent + 1
  /\ \E op \in {"slice"} \cup (Ops \ {"spawn"}) : Goto(p, op)
  /\ UNCHANGED <<used, child, slots, heap, failing, phase, starved>>

\* Where a process is after a slice that ended at a request or out of fuel.
Suspended == {"ready"} \cup (Ops \cap {"spawn"})

\* Faulty: what the slice did not use is not returned.
SliceKept(p) ==
  /\ At(p, "slice")
  /\ fuel' = [fuel EXCEPT ![p] = 0]
  /\ failing' = failing \ {p}
  /\ \E next \in {"ready", "drop"} : Goto(p, next)
  /\ UNCHANGED <<used, child, slots, heap, phase, history>>

\* The slice ends: out of fuel, at a request, finished or failed.  One that
\* fails may do so before its first opcode; one that is out of fuel or at a
\* request may collect before it returns.
EndSlice(p) ==
  LET fails == p \in failing \/ At(p, "start") IN
  /\ pc[p] \in {"start", "slice"}
  /\ Refund("fuel", fuel[p])
  /\ fuel' = [fuel EXCEPT ![p] = 0]
  /\ failing' = failing \ {p}
  /\ \/ Goto(p, "drop") /\ UNCHANGED leaving
     \/ /\ ~fails /\ Goto(p, "collect") /\ "collect" \in Ops
        /\ leaving' = leaving \cup {p}
     \/ /\ ~fails /\ UNCHANGED leaving
        /\ \E next \in Suspended : Goto(p, next)
  /\ UNCHANGED <<child, slots, heap, left, history>>

-----------------------------------------------------------------------------
(* create_child_vm_from_parent                                              *)

\* admit_child: BudgetSlot::acquire, then max_spawns.
AdmitLive(p) ==
  /\ At(p, "spawn")
  /\ \/ /\ CanCharge("live", 1)
        /\ \E c \in Procs :
             /\ At(c, "none") /\ c # Root
             /\ child' = [child EXCEPT ![p] = c]
             /\ slots' = slots \cup {c}
             /\ pc' = [pc EXCEPT ![p] = "spawns", ![c] = "new"]
        /\ Charge("live", 1)
     \/ /\ ~CanCharge("live", 1) /\ Goto(p, "drop")
        /\ UNCHANGED <<used, child, slots>>
  /\ UNCHANGED <<fuel, heap, failing, phase, history>>

AdmitSpawn(p) ==
  /\ At(p, "spawns")
  /\ \/ CanCharge("spawns", 1) /\ Charge("spawns", 1) /\ Goto(p, "captures")
     \/ ~CanCharge("spawns", 1) /\ Goto(p, "unadmit") /\ UNCHANGED used
  /\ UNCHANGED <<child, slots, fuel, heap, failing, phase, history>>

\* Faulty: the slot of a refused child is forgotten instead of dropped.
SlotForgotten(p) ==
  /\ At(p, "unadmit")
  /\ slots' = slots \ {child[p]}
  /\ pc' = [pc EXCEPT ![p] = "drop", ![child[p]] = "none"]
  /\ child' = [child EXCEPT ![p] = p]
  /\ UNCHANGED <<used, fuel, heap, failing, phase, history>>

\* The refused child's slot is dropped; the parent fails.
Unadmit(p) ==
  /\ At(p, "unadmit")
  /\ Refund("live", 1)
  /\ slots' = slots \ {child[p]}
  /\ pc' = [pc EXCEPT ![p] = "drop", ![child[p]] = "none"]
  /\ child' = [child EXCEPT ![p] = p]
  /\ UNCHANGED <<fuel, heap, failing, phase, history>>

\* Deserialize the captures, none or several, into the child's heap, which
\* draws on the tree's memory; when an object does not fit (there, or in the
\* heap's own max_objects, which is not modelled) the new VM is dropped with
\* what it has by then, and the parent fails.
Captures(p) ==
  LET c == child[p] IN
  /\ At(p, "captures")
  /\ \/ \E n \in Sizes :
          /\ CanCharge("mem", n) /\ Charge("mem", n)
          /\ bytes' = [bytes EXCEPT ![c] = @ + n]
          /\ UNCHANGED <<pc, child>>
     \/ \E next \in {"ready", "drop"} :
          /\ pc' = [pc EXCEPT ![p] = next, ![c] = next]
          /\ child' = [child EXCEPT ![p] = p]
          /\ UNCHANGED <<used, bytes>>
  /\ UNCHANGED <<slots, fuel, count, handles, kind, failing, phase, history>>

-----------------------------------------------------------------------------
(* Heap                                                                     *)

\* alloc: an object, or the handle object of a new host resource.  It fails
\* when the tree's memory or the heap's own max_objects is used up.
Alloc(p) ==
  /\ pc[p] \in {"alloc", "handleAlloc"}
  /\ \E n \in Sizes :
       \/ /\ CanCharge("mem", n) /\ Charge("mem", n)
          /\ bytes' = [bytes EXCEPT ![p] = @ + n]
          /\ Goto(p, "slice")
          /\ UNCHANGED failing
       \/ /\ Goto(p, IF At(p, "alloc") THEN "slice" ELSE "handleUndo")
          /\ failing' = failing \cup {p}
          /\ UNCHANGED <<used, bytes>>
  /\ UNCHANGED <<child, slots, fuel, count, handles, kind, phase, history>>

\* alloc_host_resource: the tree's total, then the kind; all or nothing.
HandleTotal(p) ==
  /\ At(p, "handle")
  /\ \E k \in Kinds : kind' = [kind EXCEPT ![p] = k]
  /\ \/ /\ CanCharge("res", 1) /\ Charge("res", 1) /\ Goto(p, "handleKind")
        /\ UNCHANGED failing
     \/ /\ ~CanCharge("res", 1) /\ Goto(p, "slice")
        /\ failing' = failing \cup {p}
        /\ UNCHANGED used
  /\ UNCHANGED <<child, slots, fuel, bytes, count, handles, phase, history>>

HandleKind(p) ==
  LET k == kind[p] IN
  /\ At(p, "handleKind")
  /\ \/ /\ CanCharge(k, 1) /\ Charge(k, 1) /\ Goto(p, "handleAlloc")
        /\ count' = [count EXCEPT ![p] = @ + 1]
        /\ handles' = [handles EXCEPT ![p][k] = @ + 1]
        /\ UNCHANGED failing
     \/ /\ ~CanCharge(k, 1) /\ Goto(p, "untotal")
        /\ failing' = failing \cup {p}
        /\ UNCHANGED <<used, count, handles>>
  /\ UNCHANGED <<child, slots, fuel, bytes, kind, phase, history>>

\* Faulty: the resource is not taken out of the table.
HandleUndoKept(p) ==
  /\ At(p, "handleUndo")
  /\ Refund("res", 1)
  /\ Goto(p, "unkind")
  /\ UNCHANGED <<child, slots, fuel, heap, failing, phase, history>>

\* The handle object does not fit: take the resource out again.
HandleUndo(p) ==
  /\ At(p, "handleUndo")
  /\ count' = [count EXCEPT ![p] = @ - 1]
  /\ Refund("res", 1)
  /\ Goto(p, "unkind")
  /\ UNCHANGED <<child, slots, fuel, bytes, handles, kind, failing, phase,
                 history>>

\* Faulty: a refused resource stays charged to the tree's total.
TotalKept(p) ==
  /\ At(p, "untotal")
  /\ Goto(p, "slice")
  /\ UNCHANGED <<used, child, slots, fuel, heap, failing, phase, history>>

Untotal(p) ==
  /\ At(p, "untotal")
  /\ Refund("res", 1)
  /\ Goto(p, "slice")
  /\ UNCHANGED <<child, slots, fuel, heap, failing, phase, history>>

\* The second refund of release_host_resource_budgets.
Unkind(p) ==
  /\ At(p, "unkind") \/ At(p, "collectKind")
  /\ Refund(kind[p], 1)
  /\ Goto(p, IF At(p, "unkind") THEN "uncount" ELSE "collectCount")
  /\ UNCHANGED <<child, slots, fuel, heap, failing, phase, history>>

\* Its callers lower the kind's count when the refunds are made.
Uncount(p) ==
  /\ At(p, "uncount") \/ At(p, "collectCount")
  /\ handles' = [handles EXCEPT ![p][kind[p]] = @ - 1]
  /\ Goto(p, IF At(p, "uncount") THEN "slice" ELSE "collect")
  /\ UNCHANGED <<used, child, slots, fuel, bytes, count, kind, failing, phase,
                 history>>

\* collect: sweep an unreachable handle, or finish by refunding the bytes of
\* everything swept.
CollectHandle(p) ==
  /\ At(p, "collect")
  /\ \E k \in Kinds :
       handles[p][k] > 0 /\ kind' = [kind EXCEPT ![p] = k]
  /\ count' = [count EXCEPT ![p] = @ - 1]
  /\ Refund("res", 1)
  /\ Goto(p, "collectKind")
  /\ UNCHANGED <<child, slots, fuel, bytes, handles, failing, phase, history>>

CollectBytes(p) ==
  /\ At(p, "collect")
  /\ \E freed \in 0..bytes[p] :
       /\ bytes' = [bytes EXCEPT ![p] = @ - freed]
       /\ Refund("mem", freed)
  /\ \/ p \notin leaving /\ Goto(p, "slice")
     \/ p \in leaving /\ \E next \in Suspended : Goto(p, next)
  /\ leaving' = leaving \ {p}
  /\ UNCHANGED <<child, slots, fuel, count, handles, kind, failing, left,
                 history>>

-----------------------------------------------------------------------------
(* Drop of the process's VM: its heap's shares are refunded, then the heap  *)
(* is freed, then the slot dropped                                          *)

DropBytes(p) ==
  /\ At(p, "drop")
  /\ Refund("mem", bytes[p])
  /\ Goto(p, "dropRes")
  /\ UNCHANGED <<child, slots, fuel, heap, failing, phase, history>>

DropTotal(p) ==
  /\ At(p, "dropRes")
  /\ Refund("res", count[p])
  /\ left' = [left EXCEPT ![p] = {k \in Kinds : handles[p][k] > 0}]
  /\ Goto(p, "dropKinds")
  /\ UNCHANGED <<child, slots, fuel, heap, failing, leaving, history>>

DropKind(p) ==
  /\ At(p, "dropKinds")
  /\ \E k \in left[p] :
       /\ Refund(k, handles[p][k])
       /\ left' = [left EXCEPT ![p] = @ \ {k}]
  /\ UNCHANGED <<pc, child, slots, fuel, heap, failing, leaving, history>>

\* The fields of the heap: only now its objects and resources are gone.
DropFields(p) ==
  /\ At(p, "dropKinds") /\ left[p] = {}
  /\ bytes' = [bytes EXCEPT ![p] = 0]
  /\ count' = [count EXCEPT ![p] = 0]
  /\ handles' = [handles EXCEPT ![p] = [k \in Kinds |-> 0]]
  /\ Goto(p, "dropSlot")
  /\ UNCHANGED <<used, child, slots, fuel, kind, failing, phase, history>>

DropSlot(p) ==
  /\ At(p, "dropSlot")
  /\ IF p \in slots THEN Refund("live", 1) ELSE UNCHANGED used
  /\ slots' = slots \ {p}
  /\ Goto(p, "none")
  /\ UNCHANGED <<child, fuel, heap, failing, phase, history>>

-----------------------------------------------------------------------------
Step(p) ==
  \/ Refuse(p) \/ Reserve(p) \/ Dispatch(p) \/ EndSlice(p)
  \/ AdmitLive(p) \/ AdmitSpawn(p) \/ Unadmit(p) \/ Captures(p)
  \/ Alloc(p) \/ HandleTotal(p) \/ HandleKind(p) \/ HandleUndo(p)
  \/ Untotal(p) \/ Unkind(p) \/ Uncount(p)
  \/ CollectHandle(p) \/ CollectBytes(p)
  \/ DropBytes(p) \/ DropTotal(p) \/ DropKind(p) \/ DropFields(p)
  \/ DropSlot(p)

\* Every process of the tree is gone.
Over == (\A p \in Procs : pc[p] = "none") /\ UNCHANGED vars

Next == (\E p \in Procs : Step(p)) \/ Over

Spec == Init /\ [][Next]_vars

-----------------------------------------------------------------------------
(* Properties                                                               *)

Total(f) == MapThenSumSet(LAMBDA p : f[p], Procs)

Labels ==
  {"none", "new", "ready", "start", "slice", "alloc", "handle", "collect",
   "spawn", "spawns", "unadmit", "captures", "handleKind", "handleAlloc",
   "handleUndo", "untotal", "unkind", "uncount", "collectKind",
   "collectCount", "drop", "dropRes", "dropKinds", "dropSlot"}

\* Every variable has the shape its declaration gives it.
TypeOK ==
  /\ used \in [Budgets -> Nat] /\ pc \in [Procs -> Labels]
  /\ child \in [Procs -> Procs] /\ slots \subseteq Procs
  /\ fuel \in [Procs -> Nat] /\ bytes \in [Procs -> Nat]
  /\ count \in [Procs -> Nat]
  /\ handles \in [Procs -> [Kinds -> Nat]] /\ kind \in [Procs -> Kinds]
  /\ failing \subseteq Procs /\ leaving \subseteq Procs
  /\ left \in [Procs -> SUBSET Kinds]
  /\ spent \in Nat /\ starved \in BOOLEAN

\* The live-process counter is the number of BudgetSlots in existence, through
\* refused admissions, failed captures and drops, and stays within its limit.
LiveSlotsExact ==
  used["live"] = Cardinality(slots) /\ used["live"] <= Limit["live"]

\* Processes running at the same time never spend more fuel than the budget
\* between them: what is charged is what was executed plus what running slices
\* still hold (comment of run_slice).
FuelConserved ==
  used["fuel"] = spent + Total(fuel) /\ used["fuel"] <= Limit["fuel"]

\* What the heap of a process that is not being dropped has of a kind: its
\* resources by kind, without the one that has left host_resources already.
Has(p, k) ==
  IF /\ pc[p] \in {"unkind", "uncount", "collectKind", "collectCount"}
     /\ kind[p] = k
  THEN handles[p][k] - 1 ELSE handles[p][k]

\* The objects and host resources of the processes that are not being dropped
\* are charged, and no charge exceeds its limit.  A process being dropped is left
\* out: Drop for Heap refunds its shares before its objects and resources are
\* freed.
Charged ==
  LET Kept(f) == Total([p \in Procs |->
        IF pc[p] \in {"dropRes", "dropKinds"} THEN 0 ELSE f[p]])
  IN /\ Kept(bytes) <= used["mem"] /\ Kept(count) <= used["res"]
     /\ \A k \in Kinds : Kept([p \in Procs |-> Has(p, k)]) <= used[k]
     /\ \A b \in Budgets : used[b] <= Limit[b]

\* Between the steps of concurrent allocations, collections, failed creations
\* and drops all that live processes have is charged, and nothing leaks: when no
\* operation is under way, every counter is exactly what they have, whatever
\* failed before (the charges and refunds of heap.rs and its Drop).
BudgetsBalance ==
  /\ Charged
  /\ (\A p \in Procs : pc[p] \in {"none", "ready", "start", "slice"}) =>
       /\ used["mem"] = Total(bytes)
       /\ used["res"] = Total(count)
       /\ \A p \in Procs :
            count[p] = MapThenSumSet(LAMBDA k : handles[p][k], Kinds)
       /\ \A k \in Kinds : used[k] = Total([p \in Procs |-> handles[p][k]])

\* "A child that runs out of fuel has used up the tree's fuel, so its parent
\* cannot recover and fails too when it next runs" (execution-bounds.md): after
\* a process has failed with FuelExhausted, no slice is granted fuel.
ExhaustionIsFinal ==
  [][starved => \A p \in Procs : ~(pc[p] = "ready" /\ pc'[p] = "start")]_vars

=============================================================================
