-------------------------- MODULE TreeBudgetsProofs --------------------------
(* LiveSlotsExact holds for every number of processes, kinds and limits.    *)
EXTENDS TreeBudgets, FiniteSetTheorems, TLAPS

Admitting(p) == pc[p] \in {"spawns", "unadmit", "captures"}

\* What the argument needs to know of the types: the live counter is only
\* changed under its own name.
SlotTypes ==
  /\ DOMAIN used = Budgets
  /\ pc \in [Procs -> Labels] /\ child \in [Procs -> Procs]
  /\ kind \in [Procs -> Kinds] /\ slots \subseteq Procs
  /\ left \in [Procs -> SUBSET Kinds]

\* A name that is free has no slot, and a child that is being admitted has one
\* and belongs to one parent, so each refund removes a slot that exists.
SlotOwners ==
  /\ \A p \in Procs : pc[p] = "none" => p \notin slots
  /\ \A p \in Procs : Admitting(p) => child[p] \in slots /\ pc[child[p]] = "new"
  /\ \A p, q \in Procs :
       Admitting(p) /\ Admitting(q) /\ child[p] = child[q] => p = q

IInv == SlotTypes /\ SlotOwners /\ LiveSlotsExact

-----------------------------------------------------------------------------
\* Charging or refunding another budget leaves the live counter alone.
LEMMA OtherBudget ==
  ASSUME DOMAIN used = Budgets, NEW b \in Budgets, b # "live", NEW n,
         Charge(b, n) \/ Refund(b, n)
  PROVE  DOMAIN used' = Budgets /\ used'["live"] = used["live"]
BY DEF Charge, Refund, Budgets, Counters

\* The cardinality of the slots is a natural number that follows the set.
LEMMA SlotCount ==
  ASSUME slots \subseteq Procs
  PROVE  /\ IsFiniteSet(slots) /\ Cardinality(slots) \in Nat
         /\ \A c : c \notin slots =>
              Cardinality(slots \cup {c}) = Cardinality(slots) + 1
         /\ \A c \in slots : /\ Cardinality(slots) > 0
                             /\ Cardinality(slots \ {c}) = Cardinality(slots) - 1
<1>1. IsFiniteSet(slots)
  BY FS_Subset, BudgetAssumption DEF BudgetAssumption
<1>2. Cardinality(slots) \in Nat
  BY <1>1, FS_CardinalityType
<1>3. ASSUME NEW c, c \notin slots
      PROVE  Cardinality(slots \cup {c}) = Cardinality(slots) + 1
  BY <1>1, <1>3, FS_AddElement
<1>4. ASSUME NEW c \in slots
      PROVE  /\ Cardinality(slots) > 0
             /\ Cardinality(slots \ {c}) = Cardinality(slots) - 1
  <2>1. Cardinality(slots \ {c}) = Cardinality(slots) - 1
    BY <1>1, <1>4, FS_RemoveElement
  <2>2. Cardinality(slots) # 0
    BY <1>1, <1>4, FS_EmptySet
  <2> QED  BY <1>2, <2>1, <2>2
<1> QED  BY <1>1, <1>2, <1>3, <1>4

\* A step that moves one process along, keeps every slot and charges or
\* refunds other budgets only, preserves the invariant.
LEMMA OtherStep ==
  ASSUME IInv, NEW p \in Procs, NEW l \in Labels, Goto(p, l),
         pc[p] \notin {"none", "new"}, l \notin {"none", "new"},
         l \in {"spawns", "unadmit", "captures"} => Admitting(p),
         DOMAIN used' = Budgets, used'["live"] = used["live"],
         UNCHANGED <<child, slots>>, kind' \in [Procs -> Kinds],
         left' \in [Procs -> SUBSET Kinds]
  PROVE  IInv'
<1> USE DEF IInv, SlotTypes, SlotOwners, Admitting, Goto
<1>1. SlotTypes'
  OBVIOUS
<1>2. \A q \in Procs \ {p} : pc'[q] = pc[q]
  OBVIOUS
<1>3. pc'[p] = l
  OBVIOUS
<1>4. \A q \in Procs : Admitting(q)' => Admitting(q)
  BY <1>2, <1>3
<1>5. \A q \in Procs : Admitting(q) => child[q] # p
  OBVIOUS
<1>6. SlotOwners'
  BY <1>2, <1>3, <1>4, <1>5
<1>7. LiveSlotsExact'
  BY DEF LiveSlotsExact
<1> QED  BY <1>1, <1>6, <1>7

\* Initially there is no slot.
LEMMA SlotsInit == Init => IInv
<1> SUFFICES ASSUME Init PROVE IInv
  OBVIOUS
<1>1. SlotTypes
  BY BudgetAssumption DEF Init, SlotTypes, BudgetAssumption, Labels
<1>2. SlotOwners
  BY DEF Init, SlotOwners, Admitting
<1>3. LiveSlotsExact
  BY FS_EmptySet, BudgetAssumption
  DEF Init, LiveSlotsExact, BudgetAssumption, Budgets, Counters
<1> QED  BY <1>1, <1>2, <1>3 DEF IInv

\* Every step preserves the invariant: the three that create or drop a slot
\* change the counter with it, the others are covered by OtherStep.
LEMMA SlotsStep == IInv /\ [Next]_vars => IInv'
<1> SUFFICES ASSUME IInv, [Next]_vars PROVE IInv'
  OBVIOUS
<1> USE DEF IInv, SlotTypes
<1>0. Limit["live"] \in Nat
  BY BudgetAssumption DEF BudgetAssumption, Budgets, Counters
<1>1. CASE UNCHANGED vars
  BY <1>1 DEF vars, SlotOwners, Admitting, LiveSlotsExact
<1>2. ASSUME NEW p \in Procs, AdmitLive(p) PROVE IInv'
  <2> USE <1>2 DEF AdmitLive, At
  <2>1. CASE Goto(p, "drop") /\ UNCHANGED <<used, child, slots>>
    BY <2>1, OtherStep DEF Labels, heap, phase
  <2>2. ASSUME NEW c \in Procs, pc[c] = "none", CanCharge("live", 1),
               Charge("live", 1), child' = [child EXCEPT ![p] = c],
               slots' = slots \cup {c},
               pc' = [pc EXCEPT ![p] = "spawns", ![c] = "new"]
        PROVE  IInv'
    <3> USE <2>2
    <3>1. c \notin slots /\ c # p
      BY DEF SlotOwners
    <3>2. SlotTypes'
      BY DEF Labels, Charge, heap, phase
    <3>3. LiveSlotsExact'
      BY <1>0, <3>1, SlotCount
      DEF LiveSlotsExact, CanCharge, Charge, Budgets, Counters
    <3>4. /\ pc'[p] = "spawns" /\ pc'[c] = "new" /\ child'[p] = c
          /\ \A q \in Procs \ {p, c} : pc'[q] = pc[q]
          /\ \A q \in Procs \ {p} : child'[q] = child[q]
      BY <3>1
    <3>5. \A q \in Procs : Admitting(q) => child[q] # c /\ child[q] # p
      BY DEF SlotOwners
    <3>6. SlotOwners'
      BY <3>1, <3>4, <3>5 DEF SlotOwners, Admitting
    <3> QED  BY <3>2, <3>3, <3>6
  <2> QED  BY <2>1, <2>2
<1>3. ASSUME NEW p \in Procs, Unadmit(p) PROVE IInv'
  <2> USE <1>3 DEF Unadmit, At
  <2> DEFINE c == child[p]
  <2>1. c \in slots /\ c \in Procs /\ pc[c] = "new" /\ c # p
    BY DEF SlotOwners, Admitting
  <2>2. SlotTypes'
    BY <2>1 DEF Labels, Refund, heap, phase
  <2>3. LiveSlotsExact'
    BY <1>0, <2>1, SlotCount DEF LiveSlotsExact, Refund, Budgets, Counters
  <2>4. /\ pc'[p] = "drop" /\ pc'[c] = "none"
        /\ \A q \in Procs \ {p, c} : pc'[q] = pc[q]
        /\ \A q \in Procs \ {p} : child'[q] = child[q]
    BY <2>1
  <2>5. \A q \in Procs \ {p} : Admitting(q) => child[q] # c /\ child[q] # p
    BY DEF SlotOwners, Admitting
  <2>6. SlotOwners'
    BY <2>1, <2>4, <2>5 DEF SlotOwners, Admitting
  <2> QED  BY <2>2, <2>3, <2>6
<1>4. ASSUME NEW p \in Procs, DropSlot(p) PROVE IInv'
  <2> USE <1>4 DEF DropSlot, At, Goto
  <2>1. SlotTypes'
    BY DEF Labels, Refund, heap, phase
  <2>2. LiveSlotsExact'
    <3>1. CASE p \in slots
      BY <3>1, <1>0, SlotCount DEF LiveSlotsExact, Refund, Budgets, Counters
    <3>2. CASE p \notin slots
      <4>1. slots' = slots /\ used' = used
        BY <3>2
      <4> QED  BY <4>1 DEF LiveSlotsExact
    <3> QED  BY <3>1, <3>2
  <2>3. pc'[p] = "none" /\ \A q \in Procs \ {p} : pc'[q] = pc[q]
    OBVIOUS
  <2>4. \A q \in Procs : Admitting(q) => child[q] # p
    BY DEF SlotOwners
  <2>5. SlotOwners'
    BY <2>3, <2>4 DEF SlotOwners, Admitting
  <2> QED  BY <2>1, <2>2, <2>5
<1>5. ASSUME NEW p \in Procs, Captures(p) PROVE IInv'
  <2> USE <1>5 DEF Captures, At
  <2> DEFINE c == child[p]
  <2>1. c \in slots /\ c \in Procs /\ pc[c] = "new" /\ c # p
    BY DEF SlotOwners, Admitting
  <2>2. /\ DOMAIN used' = Budgets /\ used'["live"] = used["live"]
        /\ UNCHANGED <<slots, kind, left>>
    BY OtherBudget DEF Budgets, Counters, phase
  <2>3. LiveSlotsExact'
    BY <2>2 DEF LiveSlotsExact
  <2>4. CASE UNCHANGED <<pc, child>>
    BY <2>2, <2>3, <2>4 DEF SlotOwners, Admitting
  <2>5. ASSUME NEW next \in {"ready", "drop"},
               pc' = [pc EXCEPT ![p] = next, ![c] = next],
               child' = [child EXCEPT ![p] = p]
        PROVE  IInv'
    <3>1. /\ pc'[p] \in {"ready", "drop"} /\ pc'[c] \in {"ready", "drop"}
          /\ pc' \in [Procs -> Labels]
          /\ \A q \in Procs \ {p, c} : pc'[q] = pc[q]
      BY <2>1, <2>5 DEF Labels
    <3>2. child' \in [Procs -> Procs] /\ \A q \in Procs \ {p} : child'[q] = child[q]
      BY <2>5
    <3>3. SlotTypes'
      BY <2>2, <3>1, <3>2
    <3>4. \A q \in Procs \ {p} : Admitting(q) => child[q] # c /\ child[q] # p
      BY DEF SlotOwners, Admitting
    <3>5. SlotOwners'
      BY <2>1, <2>2, <3>1, <3>2, <3>4 DEF SlotOwners, Admitting
    <3> QED  BY <2>3, <3>3, <3>5
  <2> QED  BY <2>4, <2>5
<1>6. ASSUME NEW p \in Procs,
             \/ Refuse(p) \/ Reserve(p) \/ Dispatch(p) \/ EndSlice(p)
             \/ AdmitSpawn(p)
      PROVE  IInv'
  <2>1. CASE Reserve(p)
    BY <2>1, OtherBudget, OtherStep
    DEF Reserve, At, heap, phase, Labels, Budgets, Counters
  <2>2. CASE Dispatch(p)
    <3>1. PICK op \in {"slice"} \cup (Ops \ {"spawn"}) : Goto(p, op)
      BY <2>2 DEF Dispatch
    <3>2. op \in {"slice", "alloc", "handle", "collect"}
      BY BudgetAssumption DEF BudgetAssumption
    <3> QED
      BY <2>2, <3>1, <3>2, OtherStep DEF Dispatch, heap, phase, Labels
  <2>3. CASE EndSlice(p)
    <3>1. PICK next \in {"ready", "drop", "spawn", "collect"} : Goto(p, next)
      BY <2>3 DEF EndSlice, Suspended
    <3> QED
      BY <2>3, <3>1, OtherBudget, OtherStep
      DEF EndSlice, At, heap, phase, Labels, Budgets, Counters
  <2>4. CASE AdmitSpawn(p)
    <3>1. PICK l \in {"captures", "unadmit"} : Goto(p, l)
      BY <2>4 DEF AdmitSpawn
    <3>2. DOMAIN used' = Budgets /\ used'["live"] = used["live"]
      BY <2>4, OtherBudget DEF AdmitSpawn, Budgets, Counters
    <3> QED
      BY <2>4, <3>1, <3>2, OtherStep DEF AdmitSpawn, At, heap, phase, Labels, Admitting
  <2>5. CASE Refuse(p)
    BY <2>5, OtherStep DEF Refuse, At, heap, phase, Labels
  <2> QED  BY <1>6, <2>1, <2>2, <2>3, <2>4, <2>5
<1>7. ASSUME NEW p \in Procs,
             \/ Alloc(p) \/ HandleTotal(p) \/ HandleKind(p) \/ HandleUndo(p)
             \/ Untotal(p) \/ Unkind(p) \/ Uncount(p)
             \/ CollectHandle(p) \/ CollectBytes(p)
             \/ DropBytes(p) \/ DropTotal(p) \/ DropKind(p) \/ DropFields(p)
      PROVE  IInv'
  <2>1. \A k \in Kinds : k \in Budgets /\ k # "live"
    BY BudgetAssumption DEF BudgetAssumption, Budgets, Counters
  <2>2. {"mem", "res"} \subseteq Budgets
    BY DEF Budgets, Counters
  <2>3. /\ DOMAIN used' = Budgets /\ used'["live"] = used["live"]
        /\ UNCHANGED <<child, slots>> /\ kind' \in [Procs -> Kinds]
        /\ left' \in [Procs -> SUBSET Kinds]
    <3> USE DEF phase
    <3>1. CASE Alloc(p)
      BY <3>1, <2>2, OtherBudget DEF Alloc
    <3>2. CASE HandleTotal(p)
      BY <3>2, <2>2, OtherBudget DEF HandleTotal
    <3>3. CASE HandleKind(p)
      BY <3>3, <2>1, OtherBudget DEF HandleKind
    <3>4. CASE HandleUndo(p) \/ Untotal(p) \/ DropTotal(p)
      BY <3>4, <2>2, OtherBudget DEF HandleUndo, Untotal, DropTotal, heap
    <3>5. CASE Unkind(p)
      BY <3>5, <2>1, OtherBudget DEF Unkind, heap
    <3>6. CASE CollectHandle(p)
      BY <3>6, <2>2, OtherBudget DEF CollectHandle
    <3>7. CASE CollectBytes(p) \/ DropBytes(p)
      BY <3>7, <2>2, OtherBudget DEF CollectBytes, DropBytes, heap
    <3>8. CASE DropKind(p)
      <4>1. left[p] \subseteq Kinds
        OBVIOUS
      <4>2. PICK k \in Kinds : Refund(k, handles[p][k])
        BY <3>8, <4>1 DEF DropKind
      <4> QED  BY <3>8, <4>2, <2>1, OtherBudget DEF DropKind, heap
    <3>9. CASE Uncount(p) \/ DropFields(p)
      BY <3>9 DEF Uncount, DropFields
    <3> QED
      BY <1>7, <3>1, <3>2, <3>3, <3>4, <3>5, <3>6, <3>7, <3>8, <3>9
  <2>4. CASE DropKind(p)
    BY <2>3, <2>4 DEF DropKind, SlotOwners, Admitting, LiveSlotsExact
  <2>5. CASE ~DropKind(p)
    <3>1. PICK l \in {"slice", "collect", "handleAlloc", "handleKind",
                      "handleUndo", "untotal", "unkind", "uncount",
                      "collectKind", "collectCount", "ready", "spawn",
                      "dropRes", "dropKinds", "dropSlot"} : Goto(p, l)
      BY <1>7, <2>5
      DEF Alloc, HandleTotal, HandleKind, HandleUndo, Untotal, Unkind,
          Uncount, CollectHandle, CollectBytes, Suspended, DropBytes,
          DropTotal, DropFields
    <3>2. pc[p] \notin {"none", "new"}
      BY <1>7, <2>5
      DEF Alloc, HandleTotal, HandleKind, HandleUndo, Untotal, Unkind,
          Uncount, CollectHandle, CollectBytes, DropBytes, DropTotal,
          DropFields, At
    <3> QED
      BY <2>3, <3>1, <3>2, OtherStep DEF Labels
  <2> QED  BY <2>4, <2>5
<1> QED
  BY <1>1, <1>2, <1>3, <1>4, <1>5, <1>6, <1>7 DEF Next, Step, Over

\* The live-process counter (ProcessBudgets::live) counts exactly the slots in
\* existence and never exceeds max_live_processes, in every tree.
THEOREM LiveSlotsCounted == Spec => []LiveSlotsExact
<1>1. IInv => LiveSlotsExact
  BY DEF IInv
<1> QED  BY <1>1, SlotsInit, SlotsStep, PTL DEF Spec

=============================================================================
