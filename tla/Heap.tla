-------------------------------- MODULE Heap --------------------------------
(***************************************************************************)
(* A process heap (hiko-vm/src/heap.rs): slots, free list, mark and sweep,  *)
(* and the cache of values already sent to a child.  A heap is a record,    *)
(* and its operations are functions of it.  Bytes and host resources are    *)
(* accounted for in TreeBudgets; here the limit is max_objects.             *)
(*                                                                          *)
(* A value is 0 (any scalar) or the slot of a heap object.                  *)
(***************************************************************************)
EXTENDS Integers, Sequences, FiniteSets

CONSTANTS
  MaxObjects,    \* max_objects
  GcMin,         \* the least gc_threshold (1024 in the code)
  BoundaryMin,   \* the least threshold at a suspension point (256)
  SentMax        \* SENT_CACHE_MAX_BYTES, in message nodes

ASSUME HeapAssumption ==
  /\ MaxObjects \in Nat /\ GcMin \in Nat \ {0} /\ BoundaryMin \in Nat \ {0}
  /\ SentMax \in Nat

Object(kind, fields) == [kind |-> kind, fields |-> fields]
Empty == Object("empty", <<>>)

NewHeap ==
  [objects |-> <<>>, free |-> <<>>, since |-> 0, threshold |-> GcMin,
   sent |-> <<>>, sentBytes |-> 0]

\* for_each_gc_ref
RefsIn(values) == {values[i] : i \in DOMAIN values} \ {0}
RefsOf(object) == RefsIn(object.fields)

Slots(h) == DOMAIN h.objects
Occupied(h) == {s \in Slots(h) : h.objects[s] # Empty}

\* The number of objects `alloc` compares with max_objects.
LiveCount(h) == Len(h.objects) - Len(h.free)

\* What marking from `roots` reaches: the least set that holds them and is
\* closed under references.
Closed(h, set) == \A s \in set : RefsOf(h.objects[s]) \subseteq set
ClosedOver(h, roots) ==
  {set \in SUBSET Slots(h) : roots \subseteq set /\ Closed(h, set)}
Reached(h, roots) ==
  LET closed == ClosedOver(h, roots) IN
  {s \in Slots(h) : \A set \in closed : s \in set}

ShouldCollect(h) == h.since >= h.threshold

AtLeast(n, least) == IF n < least THEN least ELSE n
ShouldCollectAtBoundary(h) == h.since >= AtLeast(h.threshold \div 4, BoundaryMin)

AllocationWouldExceed(h) == LiveCount(h) >= MaxObjects

\* alloc, when it is not refused: the slot taken, and the heap after it.
SlotFor(h) == IF h.free # <<>> THEN h.free[Len(h.free)] ELSE Len(h.objects) + 1
Place(h, object) ==
  [h EXCEPT
     !.objects = IF h.free # <<>> THEN [@ EXCEPT ![SlotFor(h)] = object]
                 ELSE Append(@, object),
     !.free = IF @ # <<>> THEN SubSeq(@, 1, Len(@) - 1) ELSE @,
     !.since = @ + 1]

ForgetSent(h) == [h EXCEPT !.sent = <<>>, !.sentBytes = 0]

\* Faulty: the cached messages outlive the slots they were made from.
CollectKeepingSent(h, roots) ==
  LET dead == Occupied(h) \ Reached(h, roots) IN
  [h EXCEPT
     !.objects = [s \in DOMAIN @ |-> IF s \in dead THEN Empty ELSE @[s]],
     !.free = SelectSeq([s \in DOMAIN h.objects |-> s], LAMBDA s : s \in dead),
     !.since = 0]

\* collect.  The free list is rebuilt from the slots this sweep empties; a slot
\* that was empty before the sweep is not put back.
Collect(h, roots) ==
  LET dead == Occupied(h) \ Reached(h, roots)
      free == SelectSeq([s \in DOMAIN h.objects |-> s], LAMBDA s : s \in dead)
  IN [ForgetSent(h) EXCEPT
        !.objects = [s \in DOMAIN @ |-> IF s \in dead THEN Empty ELSE @[s]],
        !.free = free,
        !.since = 0,
        !.threshold = AtLeast(2 * (Len(h.objects) - Len(free)), GcMin)]

\* set_closure_captures
SetClosureCaptures(h, s, captures) ==
  [ForgetSent(h) EXCEPT !.objects[s].fields = captures]

\* remember_sent
RememberSent(h, s, message, footprint) ==
  LET room == IF h.sentBytes + footprint > SentMax THEN ForgetSent(h) ELSE h
      kept == DOMAIN room.sent \cup {s}
  IN IF footprint > SentMax THEN h
     ELSE [room EXCEPT
             !.sent = [t \in kept |-> IF t = s THEN message ELSE room.sent[t]],
             !.sentBytes = @ + footprint]
=============================================================================
