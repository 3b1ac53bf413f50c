------------------------------ MODULE Messages ------------------------------
(***************************************************************************)
(* Values that cross process boundaries (hiko-vm/src/sendable.rs): a value  *)
(* of one heap is measured, turned into a tree without heap references, and *)
(* rebuilt in another heap.                                                 *)
(*                                                                          *)
(* A message is a tuple: its shape, then its children.                      *)
(***************************************************************************)
EXTENDS Heap, FiniteSetsExt, SequencesExt

CONSTANTS
  MaxMessage,    \* max_message_bytes, in nodes
  MaxDepth       \* MAX_MESSAGE_DEPTH

Scalar == <<"scalar">>
Unsendable == <<"unsendable">>

\* Rng and HostHandle stay in their process.
Local == {"rng", "handle"}
IsList(object) == object.kind \in {"nil", "cons"}

\* list_items
RECURSIVE ListItems(_, _)
ListItems(h, r) ==
  IF h.objects[r].kind = "nil" THEN <<>>
  ELSE <<h.objects[r].fields[1]>> \o ListItems(h, h.objects[r].fields[2])

\* message_children: a list is one node, whose children are its elements.
MessageChildren(h, r) ==
  IF IsList(h.objects[r]) THEN ListItems(h, r) ELSE h.objects[r].fields

-----------------------------------------------------------------------------
(* check_message_size.  `work` is the stack: an entry is expanded once its  *)
(* children have been pushed.  `sizes` maps a measured slot to its size and *)
(* depth.                                                                   *)

Visit(r) == [slot |-> r, expanded |-> FALSE]

\* Faulty: the children are not counted.
MeasuredFlat(h, r, sizes) == [size |-> 1, depth |-> 0]

Measured(h, r, sizes) ==
  LET children == MessageChildren(h, r)
      Part(v) == IF v = 0 THEN [size |-> 1, depth |-> 0] ELSE sizes[v]
  IN [size |-> FoldLeft(LAMBDA n, v : n + Part(v).size, 1, children),
      depth |-> FoldLeft(LAMBDA n, v : AtLeast(n, Part(v).depth + 1), 0, children)]

RECURSIVE MeasureLoop(_, _, _)
MeasureLoop(h, work, sizes) ==
  IF work = <<>> THEN "fits"
  ELSE
    LET top == Last(work)
        rest == Front(work)
        r == top.slot
        unmeasured == SelectSeq(MessageChildren(h, r),
                                LAMBDA v : v # 0 /\ v \notin DOMAIN sizes)
        m == Measured(h, r, sizes)
    IN IF r \in DOMAIN sizes THEN MeasureLoop(h, rest, sizes)
       ELSE IF h.objects[r].kind \in Local THEN "local"
       ELSE IF ~top.expanded
       THEN MeasureLoop(h, Append(rest, [top EXCEPT !.expanded = TRUE])
                             \o [i \in DOMAIN unmeasured |-> Visit(unmeasured[i])],
                        sizes)
       ELSE IF m.size > MaxMessage \/ m.depth > MaxDepth
       THEN "large"
       ELSE MeasureLoop(h, rest,
                        [s \in DOMAIN sizes \cup {r} |-> IF s = r THEN m ELSE sizes[s]])

CheckMessageSize(h, v) ==
  IF v = 0 THEN "fits" ELSE MeasureLoop(h, <<Visit(v)>>, <<>>)

-----------------------------------------------------------------------------
(* serialize, once the size is known to be within bounds                    *)

RECURSIVE Message(_, _)
Message(h, v) ==
  IF v = 0 THEN Scalar
  ELSE LET o == h.objects[v]
           parts == MessageChildren(h, v)
       IN <<IF IsList(o) THEN "list" ELSE o.kind>>
            \o [i \in DOMAIN parts |-> Message(h, parts[i])]

Serialize(h, v) ==
  IF CheckMessageSize(h, v) = "fits" THEN Message(h, v) ELSE Unsendable

Children(m) == Tail(m)

\* footprint, in nodes
RECURSIVE Footprint(_)
Footprint(m) == FoldLeft(LAMBDA n, c : n + Footprint(c), 1, Children(m))

-----------------------------------------------------------------------------
(* deserialize: children before their parents, straight into the heap,      *)
(* without a collection.  Each step passes on the heap, the values built so *)
(* far, and whether every allocation was allowed.                           *)

Built(h, values, ok) == [heap |-> h, values |-> values, ok |-> ok]

PutObject(b, object) ==
  IF ~b.ok \/ AllocationWouldExceed(b.heap) THEN [b EXCEPT !.ok = FALSE]
  ELSE Built(Place(b.heap, object), Append(b.values, SlotFor(b.heap)), TRUE)

\* Faulty: the first item is lost.
PutListShort(b, items) ==
  FoldRight(LAMBDA v, acc : PutObject([acc EXCEPT !.values = <<>>],
                                      Object("cons", <<v>> \o acc.values)),
            SubSeq(items, 2, Len(items)), PutObject(b, Object("nil", <<>>)))

\* Task::Build(List): nil, then one cons cell per item from the last.
PutList(b, items) ==
  FoldRight(LAMBDA v, acc : PutObject([acc EXCEPT !.values = <<>>],
                                      Object("cons", <<v>> \o acc.values)),
            items, PutObject(b, Object("nil", <<>>)))

RECURSIVE Deserialize(_, _)
Deserialize(h, m) ==
  LET parts == FoldLeft(LAMBDA acc, c :
                          LET b == Deserialize(acc.heap, c) IN
                          IF acc.ok
                          THEN Built(b.heap, acc.values \o b.values, b.ok)
                          ELSE acc,
                        Built(h, <<>>, TRUE), Children(m))
      whole == [parts EXCEPT !.values = <<>>]
  IN CASE m = Scalar -> Built(h, <<0>>, TRUE)
       [] ~parts.ok -> parts
       [] m[1] = "list" -> PutList(whole, parts.values)
       [] OTHER -> PutObject(whole, Object(m[1], parts.values))
=============================================================================
