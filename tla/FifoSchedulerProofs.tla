------------------------- MODULE FifoSchedulerProofs -------------------------
(* NoLostWakeup holds for every set of pids and every finite set of workers. *)
EXTENDS FifoScheduler, FiniteSetTheorems, SequenceTheorems, TLAPS

\* A subset of the workers has a size, which follows its changes.
LEMMA WorkerCount ==
  ASSUME NEW S \in SUBSET Workers
  PROVE  /\ IsFiniteSet(S) /\ Cardinality(S) \in Nat
         /\ \A w : w \notin S => Cardinality(S \cup {w}) = Cardinality(S) + 1
         /\ \A w : Cardinality(S \ {w}) >= Cardinality(S) - 1
<1>1. IsFiniteSet(S)
  BY FS_Subset, SchedulerAssumption DEF SchedulerAssumption
<1>2. Cardinality(S) \in Nat
  BY <1>1, FS_CardinalityType
<1>3. ASSUME NEW w, w \notin S PROVE Cardinality(S \cup {w}) = Cardinality(S) + 1
  BY <1>1, <1>3, FS_AddElement
<1>4. ASSUME NEW w PROVE Cardinality(S \ {w}) >= Cardinality(S) - 1
  <2>1. CASE w \in S
    <3>1. Cardinality(S \ {w}) = Cardinality(S) - 1
      BY <1>1, <2>1, FS_RemoveElement
    <3> QED  BY <1>2, <3>1
  <2>2. CASE w \notin S
    <3>1. S \ {w} = S
      BY <2>2
    <3> QED  BY <1>2, <3>1
  <2> QED  BY <2>1, <2>2
<1> QED  BY <1>1, <1>2, <1>3, <1>4

\* What retain leaves is a queue of pids that is no longer than before.
LEMMA RemoveShortens ==
  ASSUME queue \in Seq(Pids), NEW p \in Pids, RemovePid(p)
  PROVE  queue' \in Seq(Pids) /\ Len(queue') <= Len(queue)
<1> DEFINE kept == {i \in 1..Len(queue) : queue[i] # p}
           n == Cardinality(kept)
<1>1. Len(queue) \in Nat
  OBVIOUS
<1>2. IsFiniteSet(1..Len(queue)) /\ Cardinality(1..Len(queue)) = Len(queue)
  BY <1>1, FS_Interval
<1>3. IsFiniteSet(kept) /\ n <= Len(queue)
  BY <1>2, FS_Subset
<1>4. n \in Nat
  BY <1>3, FS_CardinalityType
<1>5. PICK at \in [1..n -> kept] : queue' = [i \in 1..n |-> queue[at[i]]]
  BY DEF RemovePid
<1>6. \A i \in 1..n : queue[at[i]] \in Pids
  <2> SUFFICES ASSUME NEW i \in 1..n PROVE queue[at[i]] \in Pids
    OBVIOUS
  <2>1. at[i] \in 1..Len(queue)
    BY <1>5
  <2> QED  BY <2>1
<1> HIDE DEF n, kept
<1> QED  BY <1>3, <1>4, <1>5, <1>6

\* The type invariant is inductive.
LEMMA TypeStep == TypeOK /\ [Next]_vars => TypeOK'
<1> SUFFICES ASSUME TypeOK, [Next]_vars PROVE TypeOK'
  OBVIOUS
<1> USE DEF TypeOK
<1>1. ASSUME NEW p \in Pids, Enqueue(p) PROVE TypeOK'
  <2> USE <1>1 DEF Enqueue
  <2>1. queue' \in Seq(Pids)
    OBVIOUS
  <2>2. CASE asleep = {}
    BY <2>1, <2>2 DEF NotifyOne
  <2>3. CASE asleep # {}
    BY <2>1, <2>3 DEF NotifyOne
  <2> QED  BY <2>2, <2>3
<1>2. ASSUME NEW p \in Pids, RemovePid(p) PROVE TypeOK'
  <2>1. queue' \in Seq(Pids)
    BY <1>2, RemoveShortens
  <2> QED  BY <1>2, <2>1 DEF RemovePid
<1>3. ASSUME NEW w \in Workers, Dequeue(w) PROVE TypeOK'
  BY <1>3 DEF Dequeue, Dequeuing
<1>4. ASSUME NEW w \in Workers, DequeueShutdown(w) \/ Wait(w) PROVE TypeOK'
  BY <1>4 DEF DequeueShutdown, Wait, Dequeuing
<1>5. ASSUME NEW w \in Workers, Forget(w) PROVE TypeOK'
  BY <1>5 DEF Forget
<1>6. ASSUME NEW w \in Workers, SpuriousWakeup(w) PROVE TypeOK'
  BY <1>6 DEF SpuriousWakeup
<1>7. CASE Shutdown
  BY <1>7 DEF Shutdown
<1>8. CASE UNCHANGED vars
  BY <1>8 DEF vars
<1> QED
  BY <1>1, <1>2, <1>3, <1>4, <1>5, <1>6, <1>7, <1>8 DEF Next, WorkerStep

\* No step strands an entry: enqueue wakes a sleeper for it, a worker only
\* goes to sleep on an empty queue, and one that takes an entry accounts for
\* at most its own wakeup.
LEMMA WakeupStep == TypeOK /\ NoLostWakeup /\ [Next]_vars => NoLostWakeup'
<1> SUFFICES ASSUME TypeOK, NoLostWakeup, [Next]_vars, asleep' # {}
             PROVE  Len(queue') <= Cardinality(woken') /\ ~shutdown'
  BY DEF NoLostWakeup
<1> USE DEF TypeOK, NoLostWakeup
<1>0. Len(queue) \in Nat
  OBVIOUS
<1>1. ASSUME NEW p \in Pids, Enqueue(p)
      PROVE  Len(queue') <= Cardinality(woken') /\ ~shutdown'
  <2>1. asleep # {}
    BY <1>1 DEF Enqueue, NotifyOne
  <2>2. PICK w \in asleep : woken' = woken \cup {w}
    BY <1>1, <2>1 DEF Enqueue, NotifyOne
  <2>3. Cardinality(woken') = Cardinality(woken) + 1
    BY <2>2, WorkerCount
  <2>4. Len(queue') = Len(queue) + 1
    BY <1>1 DEF Enqueue
  <2> QED
    BY <1>0, <1>1, <2>1, <2>3, <2>4, WorkerCount DEF Enqueue
<1>2. ASSUME NEW p \in Pids, RemovePid(p)
      PROVE  Len(queue') <= Cardinality(woken') /\ ~shutdown'
  <2>1. queue' \in Seq(Pids) /\ Len(queue') <= Len(queue)
    BY <1>2, RemoveShortens
  <2>2. Len(queue') \in Nat
    BY <2>1
  <2>3. UNCHANGED <<shutdown, asleep, woken>>
    BY <1>2 DEF RemovePid
  <2> QED
    BY <1>0, <2>1, <2>2, <2>3, WorkerCount
<1>3. ASSUME NEW w \in Workers, Dequeue(w)
      PROVE  Len(queue') <= Cardinality(woken') /\ ~shutdown'
  <2>1. Len(queue') = Len(queue) - 1
    BY <1>3 DEF Dequeue
  <2>2. Cardinality(woken') >= Cardinality(woken) - 1
    BY <1>3, WorkerCount DEF Dequeue
  <2>3. woken' \in SUBSET Workers /\ asleep # {} /\ ~shutdown'
    BY <1>3 DEF Dequeue
  <2> QED
    BY <1>0, <2>1, <2>2, <2>3, WorkerCount
<1>4. ASSUME NEW w \in Workers, Wait(w)
      PROVE  Len(queue') <= Cardinality(woken') /\ ~shutdown'
  <2>1. Len(queue') = 0 /\ woken' \in SUBSET Workers /\ ~shutdown'
    BY <1>4 DEF Wait
  <2> QED  BY <2>1, WorkerCount
<1>5. ASSUME NEW w \in Workers, SpuriousWakeup(w)
      PROVE  Len(queue') <= Cardinality(woken') /\ ~shutdown'
  <2>1. Cardinality(woken') = Cardinality(woken) + 1
    BY <1>5, WorkerCount DEF SpuriousWakeup
  <2> QED  BY <1>0, <1>5, <2>1, WorkerCount DEF SpuriousWakeup
<1>6. ASSUME NEW w \in Workers, DequeueShutdown(w) \/ Forget(w)
      PROVE  Len(queue') <= Cardinality(woken') /\ ~shutdown'
  BY <1>6 DEF DequeueShutdown, Forget
<1>7. CASE Shutdown
  BY <1>7 DEF Shutdown
<1>8. CASE UNCHANGED vars
  BY <1>8 DEF vars
<1> QED
  BY <1>1, <1>2, <1>3, <1>4, <1>5, <1>6, <1>7, <1>8 DEF Next, WorkerStep

\* FifoScheduler::enqueue, dequeue and shutdown never lose a wakeup.
THEOREM WakeupsNotLost == Spec => []NoLostWakeup
<1>1. Init => TypeOK /\ NoLostWakeup
  <2> SUFFICES ASSUME Init PROVE TypeOK /\ NoLostWakeup
    OBVIOUS
  <2>1. queue \in Seq(Pids) /\ held \in [Workers -> Pids \cup {"none"}]
    BY DEF Init
  <2> QED  BY <2>1 DEF Init, TypeOK, NoLostWakeup
<1> QED  BY <1>1, TypeStep, WakeupStep, PTL DEF Spec

=============================================================================
