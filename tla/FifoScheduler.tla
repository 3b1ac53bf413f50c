---------------------------- MODULE FifoScheduler ----------------------------
(***************************************************************************)
(* FifoScheduler (hiko-vm/src/scheduler.rs): a queue behind a mutex, and a  *)
(* condition variable for the workers that find it empty.  ThreadedRuntime  *)
(* takes dequeue to be a blocking take; this module justifies it.           *)
(*                                                                          *)
(* A step is one critical section.  notify_one wakes one thread that waits, *)
(* if there is one, and a wait may also end for no reason.                  *)
(***************************************************************************)
EXTENDS Integers, Sequences, FiniteSets, SequencesExt

CONSTANTS
  Workers, Pids,
  MaxQueue   \* bound of the model: the VecDeque grows without limit

ASSUME SchedulerAssumption ==
  IsFiniteSet(Workers) /\ "none" \notin Pids /\ MaxQueue \in Nat

VARIABLES
  queue, shutdown,  \* FifoState
  asleep,           \* workers in Condvar::wait
  woken,            \* workers whose wait is over and that want the mutex back
  returned,         \* workers whose dequeue returned None
  held              \* worker -> the pid dequeue gave it, or "none"

vars == <<queue, shutdown, asleep, woken, returned, held>>

Init ==
  /\ queue = <<>> /\ shutdown = FALSE
  /\ asleep = {} /\ woken = {} /\ returned = {}
  /\ held = [w \in Workers |-> "none"]

Queued(p) == p \in ToSet(queue)

\* The worker calls dequeue, or is back from Condvar::wait.
Dequeuing(w) == held[w] = "none" /\ w \notin asleep \cup returned

NotifyOne ==
  IF asleep = {} THEN UNCHANGED <<asleep, woken>>
  ELSE \E w \in asleep : asleep' = asleep \ {w} /\ woken' = woken \cup {w}

\* Faulty: nobody is told about the new entry.
EnqueueSilently(p) ==
  /\ Len(queue) < MaxQueue
  /\ queue' = Append(queue, p)
  /\ UNCHANGED <<shutdown, asleep, woken, returned, held>>

\* A new process, one that was blocked, or the one a worker has just run.  The
\* scheduler takes a pid as often as it is given one.
Enqueue(p) ==
  /\ Len(queue) < MaxQueue
  /\ queue' = Append(queue, p)
  /\ NotifyOne
  /\ UNCHANGED <<shutdown, returned, held>>

\* The worker is done with the process and calls dequeue again.
Forget(w) ==
  /\ held[w] # "none"
  /\ held' = [held EXCEPT ![w] = "none"]
  /\ UNCHANGED <<queue, shutdown, asleep, woken, returned>>

Dequeue(w) ==
  /\ Dequeuing(w) /\ ~shutdown /\ queue # <<>>
  /\ queue' = Tail(queue)
  /\ held' = [held EXCEPT ![w] = Head(queue)]
  /\ woken' = woken \ {w}
  /\ UNCHANGED <<shutdown, asleep, returned>>

DequeueShutdown(w) ==
  /\ Dequeuing(w) /\ shutdown
  /\ woken' = woken \ {w} /\ returned' = returned \cup {w}
  /\ UNCHANGED <<queue, shutdown, asleep, held>>

Wait(w) ==
  /\ Dequeuing(w) /\ ~shutdown /\ queue = <<>>
  /\ asleep' = asleep \cup {w} /\ woken' = woken \ {w}
  /\ UNCHANGED <<queue, shutdown, returned, held>>

SpuriousWakeup(w) ==
  /\ w \in asleep
  /\ asleep' = asleep \ {w} /\ woken' = woken \cup {w}
  /\ UNCHANGED <<queue, shutdown, returned, held>>

\* remove: retain keeps the entries of other pids, in their order.
RemovePid(p) ==
  /\ LET kept == {i \in 1..Len(queue) : queue[i] # p}
         n == Cardinality(kept)
     IN \E at \in [1..n -> kept] :
          /\ \A i, j \in 1..n : i < j => at[i] < at[j]
          /\ queue' = [i \in 1..n |-> queue[at[i]]]
  /\ UNCHANGED <<shutdown, asleep, woken, returned, held>>

\* Faulty: only one worker is told.
ShutdownOne ==
  /\ shutdown' = TRUE
  /\ NotifyOne
  /\ UNCHANGED <<queue, returned, held>>

Shutdown ==
  /\ shutdown' = TRUE
  /\ asleep' = {} /\ woken' = woken \cup asleep
  /\ UNCHANGED <<queue, returned, held>>

WorkerStep(w) == Dequeue(w) \/ DequeueShutdown(w) \/ Wait(w)

Next ==
  \/ \E p \in Pids : Enqueue(p) \/ RemovePid(p)
  \/ \E w \in Workers : WorkerStep(w) \/ Forget(w) \/ SpuriousWakeup(w)
  \/ Shutdown

Spec == Init /\ [][Next]_vars

\* A worker that can take the mutex does so in the end, and the slice of the
\* process it holds ends.
FairSpec ==
  Spec /\ \A w \in Workers : WF_vars(WorkerStep(w)) /\ WF_vars(Forget(w))

-----------------------------------------------------------------------------
\* The queue holds pids, and a worker is in one place.
TypeOK ==
  /\ queue \in Seq(Pids) /\ shutdown \in BOOLEAN
  /\ asleep \subseteq Workers /\ woken \subseteq Workers
  /\ returned \subseteq Workers /\ held \in [Workers -> Pids \cup {"none"}]
  /\ \A w \in asleep \cup woken \cup returned : held[w] = "none"
  /\ asleep \cap (woken \cup returned) = {} /\ woken \cap returned = {}

\* While a worker sleeps, every queued pid has a woken worker coming for it,
\* and after shutdown nobody sleeps: no interleaving of enqueue, dequeue and
\* wait loses a wakeup.
NoLostWakeup ==
  asleep # {} => Len(queue) <= Cardinality(woken) /\ ~shutdown

\* A queued pid is given to a worker or removed, however often it is queued
\* again meanwhile, unless the scheduler shuts down.
QueuedRuns ==
  \A p \in Pids :
    Queued(p) ~> ((\E w \in Workers : held[w] = p) \/ ~Queued(p) \/ shutdown)

\* After shutdown every worker's dequeue returns None.
ShutdownReturns == shutdown ~> (returned = Workers)

=============================================================================
