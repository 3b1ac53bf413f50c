------------------------------ MODULE IoBackend ------------------------------
(***************************************************************************)
(* ThreadPoolIoBackend (hiko-vm/src/io_backend.rs): a work queue with one   *)
(* FIFO per owner, served round-robin by a pool of worker threads that      *)
(* grows and shrinks; a timer thread for sleeps and for the deadlines of    *)
(* queued HTTP requests; and the completions the runtime polls.             *)
(*                                                                          *)
(* A step is one critical section.  Where the code nests locks (timers,     *)
(* then work queue or completions) the step spans both.  What a request     *)
(* computes is left out: its completion is its token.  Deadlines are        *)
(* abstracted to whether they have passed.                                  *)
(***************************************************************************)
EXTENDS Integers, Sequences, FiniteSets, FiniteSetsExt, SequencesExt

CONSTANTS
  Toks,         \* tokens: one request each (IoTokenSource)
  NoTok,
  Owners,       \* process trees (IoContext::owner)
  Threads,      \* max_threads names for worker threads
  CoreThreads,  \* core_threads
  InFlight,     \* max_in_flight of every owner
  HeapSlack,    \* the 16 of TimerState::cancel
  Requests,     \* token -> what it may be used for: "sleep", "http" (which
                \* has a deadline) or "file"
  Cancels,      \* tokens the runtime may cancel
  MayStop       \* may the backend be shut down?

ASSUME BackendAssumption ==
  /\ NoTok \notin Toks
  /\ IsFiniteSet(Threads) /\ IsFiniteSet(Toks)
  /\ CoreThreads \in 1..Cardinality(Threads)
  /\ InFlight \in Nat \ {0} /\ HeapSlack \in Nat
  /\ Requests \in [Toks -> SUBSET {"sleep", "http", "file"}]
  /\ Cancels \subseteq Toks
  /\ MayStop \in BOOLEAN

VARIABLES
  queues,    \* owner -> its queued jobs
  order,     \* owners with queued jobs, in round-robin order
  inFlight,  \* owner -> the number of its jobs on workers
  idle,      \* workers waiting for a job
  threads,   \* live workers
  pc,        \* thread -> where it is in run_worker
  job,       \* thread -> the job it took
  heap,      \* tokens with an entry in deadlines
  due,       \* those whose deadline has passed
  timer,     \* token -> its entry in pending, or "none"
  timerPc,   \* where the timer thread is
  results,   \* completions not yet polled
  stop,      \* how far shutdown is
  owner,     \* token -> the tree that uses it
  kind,      \* token -> its request, "none" until it is accepted
  fate       \* history, token -> "open", "cancelled" or "completed"

work == <<queues, order, inFlight, idle, threads>>
workers == <<pc, job>>
timers == <<heap, due, timer, timerPc>>
requests == <<owner, kind>>
vars == <<queues, order, inFlight, idle, threads, pc, job, heap, due, timer,
          timerPc, results, stop, owner, kind, fate>>

TimersStopped == stop # "no"
WorkStopped == stop \in {"joinWorkers", "done"}

\* shutdown borrows the backend mutably: no call of the runtime overlaps it.
Callable == stop \in {"no", "done"}

Init ==
  /\ queues = [o \in Owners |-> <<>>] /\ order = <<>>
  /\ inFlight = [o \in Owners |-> 0]
  /\ idle = 0 /\ threads = CoreThreads
  /\ \E core \in kSubset(CoreThreads, Threads) :
       pc = [w \in Threads |-> IF w \in core THEN "loop" ELSE "exited"]
  /\ job = [w \in Threads |-> NoTok]
  /\ heap = {} /\ due = {} /\ timer = [k \in Toks |-> "none"]
  /\ timerPc = "look"
  /\ results = <<>> /\ stop = "no"
  /\ owner \in [Toks -> Owners] /\ kind = [k \in Toks |-> "none"]
  /\ fate = [k \in Toks |-> "open"]

-----------------------------------------------------------------------------
(* WorkState                                                                *)

Queued(k) == k \in ToSet(queues[owner[k]])

\* take_next skips owners at their limit, moving them to the back.
HasRoom(o, running) == running[o] < InFlight
Turns(running) ==
  {i \in DOMAIN order : /\ HasRoom(order[i], running)
                        /\ \A j \in 1..(i - 1) : ~HasRoom(order[j], running)}
AfterTurn(i) ==
  SubSeq(order, i + 1, Len(order)) \o SubSeq(order, 1, i - 1)
    \o (IF Len(queues[order[i]]) = 1 THEN <<>> ELSE <<order[i]>>)

\* Per owner, the queued jobs up to its free slots.
RunnableJobs(qs) ==
  MapThenSumSet(LAMBDA o : Min({Len(qs[o]), Max({InFlight - inFlight[o], 0})}),
                Owners)

\* Faulty: an owner without jobs keeps its turn.
RemoveQueuedOnly(k) ==
  /\ queues' = [queues EXCEPT ![owner[k]] = SelectSeq(@, LAMBDA x : x # k)]
  /\ UNCHANGED order

RemoveQueued(k) ==
  LET o == owner[k]
      rest == SelectSeq(queues[o], LAMBDA x : x # k)
  IN
  /\ queues' = [queues EXCEPT ![o] = rest]
  /\ order' = IF rest = <<>> THEN SelectSeq(order, LAMBDA x : x # o) ELSE order

\* available.notify_one, after a change of pc.
NotifyOne(pcs) ==
  LET asleep == {w \in Threads : pc[w] = "asleep"} IN
  \/ asleep = {} /\ pc' = pcs
  \/ \E w \in asleep : pc' = [pcs EXCEPT ![w] = "woken"]

\* Faulty: the pool grows only when no worker is idle.
PushIfNoneIdle(k) ==
  LET o == owner[k]
      qs == [queues EXCEPT ![o] = Append(@, k)]
      grow == idle = 0 /\ threads < Cardinality(Threads)
      spare == {w \in Threads : grow /\ pc[w] = "exited"}
  IN
  /\ queues' = qs
  /\ order' = IF Len(qs[o]) = 1 THEN Append(order, o) ELSE order
  /\ threads' = IF grow THEN threads + 1 ELSE threads
  /\ \/ ~grow /\ NotifyOne(pc)
     \/ \E w \in spare : NotifyOne([pc EXCEPT ![w] = "loop"])
  /\ UNCHANGED <<inFlight, idle, job>>

\* push, and the worker register_for starts when push asks for one.
Push(k) ==
  LET o == owner[k]
      qs == [queues EXCEPT ![o] = Append(@, k)]
      grow == RunnableJobs(qs) > idle /\ threads < Cardinality(Threads)
      spare == {w \in Threads : grow /\ pc[w] = "exited"}
  IN
  /\ queues' = qs
  /\ order' = IF Len(qs[o]) = 1 THEN Append(order, o) ELSE order
  /\ threads' = IF grow THEN threads + 1 ELSE threads
  /\ \/ ~grow /\ NotifyOne(pc)
     \/ \E w \in spare : NotifyOne([pc EXCEPT ![w] = "loop"])
  /\ UNCHANGED <<inFlight, idle, job>>

-----------------------------------------------------------------------------
(* TimerState                                                               *)

\* Faulty: the timer thread is not told.
AddTimerSilently(k, what) ==
  /\ heap' = heap \cup {k} /\ due' = due
  /\ timer' = [timer EXCEPT ![k] = what]
  /\ timerPc' = timerPc

AddTimer(k, what) ==
  /\ heap' = heap \cup {k} /\ due' = due
  /\ timer' = [timer EXCEPT ![k] = what]
  /\ timerPc' = "look"

\* Faulty: pruning keeps the wrong half.
CancelTimerPruning(k) ==
  LET pending == {x \in Toks \ {k} : timer[x] # "none"} IN
  \/ /\ timer[k] = "none"
     /\ UNCHANGED <<heap, due, timer, timerPc>>
  \/ /\ timer[k] # "none"
     /\ timer' = [timer EXCEPT ![k] = "none"]
     /\ heap' = IF Cardinality(heap) > 2 * Cardinality(pending) + HeapSlack
                THEN heap \ pending ELSE heap
     /\ due' = due \cap heap'
     /\ timerPc' = "look"

\* The dead entries are pruned once they dominate the heap.
CancelTimer(k) ==
  LET pending == {x \in Toks \ {k} : timer[x] # "none"} IN
  \/ /\ timer[k] = "none"
     /\ UNCHANGED <<heap, due, timer, timerPc>>
  \/ /\ timer[k] # "none"
     /\ timer' = [timer EXCEPT ![k] = "none"]
     /\ heap' = IF Cardinality(heap) > 2 * Cardinality(pending) + HeapSlack
                THEN heap \cap pending ELSE heap
     /\ due' = due \cap heap'
     /\ timerPc' = "look"

-----------------------------------------------------------------------------
(* Calls of the runtime                                                     *)

Accept(k, what) ==
  /\ stop = "no" /\ kind[k] = "none" /\ what \in Requests[k]
  /\ kind' = [kind EXCEPT ![k] = what]
  /\ UNCHANGED <<results, stop, owner, fate>>

\* register_for: a sleep is only a timer.  Once the backend is shut down it
\* refuses, changing nothing.
RegisterSleep(k) ==
  /\ Accept(k, "sleep")
  /\ AddTimer(k, "sleep")
  /\ UNCHANGED <<work, workers>>

\* Faulty: deadline and job are published apart, so that the deadline may pass
\* in between and find nothing.
RegisterHttpApart(k) ==
  /\ Accept(k, "http")
  /\ AddTimer(k, "deadline") \/ UNCHANGED timers
  /\ Push(k)

\* publish_queued: the timers stay locked until deadline and job are both in.
\* Its withdrawal of the deadline when push refuses is left out: shutdown stops
\* the timers before the work queue and excludes calls until both are stopped,
\* so where push would refuse, the timers have refused already.
RegisterHttp(k) ==
  /\ Accept(k, "http")
  /\ AddTimer(k, "deadline")
  /\ Push(k)

RegisterFile(k) ==
  /\ Accept(k, "file")
  /\ Push(k)
  /\ UNCHANGED timers

Running(k) == \E w \in Threads : pc[w] \in {"took", "running"} /\ job[w] = k
Served(k) == Queued(k) \/ timer[k] = "sleep" \/ Running(k)

\* cancel; of a token that is not being served it changes nothing.
Cancel(k) ==
  /\ Callable /\ k \in Cancels /\ Served(k)
  /\ CancelTimer(k)
  /\ RemoveQueued(k)
  /\ fate' = [fate EXCEPT ![k] = "cancelled"]
  /\ UNCHANGED <<inFlight, idle, threads, workers, results, stop, requests>>

Poll ==
  /\ Callable /\ results # <<>>
  /\ results' = <<>>
  /\ UNCHANGED <<work, workers, timers, stop, requests, fate>>

-----------------------------------------------------------------------------
(* Worker threads: run_worker                                               *)

Complete(k) ==
  /\ results' = Append(results, k)
  /\ fate' = [fate EXCEPT ![k] = "completed"]

\* Faulty: a worker that exits stays counted.
ExitUncounted(w) ==
  /\ pc' = [pc EXCEPT ![w] = "exited"] /\ job' = [job EXCEPT ![w] = NoTok]
  /\ UNCHANGED <<queues, order, threads>>

\* From the lock to the next unlock: what remains of the last turn of the
\* loop, then exit, take a job or wait.
Exit(w) ==
  /\ threads' = threads - 1
  /\ pc' = [pc EXCEPT ![w] = "exited"] /\ job' = [job EXCEPT ![w] = NoTok]
  /\ UNCHANGED <<queues, order>>

\* Faulty: the owner just served keeps its place at the front.
TakeKeepingTurn(w, running, i) ==
  LET o == order[i] IN
  /\ pc' = [pc EXCEPT ![w] = "took"]
  /\ job' = [job EXCEPT ![w] = Head(queues[o])]
  /\ queues' = [queues EXCEPT ![o] = Tail(@)]
  /\ order' = IF Len(queues[o]) = 1 THEN AfterTurn(i) ELSE order
  /\ inFlight' = [running EXCEPT ![o] = @ + 1]
  /\ UNCHANGED threads

Take(w, running, i) ==
  LET o == order[i] IN
  /\ pc' = [pc EXCEPT ![w] = "took"]
  /\ job' = [job EXCEPT ![w] = Head(queues[o])]
  /\ queues' = [queues EXCEPT ![o] = Tail(@)]
  /\ order' = AfterTurn(i)
  /\ inFlight' = [running EXCEPT ![o] = @ + 1]
  /\ UNCHANGED threads

Look(w) ==
  LET running == IF pc[w] = "ran"
                 THEN [inFlight EXCEPT ![owner[job[w]]] = @ - 1] ELSE inFlight
      awake == IF pc[w] \in {"woken", "expired"} THEN idle - 1 ELSE idle
      shrink == /\ pc[w] = "expired" /\ threads > CoreThreads /\ order = <<>>
  IN
  /\ pc[w] \in {"loop", "woken", "expired", "ran"}
  /\ \/ /\ WorkStopped \/ shrink
        /\ Exit(w) /\ inFlight' = running /\ idle' = awake
     \/ /\ ~WorkStopped /\ ~shrink /\ idle' = awake
        /\ \E i \in Turns(running) : Take(w, running, i)
     \/ /\ ~WorkStopped /\ ~shrink /\ Turns(running) = {}
        /\ pc' = [pc EXCEPT ![w] = "asleep"]
        /\ job' = [job EXCEPT ![w] = NoTok]
        /\ inFlight' = running /\ idle' = awake + 1
        /\ UNCHANGED <<queues, order, threads>>
  /\ UNCHANGED <<timers, results, stop, requests, fate>>

\* The wait times out, or returns for no reason.
Stir(w) ==
  /\ pc[w] = "asleep"
  /\ \E s \in {"expired", "woken"} : pc' = [pc EXCEPT ![w] = s]
  /\ UNCHANGED <<work, job, timers, results, stop, requests, fate>>

\* The job left the queue, so its queue deadline is moot.
Untime(w) ==
  /\ pc[w] = "took"
  /\ CancelTimer(job[w])
  /\ pc' = [pc EXCEPT ![w] = "running"]
  /\ UNCHANGED <<work, job, results, stop, requests, fate>>

\* run_job, which always returns, and completed.push.
RunJob(w) ==
  /\ pc[w] = "running"
  /\ Complete(job[w])
  /\ pc' = [pc EXCEPT ![w] = "ran"]
  /\ UNCHANGED <<work, job, timers, stop, requests>>

-----------------------------------------------------------------------------
(* The timer thread: Timers::run                                            *)

DeadlinePasses(k) ==
  /\ k \in heap \ due
  /\ due' = due \cup {k}
  /\ UNCHANGED <<work, workers, heap, timer, timerPc, results, stop, requests,
                 fate>>

\* A wait_timeout ends by itself, a wait only for no reason.
StirTimer ==
  /\ timerPc \in {"asleep", "dozing"}
  /\ timerPc' = "look"
  /\ UNCHANGED <<work, workers, heap, due, timer, results, stop, requests,
                 fate>>

TimerWaits ==
  /\ timerPc = "look" /\ ~TimersStopped /\ due = {}
  /\ timerPc' = IF heap = {} THEN "asleep" ELSE "dozing"
  /\ UNCHANGED <<work, workers, heap, due, timer, results, stop, requests,
                 fate>>

TimerExits ==
  /\ timerPc = "look" /\ TimersStopped
  /\ timerPc' = "exited"
  /\ UNCHANGED <<work, workers, heap, due, timer, results, stop, requests,
                 fate>>

\* Faulty: a request whose deadline passes fails though a worker took it.
FireAnyway(k) ==
  /\ timerPc = "look" /\ ~TimersStopped /\ k \in due
  /\ heap' = heap \ {k} /\ due' = due \ {k}
  /\ timer' = [timer EXCEPT ![k] = "none"]
  /\ \/ /\ timer[k] # "none"
        /\ RemoveQueued(k) /\ Complete(k)
     \/ /\ timer[k] = "none"
        /\ UNCHANGED <<queues, order, results, fate>>
  /\ UNCHANGED <<inFlight, idle, threads, workers, timerPc, stop, requests>>

\* The entry at the top of the heap is due.
Fire(k) ==
  /\ timerPc = "look" /\ ~TimersStopped /\ k \in due
  /\ heap' = heap \ {k} /\ due' = due \ {k}
  /\ timer' = [timer EXCEPT ![k] = "none"]
  /\ \/ /\ timer[k] = "sleep"
        /\ Complete(k) /\ UNCHANGED <<queues, order>>
     \/ /\ timer[k] = "deadline" /\ Queued(k)
        /\ RemoveQueued(k) /\ Complete(k)
     \/ /\ timer[k] # "sleep" /\ ~(timer[k] = "deadline" /\ Queued(k))
        /\ UNCHANGED <<queues, order, results, fate>>
  /\ UNCHANGED <<inFlight, idle, threads, workers, timerPc, stop, requests>>

-----------------------------------------------------------------------------
(* shutdown                                                                 *)

\* stop_timers; then its join of the timer thread, and WorkQueue::shutdown.
StopTimers ==
  /\ MayStop /\ stop = "no"
  /\ stop' = "joinTimer"
  /\ heap' = {} /\ due' = {} /\ timer' = [k \in Toks |-> "none"]
  /\ timerPc' = "look"
  /\ UNCHANGED <<work, workers, results, requests, fate>>

\* Faulty: the workers that wait are not told.
StopWorkSilently ==
  /\ stop = "joinTimer" /\ timerPc = "exited"
  /\ stop' = "joinWorkers"
  /\ queues' = [o \in Owners |-> <<>>] /\ order' = <<>>
  /\ UNCHANGED <<inFlight, idle, threads, workers, timers, results, requests,
                 fate>>

StopWork ==
  /\ stop = "joinTimer" /\ timerPc = "exited"
  /\ stop' = "joinWorkers"
  /\ queues' = [o \in Owners |-> <<>>] /\ order' = <<>>
  /\ pc' = [w \in Threads |-> IF pc[w] = "asleep" THEN "woken" ELSE pc[w]]
  /\ UNCHANGED <<inFlight, idle, threads, job, timers, results, requests, fate>>

\* shutdown joins the workers.
JoinWorkers ==
  /\ stop = "joinWorkers" /\ \A w \in Threads : pc[w] = "exited"
  /\ stop' = "done"
  /\ UNCHANGED <<work, workers, timers, results, requests, fate>>

-----------------------------------------------------------------------------
Calls == \/ Poll
         \/ \E k \in Toks : \/ RegisterSleep(k) \/ RegisterHttp(k)
                            \/ RegisterFile(k) \/ Cancel(k)
WorkerStep(w) == Look(w) \/ Untime(w) \/ RunJob(w)
TimerStep == TimerWaits \/ TimerExits \/ \E k \in Toks : Fire(k)
Shutdown == StopTimers \/ StopWork \/ JoinWorkers

Next ==
  \/ Calls \/ TimerStep \/ StirTimer \/ Shutdown
  \/ \E w \in Threads : WorkerStep(w) \/ Stir(w)
  \/ \E k \in Toks : DeadlinePasses(k)

Spec == Init /\ [][Next]_vars

\* Threads that can run do, requests return, time passes.  No thread is
\* relied on to be woken by chance, or by the idle timeout.
Fairness ==
  /\ \A w \in Threads : WF_vars(WorkerStep(w))
  /\ WF_vars(TimerStep) /\ WF_vars(timerPc = "dozing" /\ StirTimer)
  /\ \A k \in Toks : WF_vars(DeadlinePasses(k))
  /\ WF_vars(StopWork) /\ WF_vars(JoinWorkers)

FairSpec == Spec /\ Fairness

-----------------------------------------------------------------------------
(* Properties                                                               *)

\* The state of the work queue, the workers and the timers is well formed.
TypeOK ==
  /\ queues \in [Owners -> Seq(Toks)] /\ order \in Seq(Owners)
  /\ inFlight \in [Owners -> 0..InFlight]
  /\ idle \in 0..Cardinality(Threads) /\ threads \in 0..Cardinality(Threads)
  /\ pc \in [Threads -> {"loop", "asleep", "woken", "expired", "took",
                         "running", "ran", "exited"}]
  /\ job \in [Threads -> Toks \cup {NoTok}]
  /\ heap \subseteq Toks /\ due \subseteq heap
  /\ timer \in [Toks -> {"none", "sleep", "deadline"}]
  /\ timerPc \in {"look", "asleep", "dozing", "exited"}
  /\ results \in Seq(Toks)
  /\ stop \in {"no", "joinTimer", "joinWorkers", "done"}
  /\ owner \in [Toks -> Owners] /\ kind \in [Toks -> {"none", "sleep", "http", "file"}]
  /\ fate \in [Toks -> {"open", "cancelled", "completed"}]

WorkersAt(labels) == {w \in Threads : pc[w] \in labels}

\* The bookkeeping of WorkState, updated under the lock by push, take_next,
\* finish, remove_queued and the idle timeout, agrees with the threads and
\* the queues: no slot of an owner or thread of the pool leaks.
AccountingExact ==
  /\ IsInjective(order)
  /\ ToSet(order) = {o \in Owners : queues[o] # <<>>}
  /\ \A o \in Owners :
       inFlight[o] = Cardinality({w \in WorkersAt({"took", "running", "ran"}) :
                                    owner[job[w]] = o})
  /\ idle = Cardinality(WorkersAt({"asleep", "woken", "expired"}))
  /\ threads = Cardinality(Threads \ WorkersAt({"exited"}))
  /\ WorkStopped \/ threads >= CoreThreads

\* push wakes or starts a worker for every job that may start: there are as
\* many workers about to look as runnable jobs, or every thread the pool may
\* have is awake.
NoStrandedJob ==
  \/ RunnableJobs(queues)
       <= Cardinality(WorkersAt({"loop", "woken", "expired", "ran"}))
  \/ threads = Cardinality(Threads) /\ WorkersAt({"asleep"}) = {}

\* publish_queued, cancel_queued and the timer thread keep deadlines and
\* queue together: a queued HTTP request has a live timer, a live queue
\* deadline has a request that is queued or just taken, and pruning the heap
\* loses no live timer.
DeadlinesCovered ==
  \A k \in Toks :
    /\ timer[k] # "none" => k \in heap
    /\ timer[k] = "deadline"
         => Queued(k) \/ \E w \in Threads : pc[w] = "took" /\ job[w] = k
    /\ Queued(k) /\ kind[k] = "http" /\ ~TimersStopped => timer[k] = "deadline"

Position(o) == CHOOSE i \in DOMAIN order : order[i] = o

\* take_next is round-robin: an owner with a free slot keeps its place in the
\* order or moves up, and moves up whenever another owner's job is taken.
FairTurns ==
  [][\A o \in ToSet(order) \cap ToSet(order') :
       HasRoom(o, inFlight) /\ Len(queues'[o]) >= Len(queues[o])
         => /\ Position(o)' <= Position(o)
            /\ (\E w \in Threads : pc[w] # "took" /\ pc'[w] = "took")
                 => Position(o)' < Position(o)]_vars

\* The backend keeps the contract the runtimes are written against: a token
\* completes at most once, only after it was accepted, and never once a
\* request that had not started was cancelled.
ioState ==
  [k \in Toks |-> CASE kind[k] = "none" -> "new"
                    [] k \in ToSet(results) -> "done"
                    [] k \notin ToSet(results) /\ Served(k) ->
                         IF fate[k] = "cancelled" THEN "late" ELSE "running"
                    [] OTHER -> "gone"]
Service == INSTANCE IoService
             WITH Tok <- Toks, io <- ioState, open <- ~TimersStopped
ServiceImplemented == Service!Spec

\* Every accepted request is completed or cancelled, unless the backend is
\* shut down: no job waits for a worker that is never woken, no sleep for a
\* timer thread that is never told.
EveryRequestSettles ==
  \A k \in Toks :
    kind[k] # "none" ~> fate[k] # "open" \/ TimersStopped

\* shutdown returns: the timer thread and every worker see the flag.
ShutdownReturns == TimersStopped ~> stop = "done"

=============================================================================
