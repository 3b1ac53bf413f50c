-------------------------- MODULE ThreadedRuntime ---------------------------
(***************************************************************************)
(* The multi-threaded process runtime (hiko-vm/src/threaded.rs): its next- *)
(* state relation, the fairness of its threads, and its properties.        *)
(***************************************************************************)
EXTENDS ThreadedWorkers, ThreadedWaits

WorkerStep(t) ==
  /\ UNCHANGED program
  /\ \/ Dequeue(t) \/ DequeueShutdown(t) \/ Activate(t) \/ CountSlice(t)
     \/ TakeRunnable(t) \/ EndSlice(t)
     \/ RunStopped(t) \/ RunDone(t) \/ RunFailed(t) \/ RunYielded(t)
     \/ RunRequest(t) \/ RunSpawn(t) \/ RunIo(t)
     \/ PublishChild(t) \/ EnqueueChild(t)
     \/ HandleAwait(t) \/ HandleCancel(t) \/ HandleWaitAny(t)
     \/ Register(t) \/ Recheck(t)
     \/ IoCheck(t) \/ IoSubmit(t) \/ IoRecheck(t)
     \/ IoRefused(t) \/ IoRefusedTake(t)

\* Lifecycle transitions any thread makes on a process it owns.
LifecycleStep(t) ==
  /\ UNCHANGED program
  /\ \/ Resume(t) \/ ResumeEnqueue(t) \/ Park(t) \/ ParkObserve(t) \/ ParkCancel(t)
     \/ FinishProcess(t) \/ ReapSelf(t) \/ StopBeingLive(t) \/ DropPendingCancel(t)
     \/ CancelNextChild(t) \/ ReapChild(t) \/ ChildrenDone(t) \/ Drained(t)
     \/ CancelPid(t) \/ LeaveRequest(t) \/ CheckRequest(t) \/ CancelPidAgain(t)
     \/ ClearWaiter(t) \/ ClearIoWaiter(t) \/ ClearIo(t)
     \/ Wake(t) \/ WakeTombstone(t) \/ WakeDropAll(t) \/ TakeWaiter(t)
     \/ WaitersDone(t) \/ WaiterInFlight(t) \/ RemoveStaleWaiter(t)
     \/ PickWinner(t) \/ Unregister(t) \/ Consume(t)

MonitorStep ==
  /\ UNCHANGED program
  /\ \/ Poll \/ CompletionWaiter \/ CompletionDeliver \/ CompletionsDone
     \/ LoadActive \/ ScanEntry \/ LoadSlices \/ LoadIoWaiters \/ Conclude

\* Every thread has returned: run_to_completion is over.
Finished ==
  /\ \A t \in Threads : At(t, "exited")
  /\ UNCHANGED vars

Next ==
  \/ \E t \in Workers : WorkerStep(t)
  \/ \E t \in Threads : LifecycleStep(t)
  \/ MonitorStep
  \/ \E k \in Toks : IoCompletes(k)
  \/ Finished

Spec == Init /\ [][Next]_vars

\* The operating system schedules every thread, and an accepted request ends.
Fairness ==
  /\ \A t \in Workers : WF_vars(WorkerStep(t) \/ LifecycleStep(t))
  /\ WF_vars(MonitorStep \/ LifecycleStep(Mon))
  /\ \A k \in Toks : WF_vars(IoCompletes(k))

FairSpec == Spec /\ Fairness

-----------------------------------------------------------------------------
(* Properties                                                               *)

\* Every variable has the shape its Rust declaration gives it.
TypeOK ==
  /\ owner \in [Pids -> {"none", "table"} \cup Threads]
  /\ live \subseteq Pids /\ tombs \subseteq Pids /\ pending \subseteq Pids
  /\ reg \in [{"any", "join"} -> [Pids -> SUBSET Pids]]
  /\ ioWaiters \subseteq Toks /\ nextPid \in 2..(MaxPid + 1)
  /\ status \in [Pids -> States(Requests \cup {"runnable", "failed"})]
  /\ children \in [Pids -> SUBSET Pids] /\ parent \in [Pids -> Pids \cup {0}]
  /\ cancelled \in [Pids -> BOOLEAN] /\ outcome \in [Pids -> Outcomes]
  /\ queue \in Seq(Pids) /\ shutdown \in BOOLEAN /\ sliced \in BOOLEAN
  /\ active \in 0..Cardinality(Workers) /\ fuel \in 0..program.fuel
  /\ io \in [Toks -> {"new", "running", "late", "done", "gone"}]
  /\ nextTok \in 1..(MaxTok + 1) /\ tokOwner \in [Toks -> Pids \cup {0}]
  /\ polled \subseteq Toks
  /\ th \in [Threads -> Locals]

\* "A process is owned by exactly one party at a time" (module comment of
\* threaded.rs): a Process value that is out of the table is in a local
\* variable of the one thread that took it, and no process is queued for
\* termination twice.
OwnershipExact ==
  /\ \A p \in Pids, t \in Threads :
       owner[p] = t => p \in Range(th[t].term) \cup {th[t].me, th[t].cur}
  /\ \A t \in Threads : \A i, j \in 1..Len(th[t].term) :
       /\ owner[th[t].term[i]] = t
       /\ th[t].term[i] = th[t].term[j] => i = j
  /\ \A p \in live : owner[p] # "none" \/ \E t \in Threads : th[t].fin = p

\* A runnable process in the table has exactly one run token: its queue entry,
\* a thread about to enqueue it, or a worker that dequeued it.  A process in
\* any other state has none, so take_runnable never meets a stale entry and
\* no runnable process is forgotten.
RunTokens(p) ==
  Cardinality({i \in DOMAIN queue : queue[i] = p})
  + Cardinality({t \in Threads :
      \/ th[t].pc \in {"enqueue", "enqueueChild"} /\ th[t].cur = p
      \/ th[t].pc \in {"activate", "count", "take"} /\ th[t].me = p})
QueueExact ==
  \A p \in Pids :
    RunTokens(p) = (IF InTable(p) /\ IsRunnable(p) THEN 1 ELSE 0)

\* classify_child relies on "not live implies tombstone present" for every
\* child its parent has not consumed; a join then never finds it missing.
TerminatedHasTombstone ==
  \A p \in Pids : \A c \in children[p] : c \notin live => c \in tombs

\* When the monitor decides that the run is over, it is: no worker holds or
\* could still find work, and no process is blocked forever, so the safety net
\* of run_to_completion never fires.
QuiescenceSound ==
  At(Mon, "conclude") =>
    /\ PermanentlyBlocked = {} /\ live = {} /\ queue = <<>> /\ active = 0
    /\ \A t \in Workers : At(t, "dequeue")

\* A finished run leaves nothing behind (lifecycle_report's leftovers): the
\* root is terminal, every table is empty, and each I/O request has completed
\* or was handed to IoBackend::cancel.
CleanShutdown ==
  shutdown =>
    /\ IsDone(Root) /\ live = {} /\ tombs = {} /\ pending = {}
    /\ \A p \in Pids : owner[p] = (IF p = Root THEN "table" ELSE "none")
    /\ \A k \in {"any", "join"}, c \in Pids : reg[k][c] = {}
    /\ ioWaiters = {} /\ \A k \in Toks : io[k] # "running"

\* The monitor ends the run neither early nor with anything left.
EndsRight == QuiescenceSound /\ CleanShutdown

\* Scope exit, "children must not outlive their parent" (finish_process): once
\* the termination of its parent is complete, no process runs a slice.
Orphan(p) ==
  /\ parent[p] # 0 /\ parent[p] \notin live
  /\ \A t \in Threads : th[t].fin # parent[p]
OrphansNeverRun ==
  [][\A t \in Workers :
       At(t, "run") /\ fuel' < fuel /\ th'[t] # th[t] => ~Orphan(th[t].me)]_vars

\* The runtime implements Lifecycle: a process terminates once; its outcome
\* stays available while its parent lives, is joined at most once, and only
\* then or after the parent's termination forgotten.
lifecycleState ==
  [p \in Pids |-> IF p >= nextPid THEN "unborn"
                 ELSE IF p \in live THEN "live"
                 ELSE IF p \in tombs \/ p = Root THEN "terminated"
                 ELSE "reaped"]
Life == INSTANCE Lifecycle WITH Pid <- Pids, state <- lifecycleState
LifecycleImplemented == Life!Spec
LifecycleImplementedFairly == Life!FairSpec

\* Every run ends: run_to_completion returns.
Termination == <>(\A t \in Threads : At(t, "exited"))

=============================================================================
