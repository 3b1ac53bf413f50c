-------------------------- MODULE ThreadedWorkers ---------------------------
(***************************************************************************)
(* The actions of worker_loop on the process it runs, and the lifecycle of *)
(* a process: spawn, resume, park, finish_process and cancel_pid.          *)
(***************************************************************************)
EXTENDS ThreadedState

(* worker_loop                                                              *)

Dequeue(t) ==
  /\ At(t, "dequeue") /\ ~shutdown /\ queue # <<>>
  /\ queue' = Tail(queue)
  /\ th' = [th EXCEPT ![t].pc = "activate", ![t].me = Head(queue)]
  /\ UNCHANGED <<table, procs, schedButQueue, backend>>

DequeueShutdown(t) ==
  /\ At(t, "dequeue") /\ shutdown
  /\ th' = [th EXCEPT ![t].pc = "exited"]
  /\ UNCHANGED shared

Activate(t) ==
  /\ At(t, "activate")
  /\ active' = active + 1
  /\ th' = [th EXCEPT ![t].pc = "count"]
  /\ UNCHANGED <<table, procs, schedButActive, backend>>

CountSlice(t) ==
  /\ At(t, "count")
  /\ sliced' = TRUE
  /\ th' = [th EXCEPT ![t].pc = "take"]
  /\ UNCHANGED <<table, procs, schedButSliced, backend>>

TakeRunnable(t) ==
  LET p == th[t].me IN
  /\ At(t, "take")
  /\ IF InTable(p) /\ IsRunnable(p)
     THEN /\ owner' = [owner EXCEPT ![p] = t]
          /\ th' = [th EXCEPT ![t].pc = "run"]
     ELSE /\ th' = [th EXCEPT ![t].pc = "endSlice"]
          /\ UNCHANGED owner
  /\ UNCHANGED <<tableButOwner, procs, sched, backend>>

\* The pids a program of p can name, and the requests it can make.
Nameable(p) == {c \in Pids : c < nextPid /\ (parent[c] = p \/ program.foreign)}
MayRequest(p, op) == op \in (IF p = Root THEN program.root ELSE program.child)

\* take pending_cancels and run a slice: a cancelled VM stops at once, an empty
\* fuel budget fails it, otherwise the slice uses up some of the fuel.
RunStopped(t) ==
  LET p == th[t].me
      stop == cancelled[p] \/ p \in pending
  IN
  /\ At(t, "run") /\ (stop \/ fuel = 0)
  /\ pending' = pending \ {p}
  /\ cancelled' = [cancelled EXCEPT ![p] = stop]
  /\ Terminate(t, p, IF stop THEN "cancelled" ELSE "err", "drain")
  /\ UNCHANGED <<tableButPending, sched, backend, status, children, parent>>

Running(t, op) ==
  /\ At(t, "run") /\ ~cancelled[th[t].me] /\ th[t].me \notin pending
  /\ fuel > 0 /\ fuel' = fuel - 1
  /\ MayRequest(th[t].me, op)
  /\ UNCHANGED <<queue, shutdown, active, sliced>>

\* Done: a child's result may turn out not to be sendable.
RunDone(t) ==
  LET p == th[t].me IN
  /\ Running(t, "done")
  /\ \/ Terminate(t, p, "ok", "drain")
     \/ p # Root /\ "deliver" \in program.faults /\ Terminate(t, p, "err", "drain")
  /\ UNCHANGED <<table, procsButOutcome, backend>>

\* Failed, a refused spawn, or wait_any on an empty list.
RunFailed(t) ==
  /\ \/ Running(t, "fail")
     \/ Running(t, "spawn") /\ "spawn" \in program.faults
     \/ Running(t, "wait_any")
  /\ Terminate(t, th[t].me, "err", "drain")
  /\ UNCHANGED <<table, procsButOutcome, backend>>

RunYielded(t) ==
  /\ Running(t, "yield")
  /\ th' = [th EXCEPT ![t].pc = "resume", ![t].cur = th[t].me]
  /\ UNCHANGED <<table, procs, backend>>

\* await, await_result, cancel and wait_any go on to classify their pids.
RunRequest(t) ==
  LET p == th[t].me IN
  /\ \E op \in {"await", "await_result", "cancel", "wait_any"} :
       /\ Running(t, op)
       /\ \E on \in WaitLists(Nameable(p)) :
            LET list == DedupPids(on) IN
            /\ on # <<>> /\ (op # "wait_any" => Len(on) = 1)
            /\ th' = [th EXCEPT ![t].pc = "classify", ![t].lst = list,
                                ![t].req = State(op, list, 0)]
  /\ UNCHANGED <<table, procs, backend>>

\* Spawn: alloc_pid, then ProcessTable::insert starts by making the child live.
RunSpawn(t) ==
  LET p == th[t].me
      c == nextPid
  IN
  /\ Running(t, "spawn") /\ nextPid <= program.pids
  /\ nextPid' = nextPid + 1
  /\ children' = [children EXCEPT ![p] = @ \cup {c}]
  /\ parent' = [parent EXCEPT ![c] = p]
  /\ live' = live \cup {c}
  /\ owner' = [owner EXCEPT ![c] = t]
  /\ th' = [th EXCEPT ![t].pc = "publish", ![t].cur = c]
  /\ UNCHANGED <<backend, tombs, pending, reg, ioWaiters, status, cancelled,
                 outcome>>

\* Io: take a token and register as its waiter before parking.
RunIo(t) ==
  LET p == th[t].me
      req == State("io", <<>>, nextTok)
  IN
  /\ Running(t, "io") /\ nextTok <= program.toks
  /\ nextTok' = nextTok + 1
  /\ tokOwner' = [tokOwner EXCEPT ![nextTok] = p]
  /\ status' = [status EXCEPT ![p] = req]
  /\ ioWaiters' = ioWaiters \cup {nextTok}
  /\ th' = [th EXCEPT ![t].pc = "park", ![t].cur = p, ![t].req = req]
  /\ UNCHANGED <<tableButIoWaiters, procsButStatus, io, polled>>

EndSlice(t) ==
  /\ At(t, "endSlice")
  /\ active' = active - 1
  /\ th' = [th EXCEPT ![t] = Resting("dequeue")]
  /\ UNCHANGED <<table, procs, schedButActive, backend>>

-----------------------------------------------------------------------------
(* Spawn, resume and park                                                   *)

PublishChild(t) ==
  /\ At(t, "publish")
  /\ owner' = [owner EXCEPT ![th[t].cur] = "table"]
  /\ th' = [th EXCEPT ![t].pc = "enqueueChild"]
  /\ UNCHANGED <<tableButOwner, procs, sched, backend>>

\* Faulty: a spawned child is never queued.
ChildNotEnqueued(t) ==
  /\ At(t, "enqueueChild")
  /\ th' = [th EXCEPT ![t].pc = "resume", ![t].cur = th[t].me]
  /\ UNCHANGED shared

EnqueueChild(t) ==
  /\ At(t, "enqueueChild")
  /\ queue' = Append(queue, th[t].cur)
  /\ th' = [th EXCEPT ![t].pc = "resume", ![t].cur = th[t].me]
  /\ UNCHANGED <<table, procs, schedButQueue, backend>>

Resume(t) ==
  /\ At(t, "resume")
  /\ status' = [status EXCEPT ![th[t].cur] = Runnable]
  /\ owner' = [owner EXCEPT ![th[t].cur] = "table"]
  /\ th' = [th EXCEPT ![t].pc = "enqueue"]
  /\ UNCHANGED <<tableButOwner, procsButStatus, sched, backend>>

ResumeEnqueue(t) ==
  /\ At(t, "enqueue")
  /\ queue' = Append(queue, th[t].cur)
  /\ th' = [th EXCEPT ![t].pc = AfterResume(t), ![t].cur = 0]
  /\ UNCHANGED <<table, procs, schedButQueue, backend>>

Park(t) ==
  /\ At(t, "park")
  /\ owner' = [owner EXCEPT ![th[t].cur] = "table"]
  /\ th' = [th EXCEPT ![t].pc = "parkObserve"]
  /\ UNCHANGED <<tableButOwner, procs, sched, backend>>

ParkObserve(t) ==
  LET p == th[t].cur IN
  /\ At(t, "parkObserve")
  /\ pending' = pending \ {p}
  /\ th' = [th EXCEPT ![t].pc = IF p \in pending THEN "parkCancel"
                                                 ELSE AfterPark(t)]
  /\ UNCHANGED <<tableButPending, procs, sched, backend>>

-----------------------------------------------------------------------------
(* finish_process and drain_terminations                                    *)

\* Pop the next termination and record its outcome: a tombstone for a child, a
\* terminal status for the root.
FinishProcess(t) ==
  LET n == Len(th[t].term)
      p == th[t].term[n]
  IN
  /\ At(t, "drain") /\ th[t].term # <<>>
  /\ children' = [children EXCEPT ![p] = {}]
  /\ queue' = Unqueue(queue, p)
  /\ IF p = Root
     THEN /\ status' = [status EXCEPT ![p] =
                State(IF outcome[p] = "ok" THEN "done" ELSE "failed", <<>>, 0)]
          /\ owner' = [owner EXCEPT ![p] = "table"]
          /\ UNCHANGED tombs
     ELSE /\ tombs' = tombs \cup {p}
          /\ owner' = [owner EXCEPT ![p] = "none"]
          /\ UNCHANGED status
  /\ th' = [th EXCEPT ![t].term = SubSeq(@, 1, n - 1), ![t].fin = p,
                      ![t].kids = children[p],
                      ![t].pc = IF p = Root THEN "unlive" ELSE "reapSelf"]
  /\ UNCHANGED <<schedButQueue, backend, live, pending, reg, ioWaiters,
                 nextPid, parent, cancelled, outcome>>

\* Faulty: a parent that is out of the table is taken for dead.
ReapSelfUnlessParked(t) ==
  /\ At(t, "reapSelf")
  /\ tombs' = IF InTable(parent[th[t].fin]) THEN tombs ELSE tombs \ {th[t].fin}
  /\ th' = [th EXCEPT ![t].pc = "unlive"]
  /\ UNCHANGED <<tableButTombs, procs, sched, backend>>

ReapSelf(t) ==
  LET p == th[t].fin IN
  /\ At(t, "reapSelf")
  /\ tombs' = IF parent[p] \in live THEN tombs ELSE tombs \ {p}
  /\ th' = [th EXCEPT ![t].pc = "unlive"]
  /\ UNCHANGED <<tableButTombs, procs, sched, backend>>

StopBeingLive(t) ==
  /\ At(t, "unlive")
  /\ live' = live \ {th[t].fin}
  /\ th' = [th EXCEPT ![t].pc = "unpend"]
  /\ UNCHANGED <<owner, tombs, pending, reg, ioWaiters, nextPid,
                 procs, sched, backend>>

DropPendingCancel(t) ==
  /\ At(t, "unpend")
  /\ pending' = pending \ {th[t].fin}
  /\ th' = [th EXCEPT ![t].pc = "kids"]
  /\ UNCHANGED <<tableButPending, procs, sched, backend>>

\* Scope exit: visit the children in any order (a HashSet).
CancelNextChild(t) ==
  /\ At(t, "kids")
  /\ \E c \in th[t].kids :
       th' = [th EXCEPT ![t].kids = @ \ {c}, ![t].cur = c,
                        ![t].pc = IF c \in live THEN "cancel" ELSE "reap"]
  /\ UNCHANGED shared

\* Faulty: the outcomes of the children are kept.
ChildKept(t) ==
  /\ At(t, "reap")
  /\ th' = [th EXCEPT ![t].pc = "kids", ![t].cur = 0]
  /\ UNCHANGED shared

ReapChild(t) ==
  /\ At(t, "reap")
  /\ tombs' = tombs \ {th[t].cur}
  /\ th' = [th EXCEPT ![t].pc = "kids", ![t].cur = 0]
  /\ UNCHANGED <<tableButTombs, procs, sched, backend>>

ChildrenDone(t) ==
  /\ At(t, "kids") /\ th[t].kids = {}
  /\ th' = [th EXCEPT ![t].pc = "wake",
                      ![t].wake = [kind |-> "any", pid |-> th[t].fin]]
  /\ UNCHANGED shared

\* Nothing left to terminate: go on with the handler that was interrupted.
Drained(t) ==
  LET next == IF t = Mon THEN "complete"
              ELSE IF th[t].req.op = "cancel" THEN "resume"
              ELSE IF th[t].req.op = "io" THEN "ioCheck" ELSE "endSlice"
  IN
  /\ At(t, "drain") /\ th[t].term = <<>>
  /\ th' = [th EXCEPT ![t].pc = next,
                      ![t].cur = IF next = "resume" THEN th[t].me ELSE 0]
  /\ UNCHANGED shared

-----------------------------------------------------------------------------
(* cancel_pid and try_cancel_in_table                                       *)

\* try_cancel_in_table on th[t].cur.  Its two lookups and retry amount to one
\* atomic look at the table entry.
TryCancel(t, missing) ==
  LET c == th[t].cur IN
  /\ \/ /\ InTable(c) /\ IsBlocked(c)
        /\ owner' = [owner EXCEPT ![c] = t]
        /\ th' = [th EXCEPT ![t].pc = "clear", ![t].lst = status[c].on]
        /\ UNCHANGED cancelled
     \/ /\ InTable(c) /\ ~IsBlocked(c)
        /\ cancelled' = [cancelled EXCEPT ![c] = @ \/ IsRunnable(c)]
        /\ th' = [th EXCEPT ![t].pc = AfterCancel(t)]
        /\ UNCHANGED owner
     \/ /\ ~InTable(c)
        /\ th' = [th EXCEPT ![t].pc = missing]
        /\ UNCHANGED <<owner, cancelled>>
  /\ UNCHANGED <<tableButOwner, status, children, parent, outcome,
                 sched, backend>>

CancelPid(t) == At(t, "cancel") /\ TryCancel(t, "pend")
CancelPidAgain(t) == At(t, "cancelAgain") /\ TryCancel(t, AfterCancel(t))
ParkCancel(t) == At(t, "parkCancel") /\ TryCancel(t, AfterPark(t))

LeaveRequest(t) ==
  /\ At(t, "pend")
  /\ pending' = pending \cup {th[t].cur}
  /\ th' = [th EXCEPT ![t].pc = "pendCheck"]
  /\ UNCHANGED <<tableButPending, procs, sched, backend>>

CheckRequest(t) ==
  LET c == th[t].cur IN
  /\ At(t, "pendCheck")
  /\ pending' = IF c \in live THEN pending ELSE pending \ {c}
  /\ th' = [th EXCEPT ![t].pc = IF c \in live THEN "cancelAgain"
                                              ELSE AfterCancel(t)]
  /\ UNCHANGED <<tableButPending, procs, sched, backend>>

\* clear_blocked_registration, one registration at a time; then the process
\* joins the Terminations.
ClearWaiter(t) ==
  LET c == th[t].cur
      last == Len(th[t].lst) = 1
  IN
  /\ At(t, "clear") /\ status[c].op # "io"
  /\ reg' = RemoveWaiter(reg, WaitKind(status[c].op), Head(th[t].lst), c)
  /\ IF last
     THEN /\ outcome' = [outcome EXCEPT ![c] = "cancelled"]
          /\ th' = [th EXCEPT ![t].pc = AfterCancel(t), ![t].lst = th[t].req.on,
                              ![t].term = Append(@, c)]
     ELSE /\ th' = [th EXCEPT ![t].lst = Tail(@)]
          /\ UNCHANGED outcome
  /\ UNCHANGED <<tableButReg, procsButOutcome, sched, backend>>

ClearIoWaiter(t) ==
  LET c == th[t].cur IN
  /\ At(t, "clear") /\ status[c].op = "io"
  /\ ioWaiters' = ioWaiters \ {status[c].tok}
  /\ th' = [th EXCEPT ![t].pc = "clearIo"]
  /\ UNCHANGED <<tableButIoWaiters, procs, sched, backend>>


-----------------------------------------------------------------------------
(* Cancelling and completing a request                                      *)

\* Faulty: the cancelled process is dropped instead of terminated.
ClearIoDropping(t) ==
  /\ At(t, "clearIo")
  /\ Io!Cancel(status[th[t].cur].tok)
  /\ th' = [th EXCEPT ![t].pc = AfterCancel(t), ![t].lst = th[t].req.on]
  /\ UNCHANGED <<table, procs, sched, backendButIo>>

ClearIo(t) ==
  LET c == th[t].cur IN
  /\ At(t, "clearIo")
  /\ Io!Cancel(status[c].tok)
  /\ outcome' = [outcome EXCEPT ![c] = "cancelled"]
  /\ th' = [th EXCEPT ![t].pc = AfterCancel(t), ![t].lst = th[t].req.on,
                      ![t].term = Append(@, c)]
  /\ UNCHANGED <<table, procsButOutcome, sched, backendButIo>>

\* A request the backend has accepted completes.
IoCompletes(k) ==
  /\ Io!Complete(k)
  /\ UNCHANGED <<program, table, procs, sched, backendButIo, th>>

=============================================================================
