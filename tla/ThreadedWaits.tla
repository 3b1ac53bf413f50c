--------------------------- MODULE ThreadedWaits ----------------------------
(***************************************************************************)
(* The actions with which a process waits for another process or for I/O,  *)
(* with which the waiters of a process are woken, and those of the monitor *)
(* thread.                                                                 *)
(***************************************************************************)
EXTENDS ThreadedState

(* await, cancel and wait_any                                               *)

ChildState(p, c) ==
  IF c \in children[p] THEN IF c \in live THEN "Live" ELSE "Terminated"
  ELSE IF c \in live \/ c \in tombs \/ InTable(c) THEN "NotChild"
  ELSE IF c < nextPid THEN "Reaped" ELSE "Unknown"

HandleAwait(t) ==
  LET p == th[t].me
      c == Head(th[t].req.on)
      s == ChildState(p, c)
  IN
  /\ At(t, "classify") /\ th[t].req.op \in {"await", "await_result"}
  /\ \/ /\ s = "Live"
        /\ th' = [th EXCEPT ![t].pc = "register"]
        /\ UNCHANGED outcome
     \/ /\ s = "Terminated"
        /\ th' = [th EXCEPT ![t].pc = "consume", ![t].cur = p,
                            ![t].wake = [kind |-> "join", pid |-> c]]
        /\ UNCHANGED outcome
     \/ s = "Reaped" /\ Deliver(t, p, TRUE, th[t].req.op = "await")
     \/ s \in {"NotChild", "Unknown"} /\ Terminate(t, p, "err", "drain")
  /\ UNCHANGED <<table, procsButOutcome, sched, backend>>

\* A failure forgets the request, so that draining does not resume the parent.
HandleCancel(t) ==
  LET p == th[t].me
      c == Head(th[t].req.on)
      s == ChildState(p, c)
  IN
  /\ At(t, "classify") /\ th[t].req.op = "cancel"
  /\ \/ /\ s = "Live"
        /\ th' = [th EXCEPT ![t].pc = "cancel", ![t].cur = c]
        /\ UNCHANGED outcome
     \/ /\ s \in {"Terminated", "Reaped"}
        /\ th' = [th EXCEPT ![t].pc = "drain"]
        /\ UNCHANGED outcome
     \/ /\ s \in {"NotChild", "Unknown"}
        /\ outcome' = [outcome EXCEPT ![p] = "err"]
        /\ th' = [th EXCEPT ![t].pc = "drain", ![t].term = Append(@, p),
                            ![t].req = NoReq]
  /\ UNCHANGED <<table, procsButOutcome, sched, backend>>

\* Classify the next listed pid; lst holds the ones not looked at yet.
HandleWaitAny(t) ==
  LET p == th[t].me
      c == Head(th[t].lst)
      s == ChildState(p, c)
  IN
  /\ At(t, "classify") /\ th[t].req.op = "wait_any"
  /\ \/ /\ s = "Live"
        /\ th' = [th EXCEPT
             ![t].pc = IF Len(th[t].lst) = 1 THEN "register" ELSE "classify",
             ![t].lst = IF Len(th[t].lst) = 1 THEN th[t].req.on ELSE Tail(@)]
        /\ UNCHANGED outcome
     \/ s \in {"Terminated", "Reaped"} /\ Deliver(t, p, FALSE, FALSE)
     \/ s \in {"NotChild", "Unknown"} /\ Terminate(t, p, "err", "drain")
  /\ UNCHANGED <<table, procsButOutcome, sched, backend>>

\* Register with the next listed child, then park.
Register(t) ==
  LET p == th[t].me
      x == Head(th[t].lst)
      last == Len(th[t].lst) = 1
      kind == WaitKind(th[t].req.op)
  IN
  /\ At(t, "register")
  /\ status' = [status EXCEPT ![p] = th[t].req]
  /\ reg' = [reg EXCEPT ![kind][x] = @ \cup {p}]
  /\ th' = [th EXCEPT ![t].pc = IF last THEN "park" ELSE "register",
                      ![t].cur = IF last THEN p ELSE 0,
                      ![t].lst = IF last THEN th[t].req.on ELSE Tail(@)]
  /\ UNCHANGED <<tableButReg, procsButStatus, sched, backend>>

\* Faulty: a parked process does not look again.
RecheckSkipped(t) ==
  /\ At(t, "recheck")
  /\ th' = [th EXCEPT ![t].pc = "drain", ![t].cur = 0, ![t].lst = <<>>]
  /\ UNCHANGED shared

\* After parking: look for a child that terminated meanwhile, leftmost first.
Recheck(t) ==
  LET x == Head(th[t].lst)
      rest == Tail(th[t].lst)
  IN
  /\ At(t, "recheck")
  /\ th' = IF x \notin live
           THEN [th EXCEPT ![t].pc = "wake", ![t].cur = 0, ![t].lst = <<>>,
                  ![t].wake = [kind |-> WaitKind(th[t].req.op), pid |-> x]]
           ELSE [th EXCEPT ![t].pc = IF rest = <<>> THEN "drain" ELSE "recheck",
                           ![t].cur = 0, ![t].lst = rest]
  /\ UNCHANGED shared

-----------------------------------------------------------------------------
(* wake_any_waiters and wake_join_waiters                                   *)

\* The label after the waiters of wake.pid have been visited.
WakeDone(t) ==
  IF th[t].fin # 0 /\ th[t].wake.kind = "any"
  THEN [th EXCEPT ![t].pc = "wake", ![t].cur = 0, ![t].wl = {},
                  ![t].wake = [kind |-> "join", pid |-> th[t].fin]]
  ELSE [th EXCEPT ![t].pc = "drain", ![t].cur = 0, ![t].wl = {},
                  ![t].wake = NoWake, ![t].fin = 0]

\* Clone the registrations of the finished pid.
Wake(t) ==
  LET ws == reg[th[t].wake.kind][th[t].wake.pid] IN
  /\ At(t, "wake")
  /\ th' = IF ws = {} THEN WakeDone(t)
           ELSE [th EXCEPT ![t].wl = ws,
                  ![t].pc = IF th[t].wake.kind = "any" THEN "wakeNext"
                                                       ELSE "wakeTomb"]
  /\ UNCHANGED shared

\* wake_join_waiters gives up when the tombstone is gone.
WakeTombstone(t) ==
  /\ At(t, "wakeTomb")
  /\ th' = [th EXCEPT ![t].pc = IF th[t].wake.pid \in tombs THEN "wakeNext"
                                                            ELSE "wakeDrop"]
  /\ UNCHANGED shared

WakeDropAll(t) ==
  /\ At(t, "wakeDrop")
  /\ reg' = [reg EXCEPT !["join"][th[t].wake.pid] = {}]
  /\ th' = WakeDone(t)
  /\ UNCHANGED <<tableButReg, procs, sched, backend>>

\* take_waiter on one of the cloned waiters.
TakeWaiter(t) ==
  LET wake == th[t].wake IN
  /\ At(t, "wakeNext")
  /\ \E w \in th[t].wl :
       LET match == InTable(w) /\ WaitsOn(w, wake.kind, wake.pid)
           label == IF match
                    THEN IF wake.kind = "any" THEN "winner" ELSE "unregister"
                    ELSE IF InTable(w) THEN "stale" ELSE "waiterLive"
       IN
       /\ owner' = IF match THEN [owner EXCEPT ![w] = t] ELSE owner
       /\ th' = [th EXCEPT ![t].wl = @ \ {w}, ![t].cur = w, ![t].pc = label,
                           ![t].lst = IF match THEN status[w].on ELSE <<>>]
  /\ UNCHANGED <<tableButOwner, procs, sched, backend>>

WaitersDone(t) ==
  /\ At(t, "wakeNext") /\ th[t].wl = {}
  /\ th' = WakeDone(t)
  /\ UNCHANGED shared

\* Out of the table: in flight when live, otherwise a stale registration.
WaiterInFlight(t) ==
  /\ At(t, "waiterLive")
  /\ th' = [th EXCEPT ![t].pc = IF th[t].cur \in live THEN "wakeNext"
                                                       ELSE "stale"]
  /\ UNCHANGED shared

RemoveStaleWaiter(t) ==
  LET w == th[t].cur
      wake == th[t].wake
  IN
  /\ At(t, "stale")
  /\ reg' = IF w \in live THEN RemoveWaiter(reg, wake.kind, wake.pid, w)
                          ELSE RemoveWaiterGlobally(reg, wake.kind, w)
  /\ th' = [th EXCEPT ![t].pc = "wakeNext"]
  /\ UNCHANGED <<tableButReg, procs, sched, backend>>

\* The leftmost terminated pid of the waiter's list wins; lst holds the pids
\* not looked at yet.  With none terminated the code parks the waiter again;
\* the pid that woke it is in its list and not live, so there always is one.
PickWinner(t) ==
  LET x == Head(th[t].lst)
      w == th[t].cur
  IN
  /\ At(t, "winner")
  /\ th' = IF x \notin live
           THEN [th EXCEPT ![t].pc = "unregister", ![t].lst = status[w].on]
           ELSE IF Len(th[t].lst) > 1 THEN [th EXCEPT ![t].lst = Tail(@)]
           ELSE [th EXCEPT ![t].pc = "park", ![t].lst = <<>>]
  /\ UNCHANGED shared

\* Remove the taken waiter's registrations, one at a time (an await has one).
Unregister(t) ==
  LET w == th[t].cur
      last == Len(th[t].lst) = 1
      next == IF th[t].wake.kind = "any" THEN "resume" ELSE "consume"
  IN
  /\ At(t, "unregister")
  /\ reg' = RemoveWaiter(reg, th[t].wake.kind, Head(th[t].lst), w)
  /\ th' = [th EXCEPT ![t].pc = IF last THEN next ELSE "unregister",
                      ![t].lst = Tail(@)]
  /\ UNCHANGED <<tableButReg, procs, sched, backend>>

\* Take the tombstone of wake.pid and deliver it to the owned parent.
Consume(t) ==
  LET p == th[t].cur
      c == th[t].wake.pid
      kind == IF IsRunnable(p) THEN th[t].req.op ELSE status[p].op
      raw == kind = "await"
  IN
  /\ At(t, "consume")
  /\ tombs' = tombs \ {c}
  /\ children' = [children EXCEPT ![p] = @ \ {c}]
  /\ Deliver(t, p, TRUE, raw /\ (c \notin tombs \/ outcome[c] # "ok"))
  /\ UNCHANGED <<tableButTombs, sched, backend, status, parent, cancelled>>

-----------------------------------------------------------------------------
(* Asynchronous I/O                                                         *)

\* Cancelled while parking: never start the request.
IoCheck(t) ==
  /\ At(t, "ioCheck")
  /\ th' = [th EXCEPT ![t].pc = IF th[t].req.tok \in ioWaiters
                                THEN "ioSubmit" ELSE "endSlice"]
  /\ UNCHANGED shared

IoSubmit(t) ==
  LET k == th[t].req.tok IN
  /\ At(t, "ioSubmit")
  /\ \/ /\ Io!Submit(k)
        /\ th' = [th EXCEPT ![t].pc = "ioRecheck"]
     \/ /\ "io" \in program.faults
        /\ th' = [th EXCEPT ![t].pc = "ioRefused"]
        /\ UNCHANGED io
  /\ UNCHANGED <<table, procs, sched, backendButIo>>

\* Cancelled before the backend knew the token: release it.
IoRecheck(t) ==
  LET k == th[t].req.tok IN
  /\ At(t, "ioRecheck")
  /\ IF k \in ioWaiters THEN UNCHANGED io ELSE Io!Cancel(k)
  /\ th' = [th EXCEPT ![t].pc = "endSlice"]
  /\ UNCHANGED <<table, procs, sched, backendButIo>>

IoRefused(t) ==
  LET k == th[t].req.tok IN
  /\ At(t, "ioRefused")
  /\ ioWaiters' = ioWaiters \ {k}
  /\ th' = [th EXCEPT ![t].pc = IF k \in ioWaiters THEN "ioRefusedTake"
                                                   ELSE "endSlice"]
  /\ UNCHANGED <<tableButIoWaiters, procs, sched, backend>>

IoRefusedTake(t) ==
  LET p == th[t].me
      blocked == InTable(p) /\ status[p] = th[t].req
  IN
  /\ At(t, "ioRefusedTake")
  /\ owner' = IF blocked THEN [owner EXCEPT ![p] = t] ELSE owner
  /\ outcome' = IF blocked THEN [outcome EXCEPT ![p] = "err"] ELSE outcome
  /\ th' = IF blocked
           THEN [th EXCEPT ![t].pc = "drain", ![t].term = Append(@, p),
                           ![t].req = NoReq]
           ELSE [th EXCEPT ![t].pc = "endSlice"]
  /\ UNCHANGED <<tableButOwner, procsButOutcome, sched, backend>>

-----------------------------------------------------------------------------
(* The monitor: run_to_completion and handle_io_completion                  *)

\* Completions arrive in any order, so they are handled in any order.
Poll ==
  /\ At(Mon, "poll")
  /\ polled' = Io!Completed
  /\ Io!Poll
  /\ th' = [th EXCEPT ![Mon].pc = "complete"]
  /\ UNCHANGED <<table, procs, sched, nextTok, tokOwner>>

CompletionWaiter ==
  /\ At(Mon, "complete")
  /\ \E k \in polled :
       /\ polled' = polled \ {k}
       /\ ioWaiters' = ioWaiters \ {k}
       /\ th' = [th EXCEPT ![Mon].pc = IF k \in ioWaiters THEN "completeTake"
                                                         ELSE "complete",
                           ![Mon].req = IF k \in ioWaiters
                                        THEN State("poll", <<>>, k) ELSE NoReq]
  /\ UNCHANGED <<tableButIoWaiters, procs, sched, io, nextTok, tokOwner>>

\* Take the waiter and deliver the result, or fail it with the I/O error; the
\* defensive branch drops the other registrations of the process.
CompletionDeliver ==
  LET k == th[Mon].req.tok
      p == tokOwner[k]
      next == [th EXCEPT ![Mon].req = NoReq]
  IN
  /\ At(Mon, "completeTake")
  /\ IF InTable(p) /\ status[p] = State("io", <<>>, k)
     THEN /\ owner' = [owner EXCEPT ![p] = Mon]
          /\ UNCHANGED ioWaiters
          /\ \/ /\ th' = [next EXCEPT ![Mon].pc = "resume", ![Mon].cur = p]
                /\ UNCHANGED outcome
             \/ /\ "io" \in program.faults
                /\ outcome' = [outcome EXCEPT ![p] = "err"]
                /\ th' = [next EXCEPT ![Mon].pc = "drain", ![Mon].term = <<p>>]
     ELSE /\ ioWaiters' = {j \in ioWaiters : tokOwner[j] # p}
          /\ th' = [next EXCEPT ![Mon].pc = "complete"]
          /\ UNCHANGED <<owner, outcome>>
  /\ UNCHANGED <<procsButOutcome, sched, backend, live, tombs, pending, reg,
                 nextPid>>

CompletionsDone ==
  /\ At(Mon, "complete") /\ polled = {}
  /\ sliced' = FALSE
  /\ th' = [th EXCEPT ![Mon].pc = "idle"]
  /\ UNCHANGED <<table, procs, schedButSliced, backend>>

LoadActive ==
  /\ At(Mon, "idle")
  /\ th' = [th EXCEPT ![Mon].pc = IF active = 0 THEN "scan" ELSE "poll",
                      ![Mon].kids = IF active = 0 THEN 1..program.pids ELSE {}]
  /\ UNCHANGED shared

\* is_all_done_or_blocked visits the entries one at a time, in any order.
ScanEntry ==
  /\ At(Mon, "scan")
  /\ \E p \in th[Mon].kids :
       th' = IF InTable(p) /\ IsRunnable(p)
             THEN [th EXCEPT ![Mon].pc = "poll", ![Mon].kids = {}]
             ELSE [th EXCEPT ![Mon].kids = @ \ {p}]
  /\ UNCHANGED shared

LoadSlices ==
  /\ At(Mon, "scan") /\ th[Mon].kids = {}
  /\ th' = [th EXCEPT ![Mon].pc = IF sliced THEN "poll" ELSE "ioIdle"]
  /\ UNCHANGED shared

\* Faulty: pending I/O is not taken into account.
LoadIoWaitersSkipped ==
  /\ At(Mon, "ioIdle")
  /\ th' = [th EXCEPT ![Mon].pc = "conclude"]
  /\ UNCHANGED shared

LoadIoWaiters ==
  /\ At(Mon, "ioIdle")
  /\ th' = [th EXCEPT ![Mon].pc = IF ioWaiters = {} THEN "conclude" ELSE "poll"]
  /\ UNCHANGED shared

PermanentlyBlocked ==
  IF ioWaiters # {} \/ \E p \in Pids : InTable(p) /\ IsRunnable(p) THEN {}
  ELSE {p \in Pids : InTable(p) /\ IsBlocked(p) /\ status[p].op # "io"}

\* Shut down, or fail the stuck processes (fail_deadlocked).  One step: when the
\* monitor gets here no thread can change the table any more (QuiescenceSound).
Conclude ==
  LET stuck == PermanentlyBlocked IN
  /\ At(Mon, "conclude")
  /\ IF stuck = {}
     THEN /\ shutdown' = TRUE
          /\ th' = [th EXCEPT ![Mon].pc = "exited"]
          /\ UNCHANGED <<owner, reg, outcome>>
     ELSE /\ owner' = [p \in Pids |-> IF p \in stuck THEN Mon ELSE owner[p]]
          /\ reg' = [k \in {"any", "join"} |->
                       [c \in Pids |-> reg[k][c] \ stuck]]
          /\ outcome' = [p \in Pids |->
                           IF p \in stuck THEN "err" ELSE outcome[p]]
          /\ \E s \in UNION {Bijection(1..n, stuck) : n \in Pids} :
               th' = [th EXCEPT ![Mon].pc = "drain", ![Mon].term = s]
          /\ UNCHANGED shutdown
  /\ UNCHANGED <<live, tombs, pending, ioWaiters, nextPid, procsButOutcome,
                 queue, active, sliced, fuel, backend>>

=============================================================================
