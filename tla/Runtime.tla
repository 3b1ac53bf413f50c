------------------------------- MODULE Runtime -------------------------------
(***************************************************************************)
(* The single-threaded process runtime (hiko-vm/src/runtime.rs): one loop   *)
(* runs slices from the FIFO queue, and every terminal transition goes      *)
(* through `terminate`, which drains a stack of terminations.  Nothing runs *)
(* concurrently: pc says how far the one thread is inside a handler.        *)
(***************************************************************************)
EXTENDS Integers, Sequences, FiniteSets, SequencesExt

CONSTANTS
  MaxPid,    \* bound on the pids allocated; pid 1 is the root
  Fuel,      \* slices the process tree may run (max_fuel)
  Ops        \* requests programs may make

Pids == 1..MaxPid
Root == 1

VARIABLES
  proc,        \* processes: pid -> its Process, or None
  parent,      \* pid -> parent, 0 for the root
  tombs,       \* tombstones: pid -> the outcome in its record, or "none"
  reg,         \* waiters ("join") and any_waiters ("any"): pid -> waiter list
  queue,       \* the scheduler's queue
  nextPid, fuel,
  terms,       \* Terminations, a stack
  fin,         \* the process finish_process is at, and what it has left to do
  after,       \* the process handle_cancel resumes once drained, or 0
  me, pc

vars == <<proc, parent, tombs, reg, queue, nextPid, fuel, terms, fin, after,
          me, pc>>

-----------------------------------------------------------------------------
None == [status |-> "absent", on |-> <<>>, kids |-> {}, cancelled |-> FALSE]
Fresh == [None EXCEPT !.status = "runnable"]
NoFin == [pid |-> 0, kids |-> {}, any |-> <<>>, join |-> <<>>]

Blocked == {"await", "await_result", "wait_any"}
IsDone(p) == proc[p].status \in {"done", "failed"}
IsLive(p) == proc[p].status # "absent" /\ ~IsDone(p)
Stuck == {p \in Pids : proc[p].status \in Blocked}

Init ==
  /\ proc = [p \in Pids |-> IF p = Root THEN Fresh ELSE None]
  /\ parent = [p \in Pids |-> 0]
  /\ tombs = [p \in Pids |-> "none"]
  /\ reg = [k \in {"any", "join"} |-> [p \in Pids |-> <<>>]]
  /\ queue = <<Root>> /\ nextPid = 2 /\ fuel = Fuel
  /\ terms = <<>> /\ fin = NoFin /\ after = 0 /\ me = 0 /\ pc = "idle"

-----------------------------------------------------------------------------
(* Small steps of the handlers, as functions of the tables.                 *)

Entry(p, how) == <<[pid |-> p, how |-> how]>>

Without(s, p) == SelectSeq(s, LAMBDA q : q # p)
RemoveWaiter(r, kind, c, w) == [r EXCEPT ![kind][c] = Without(@, w)]

\* clear_blocked_registration
ClearBlocked(r, p) ==
  LET kind == IF proc[p].status = "wait_any" THEN "any" ELSE "join" IN
  IF proc[p].status \notin Blocked THEN r
  ELSE [r EXCEPT ![kind] =
          [c \in Pids |-> IF c \in ToSet(proc[p].on) THEN Without(@[c], p) ELSE @[c]]]

\* A child's result may turn out not to be sendable; a delivery may hit a heap
\* or host-work limit.
MayFail == {TRUE, FALSE}

\* deliver_await_outcome and deliver_already_joined: does the parent go on?
Delivers(op, how, limit) ==
  /\ ~limit
  /\ op = "await" => how = "ok"

-----------------------------------------------------------------------------
(* run_with_probe and run_one_slice                                         *)

\* A stale entry is skipped; a missing process ends the run with an error.
Dequeue ==
  /\ pc = "idle" /\ queue # <<>>
  /\ queue' = Tail(queue)
  /\ me' = Head(queue)
  /\ pc' = CASE proc[me'].status = "absent" -> "error"
             [] proc[me'].status = "runnable" -> "run"
             [] OTHER -> "idle"
  /\ UNCHANGED <<proc, parent, tombs, reg, nextPid, fuel, terms, fin, after>>

\* Nothing is runnable.  The safety net terminates whoever is still blocked,
\* in the table's order, which is any order.
Conclude ==
  /\ pc = "idle" /\ queue = <<>>
  /\ reg' = IF Stuck = {} THEN reg
            ELSE [k \in {"any", "join"} |-> [c \in Pids |->
                    SelectSeq(reg[k][c], LAMBDA w : w \notin Stuck)]]
  /\ \E s \in SetToSeqs(Stuck) :
       terms' = [i \in DOMAIN s |-> [pid |-> s[i], how |-> "err"]]
  /\ pc' = IF Stuck = {} THEN "over" ELSE "drain"
  /\ UNCHANGED <<proc, parent, tombs, queue, nextPid, fuel, fin, after, me>>

\* terminate and fail
Terminate(p, how) ==
  /\ terms' = Entry(p, how) /\ pc' = "drain"

\* run_slice of a VM whose cancellation was requested, or without fuel.
RunStopped ==
  /\ pc = "run" /\ (proc[me].cancelled \/ fuel = 0)
  /\ Terminate(me, IF proc[me].cancelled THEN "cancelled" ELSE "err")
  /\ UNCHANGED <<proc, parent, tombs, reg, queue, nextPid, fuel, fin, after, me>>

Running(op) ==
  /\ pc = "run" /\ ~proc[me].cancelled /\ fuel > 0 /\ op \in Ops
  /\ fuel' = fuel - 1

RunDone ==
  /\ Running("done")
  /\ \/ Terminate(me, "ok")
     \/ parent[me] # 0 /\ Terminate(me, "err")
  /\ UNCHANGED <<proc, parent, tombs, reg, queue, nextPid, fin, after, me>>

\* Failed, a refused spawn, an I/O request, or wait_any on an empty list.
RunFailed ==
  /\ Running("fail")
  /\ Terminate(me, "err")
  /\ UNCHANGED <<proc, parent, tombs, reg, queue, nextPid, fin, after, me>>

RunYielded ==
  /\ Running("yield")
  /\ queue' = Append(queue, me) /\ pc' = "idle"
  /\ UNCHANGED <<proc, parent, tombs, reg, nextPid, terms, fin, after, me>>

\* Faulty: the child is not queued.
HandleSpawnUnqueued ==
  LET c == nextPid IN
  /\ Running("spawn") /\ c <= MaxPid
  /\ nextPid' = c + 1
  /\ proc' = [proc EXCEPT ![c] = Fresh, ![me].kids = @ \cup {c}]
  /\ parent' = [parent EXCEPT ![c] = me]
  /\ queue' = Append(queue, me) /\ pc' = "idle"
  /\ UNCHANGED <<tombs, reg, terms, fin, after, me>>

HandleSpawn ==
  LET c == nextPid IN
  /\ Running("spawn") /\ c <= MaxPid
  /\ nextPid' = c + 1
  /\ proc' = [proc EXCEPT ![c] = Fresh, ![me].kids = @ \cup {c}]
  /\ parent' = [parent EXCEPT ![c] = me]
  /\ queue' = queue \o <<c, me>> /\ pc' = "idle"
  /\ UNCHANGED <<tombs, reg, terms, fin, after, me>>

-----------------------------------------------------------------------------
(* Requests about other processes.  Programs name any pid allocated so far, *)
(* or one that was never allocated.                                         *)

Nameable == 1..nextPid

ClassifyChild(p, c) ==
  CASE c >= nextPid -> "unknown"
    [] c \in proc[p].kids -> IF IsLive(c) THEN "live" ELSE "terminated"
    [] c \notin proc[p].kids /\ (proc[c].status # "absent" \/ tombs[c] # "none") -> "notchild"
    [] OTHER -> "reaped"

\* resume_or_fail with process record r for the caller.
ResumeOrFail(p, r, ok) ==
  /\ proc' = [proc EXCEPT ![p] = [r EXCEPT !.status = "runnable", !.on = <<>>]]
  /\ IF ok THEN queue' = Append(queue, p) /\ pc' = "idle" /\ UNCHANGED terms
           ELSE Terminate(p, "err") /\ UNCHANGED queue

HandleAwait ==
  \E op \in {"await", "await_result"}, c \in Nameable, limit \in MayFail :
    LET state == ClassifyChild(me, c)
        how == IF tombs[c] = "none" THEN "joined" ELSE tombs[c]
    IN
    /\ Running(op)
    /\ state # "live" \/ ~limit
    /\ CASE state = "live" ->
              /\ proc' = [proc EXCEPT ![me].status = op, ![me].on = <<c>>]
              /\ reg' = [reg EXCEPT !["join"][c] = Append(@, me)]
              /\ pc' = "idle" /\ UNCHANGED <<tombs, queue, terms>>
         [] state = "terminated" ->
              /\ tombs' = [tombs EXCEPT ![c] = "none"]
              /\ ResumeOrFail(me, [proc[me] EXCEPT !.kids = @ \ {c}],
                              Delivers(op, how, limit))
              /\ UNCHANGED reg
         [] state = "reaped" ->
              /\ ResumeOrFail(me, proc[me], Delivers(op, "joined", limit))
              /\ UNCHANGED <<tombs, reg>>
         [] OTHER -> Terminate(me, "err") /\ UNCHANGED <<proc, tombs, reg, queue>>
    /\ UNCHANGED <<parent, nextPid, fin, after, me>>

\* cancel_process on the tables: what it pushes, what it leaves in the table.
CancelPushes(c) == IF proc[c].status \in Blocked THEN Entry(c, "cancelled") ELSE <<>>
CancelMarks(c) == [proc EXCEPT ![c].cancelled = @ \/ proc[c].status = "runnable"]

HandleCancel ==
  \E c \in Nameable :
    LET state == ClassifyChild(me, c) IN
    /\ Running("cancel")
    /\ IF state = "live"
       THEN /\ proc' = CancelMarks(c)
            /\ reg' = ClearBlocked(reg, c)
            /\ terms' = CancelPushes(c)
            /\ after' = me /\ pc' = "drain" /\ UNCHANGED queue
       ELSE /\ ResumeOrFail(me, proc[me], state \in {"terminated", "reaped"})
            /\ UNCHANGED <<reg, after>>
    /\ UNCHANGED <<parent, tombs, nextPid, fin, me>>

\* wait_any lists hold at most two pids (a bound of the model).
WaitLists == {<<c>> : c \in Nameable} \cup (Nameable \X Nameable)
DedupPids(s) == IF Len(s) = 2 /\ s[1] = s[2] THEN <<s[1]>> ELSE s

HandleWaitAny ==
  \E l \in WaitLists :
    LET on == DedupPids(l)
        state == [i \in DOMAIN on |-> ClassifyChild(me, on[i])]
        Settled == {i \in DOMAIN on : state[i] # "live"}
        first == CHOOSE i \in Settled : \A j \in Settled : i <= j
    IN
    /\ Running("wait_any")
    /\ IF Settled = {}
       THEN /\ proc' = [proc EXCEPT ![me].status = "wait_any", ![me].on = on]
            /\ reg' = [reg EXCEPT !["any"] =
                 [c \in Pids |-> IF c \in ToSet(on) THEN Append(@[c], me) ELSE @[c]]]
            /\ pc' = "idle" /\ UNCHANGED <<queue, terms>>
       ELSE /\ ResumeOrFail(me, proc[me], state[first] \in {"terminated", "reaped"})
            /\ UNCHANGED reg
    /\ UNCHANGED <<parent, tombs, nextPid, fin, after, me>>

-----------------------------------------------------------------------------
(* drain_terminations and finish_process                                    *)

\* Faulty: only a parent that is blocked on the child is left its outcome.
AwaitedOutcome(p, how) ==
  IF parent[p] # 0 /\ proc[parent[p]].status \in Blocked
  THEN [tombs EXCEPT ![p] = how] ELSE tombs

\* A live parent is left the outcome of its child.
RecordOutcome(p, how) ==
  IF parent[p] # 0 /\ IsLive(parent[p]) THEN [tombs EXCEPT ![p] = how] ELSE tombs

\* Record the outcome: a tombstone when the parent is alive, a terminal status
\* for a root.  A process queued twice is skipped.
FinishProcess ==
  LET p == Last(terms).pid
      how == Last(terms).how
      root == parent[p] = 0
  IN
  /\ pc = "drain" /\ terms # <<>>
  /\ terms' = Front(terms)
  /\ IF ~IsLive(p) THEN UNCHANGED <<proc, tombs, queue, fin, pc>>
     ELSE /\ proc' = [proc EXCEPT ![p] =
               IF root THEN [None EXCEPT !.status = IF how = "ok" THEN "done" ELSE "failed"]
                       ELSE None]
          /\ tombs' = RecordOutcome(p, how)
          /\ queue' = Without(queue, p)
          /\ fin' = [pid |-> p, kids |-> proc[p].kids, any |-> <<>>, join |-> <<>>]
          /\ pc' = "scope"
  /\ UNCHANGED <<parent, reg, nextPid, fuel, after, me>>

\* Faulty: the outcome of a child that nobody joined is kept.
ReapLiveChild ==
  /\ pc = "scope"
  /\ \E c \in fin.kids :
       /\ fin' = [fin EXCEPT !.kids = @ \ {c}]
       /\ IF IsLive(c)
          THEN /\ terms' = terms \o CancelPushes(c)
               /\ proc' = CancelMarks(c)
               /\ reg' = ClearBlocked(reg, c)
          ELSE UNCHANGED <<terms, proc, reg>>
  /\ UNCHANGED <<parent, tombs, queue, nextPid, fuel, after, me, pc>>

\* Scope exit, one child: cancel it if it is alive, drop its tombstone.
ReapChild ==
  /\ pc = "scope"
  /\ \E c \in fin.kids :
       /\ fin' = [fin EXCEPT !.kids = @ \ {c}]
       /\ IF IsLive(c)
          THEN /\ terms' = terms \o CancelPushes(c)
               /\ proc' = CancelMarks(c)
               /\ reg' = ClearBlocked(reg, c)
          ELSE UNCHANGED <<terms, proc, reg>>
       /\ tombs' = [tombs EXCEPT ![c] = "none"]
  /\ UNCHANGED <<parent, queue, nextPid, fuel, after, me, pc>>

\* Faulty: the waiters are taken off their lists and the joining ones dropped.
TakeAnyWaiters ==
  /\ pc = "scope" /\ fin.kids = {}
  /\ fin' = [fin EXCEPT !.any = reg["any"][fin.pid]]
  /\ reg' = [k \in {"any", "join"} |-> [reg[k] EXCEPT ![fin.pid] = <<>>]]
  /\ pc' = "wake"
  /\ UNCHANGED <<proc, parent, tombs, queue, nextPid, fuel, terms, after, me>>

\* wake_any_waiters and wake_join_waiters take the waiter lists.
TakeWaiters ==
  /\ pc = "scope" /\ fin.kids = {}
  /\ fin' = [fin EXCEPT !.any = reg["any"][fin.pid], !.join = reg["join"][fin.pid]]
  /\ reg' = [k \in {"any", "join"} |-> [reg[k] EXCEPT ![fin.pid] = <<>>]]
  /\ pc' = "wake"
  /\ UNCHANGED <<proc, parent, tombs, queue, nextPid, fuel, terms, after, me>>

\* The finished pid is a notification only: the winner is the leftmost
\* terminated pid of the waiter's list.
WakeAnyWaiter ==
  LET w == Head(fin.any) IN
  /\ pc = "wake" /\ fin.any # <<>>
  /\ fin' = [fin EXCEPT !.any = Tail(@)]
  /\ IF proc[w].status = "wait_any" /\ \E c \in ToSet(proc[w].on) : ~IsLive(c)
     THEN /\ reg' = ClearBlocked(reg, w)
          /\ proc' = [proc EXCEPT ![w].status = "runnable", ![w].on = <<>>]
          /\ queue' = Append(queue, w)
     ELSE UNCHANGED <<reg, proc, queue>>
  /\ UNCHANGED <<parent, tombs, nextPid, fuel, terms, after, me, pc>>

\* Delivery to the parent consumes the tombstone.
WakeJoinWaiter ==
  LET w == Head(fin.join)
      how == IF tombs[fin.pid] = "none" THEN "joined" ELSE tombs[fin.pid]
  IN
  /\ pc = "wake" /\ fin.any = <<>> /\ fin.join # <<>>
  /\ fin' = [fin EXCEPT !.join = Tail(@)]
  /\ IF proc[w].status \in {"await", "await_result"} /\ proc[w].on = <<fin.pid>>
     THEN /\ tombs' = [tombs EXCEPT ![fin.pid] = "none"]
          /\ \E limit \in MayFail :
               IF Delivers(proc[w].status, how, limit)
               THEN /\ proc' = [proc EXCEPT ![w].status = "runnable", ![w].on = <<>>,
                                            ![w].kids = @ \ {fin.pid}]
                    /\ queue' = Append(queue, w) /\ UNCHANGED terms
               ELSE /\ proc' = [proc EXCEPT ![w].kids = @ \ {fin.pid}]
                    /\ terms' = terms \o Entry(w, "err") /\ UNCHANGED queue
     ELSE UNCHANGED <<tombs, proc, queue, terms>>
  /\ UNCHANGED <<parent, reg, nextPid, fuel, after, me, pc>>

Finished ==
  /\ pc = "wake" /\ fin.any = <<>> /\ fin.join = <<>>
  /\ fin' = NoFin /\ pc' = "drain"
  /\ UNCHANGED <<proc, parent, tombs, reg, queue, nextPid, fuel, terms, after, me>>

\* The stack is empty: back to the loop, or to the rest of handle_cancel.
Drained ==
  /\ pc = "drain" /\ terms = <<>>
  /\ queue' = IF after = 0 THEN queue ELSE Append(queue, after)
  /\ after' = 0 /\ pc' = "idle"
  /\ UNCHANGED <<proc, parent, tombs, reg, nextPid, fuel, terms, fin, me>>

Next ==
  \/ Dequeue \/ Conclude
  \/ RunStopped \/ RunDone \/ RunFailed \/ RunYielded
  \/ HandleSpawn \/ HandleAwait \/ HandleCancel \/ HandleWaitAny
  \/ FinishProcess \/ ReapChild \/ TakeWaiters \/ WakeAnyWaiter \/ WakeJoinWaiter
  \/ Finished \/ Drained

Over == pc = "over" /\ UNCHANGED vars
Spec == Init /\ [][Next \/ Over]_vars

-----------------------------------------------------------------------------
(* Properties                                                               *)

\* Between two slices the queue holds every runnable process, once, and no
\* other: no wake-up of resume_or_fail, wake_any_waiters, wake_join_waiters,
\* handle_cancel or handle_spawn is lost or doubled, and no terminated process
\* stays queued (run_one_slice would end the whole run with an error).
QueueExact ==
  /\ pc # "error"
  /\ pc = "idle" =>
       /\ ToSet(queue) = {p \in Pids : proc[p].status = "runnable"}
       /\ IsInjective(queue)

\* The safety net of run_with_probe is never needed: when nothing is runnable
\* nothing is blocked, whatever was cancelled, joined or failed before.
NeverStuck == pc = "idle" /\ queue = <<>> => Stuck = {}

\* Once the run is over only the root is left in the table, and no tombstone,
\* waiter or any_waiter (the leftovers of lifecycle_report).
CleanEnd ==
  pc = "over" =>
    /\ IsDone(Root) /\ \A p \in Pids \ {Root} : proc[p] = None
    /\ \A p \in Pids : tombs[p] = "none" /\ reg["any"][p] = <<>> /\ reg["join"][p] = <<>>

LifeState(p) ==
  CASE p >= nextPid -> "unborn"
    [] p < nextPid /\ IsLive(p) -> "live"
    [] p < nextPid /\ ~IsLive(p) /\ (p = Root \/ tombs[p] # "none") -> "terminated"
    [] OTHER -> "reaped"

Life == INSTANCE Lifecycle WITH
  Pid <- Pids, state <- [p \in Pids |-> LifeState(p)]

\* The single-threaded runtime implements the process lifecycle contract that
\* the threaded runtime implements: an outcome is joined once, by a live
\* parent, and discarded only once the parent has terminated.
LifecycleImplemented == Life!Spec

=============================================================================
