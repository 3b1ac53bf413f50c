--------------------------- MODULE ThreadedState ----------------------------
(***************************************************************************)
(* The state of the multi-threaded process runtime (hiko-                  *)
(* vm/src/threaded.rs): worker threads run slices of processes, the monitor*)
(* thread delivers I/O completions and decides when the run is over, and   *)
(* all of them change the shared ProcessTable with one DashMap operation at*)
(* a time.                                                                 *)
(*                                                                         *)
(* ThreadedWorkers and ThreadedWaits hold the actions, ThreadedRuntime the *)
(* specification.  One action is one operation on shared memory together   *)
(* with the local computation around it.  A thread's program counter is    *)
(* th[t].pc.                                                               *)
(***************************************************************************)
EXTENDS Integers, Sequences, FiniteSets, Functions

CONSTANTS
  Workers,   \* worker threads
  Mon,       \* the monitor thread (the caller of run_to_completion)
  MaxPid,    \* the greatest pid; pid 1 is the root
  MaxTok,    \* the greatest I/O token
  Programs   \* what the processes of a run do; a record has
             \*   pids, toks: bounds on the pids and I/O tokens allocated
             \*   fuel: slices the process tree may run (max_fuel)
             \*   root, child: requests the root and a child may make
             \*   foreign: may it name a pid that is not one of its children?
             \*   faults: limits that may be hit: "spawn", "deliver", "io"

Pids == 1..MaxPid
Toks == 1..MaxTok
Root == 1
Threads == Workers \cup {Mon}

Requests == {"done", "yield", "fail", "spawn", "await", "await_result",
             "cancel", "wait_any", "io"}

ASSUME RuntimeAssumption ==
  /\ MaxPid \in Nat \ {0} /\ MaxTok \in Nat
  /\ IsFiniteSet(Workers) /\ Mon \notin Workers
  /\ Workers \cap {"none", "table"} = {} /\ Mon \notin {"none", "table"}
  /\ Programs \subseteq
       [pids : Pids, toks : 0..MaxTok, fuel : Nat, root : SUBSET Requests, child : SUBSET Requests,
        foreign : BOOLEAN, faults : SUBSET {"spawn", "deliver", "io"}]

VARIABLES
  program,
  \* ProcessTable
  owner,       \* pid -> "none" (no Process value), "table", or a thread
  live,        \* pids that have not terminated
  tombs,       \* terminated children whose outcome is unconsumed
  pending,     \* pending_cancels
  reg,         \* waiters ("join") and any_waiters ("any"): child -> its waiters
  ioWaiters,   \* tokens with a registered waiter
  nextPid,
  \* Process values
  status,      \* runnable, terminal, or blocked in op on pids or a token
  children,    \* pid -> children whose result it has not consumed
  parent,      \* pid -> parent, 0 for the root
  cancelled,   \* pid -> the VM's cancellation flag
  outcome,     \* pid -> how it terminated
  \* Scheduler, counters and budget
  queue, shutdown, active,
  sliced,      \* slices_started differs from the monitor's slices_before
  fuel,
  \* I/O backend as the runtime sees it
  io,          \* token -> how far its request is
  nextTok, tokOwner,
  polled,      \* completions the monitor has polled and not handled yet
  \* Thread locals
  th

table == <<owner, live, tombs, pending, reg, ioWaiters, nextPid>>
procs == <<status, children, parent, cancelled, outcome>>
sched == <<queue, shutdown, active, sliced, fuel>>
backend == <<io, nextTok, tokOwner, polled>>
shared == <<table, procs, sched, backend>>
backendButIo == <<nextTok, tokOwner, polled>>
procsButOutcome == <<status, children, parent, cancelled>>
procsButStatus == <<children, parent, cancelled, outcome>>
schedButActive == <<queue, shutdown, sliced, fuel>>
schedButQueue == <<shutdown, active, sliced, fuel>>
schedButSliced == <<queue, shutdown, active, fuel>>
tableButIoWaiters == <<owner, live, tombs, pending, reg, nextPid>>
tableButOwner == <<live, tombs, pending, reg, ioWaiters, nextPid>>
tableButPending == <<owner, live, tombs, reg, ioWaiters, nextPid>>
tableButReg == <<owner, live, tombs, pending, ioWaiters, nextPid>>
tableButTombs == <<owner, live, pending, reg, ioWaiters, nextPid>>
vars == <<program, owner, live, tombs, pending, reg, ioWaiters, nextPid,
          status, children, parent, cancelled, outcome,
          queue, shutdown, active, sliced, fuel,
          io, nextTok, tokOwner, polled, th>>

-----------------------------------------------------------------------------
Outcomes == {"none", "ok", "err", "cancelled"}
State(op, on, tok) == [op |-> op, on |-> on, tok |-> tok]
Runnable == State("runnable", <<>>, 0)
NoReq == State("none", <<>>, 0)
NoWake == [kind |-> "none", pid |-> 0]

\* The locals of a thread that is between two slices.
Resting(label) ==
  [pc |-> label, me |-> 0, req |-> NoReq, term |-> <<>>, fin |-> 0,
   kids |-> {}, cur |-> 0, wake |-> NoWake, wl |-> {}, lst |-> <<>>]

At(t, label) == th[t].pc = label
InTable(p) == owner[p] = "table"
IsRunnable(p) == status[p].op = "runnable"
IsBlocked(p) == status[p].op \in {"await", "await_result", "wait_any", "io"}
IsDone(p) == status[p].op \in {"done", "failed"}
WaitKind(op) == IF op = "wait_any" THEN "any" ELSE "join"

\* A blocked process waits for c with a registration of this kind.
WaitsOn(p, kind, c) ==
  /\ status[p].op \in (IF kind = "any" THEN {"wait_any"}
                                       ELSE {"await", "await_result"})
  /\ c \in Range(status[p].on)

RemoveWaiter(r, kind, c, w) == [r EXCEPT ![kind][c] = @ \ {w}]
RemoveWaiterGlobally(r, kind, w) ==
  [r EXCEPT ![kind] = [c \in Pids |-> @[c] \ {w}]]

\* Scheduler::remove.  A pid has one entry at most (QueueExact), so retain
\* drops one.
Unqueue(q, p) ==
  LET i == CHOOSE i \in DOMAIN q : q[i] = p IN
  IF p \in Range(q) THEN SubSeq(q, 1, i - 1) \o SubSeq(q, i + 1, Len(q)) ELSE q

\* wait_any lists hold at most two pids (a bound of the model).
WaitLists(S) == {<<>>} \cup {<<c>> : c \in S} \cup (S \X S)
DedupPids(s) == IF Len(s) = 2 /\ s[1] = s[2] THEN <<s[1]>> ELSE s

-----------------------------------------------------------------------------
(* The types of the state                                                   *)

Labels ==
  {"dequeue", "activate", "count", "take", "run", "endSlice", "exited",
   "publish", "enqueueChild", "resume", "enqueue", "park", "parkObserve",
   "parkCancel", "drain", "reapSelf", "unlive", "unpend", "kids", "reap",
   "cancel", "pend", "pendCheck", "cancelAgain", "clear", "clearIo",
   "classify", "consume", "register", "recheck", "wake", "wakeTomb",
   "wakeDrop", "wakeNext", "waiterLive", "stale", "winner", "unregister",
   "ioCheck", "ioSubmit", "ioRecheck", "ioRefused", "ioRefusedTake",
   "poll", "complete", "completeTake", "idle", "scan", "ioIdle", "conclude"}

States(ops) == [op : ops, on : Seq(Pids), tok : Toks \cup {0}]
Locals ==
  [pc : Labels, me : Pids \cup {0},
   req : States(Requests \cup {"none", "poll"}),
   term : Seq(Pids), fin : Pids \cup {0}, kids : SUBSET Pids,
   cur : Pids \cup {0},
   wake : {NoWake} \cup [kind : {"any", "join"}, pid : Pids],
   wl : SUBSET Pids, lst : Seq(Pids)]

-----------------------------------------------------------------------------
Init ==
  /\ program \in Programs
  /\ owner = [p \in Pids |-> IF p = Root THEN "table" ELSE "none"]
  /\ live = {Root} /\ tombs = {} /\ pending = {}
  /\ reg = [k \in {"any", "join"} |-> [p \in Pids |-> {}]]
  /\ ioWaiters = {} /\ nextPid = 2
  /\ status = [p \in Pids |-> Runnable]
  /\ children = [p \in Pids |-> {}] /\ parent = [p \in Pids |-> 0]
  /\ cancelled = [p \in Pids |-> FALSE]
  /\ outcome = [p \in Pids |-> "none"]
  /\ queue = <<Root>> /\ shutdown = FALSE /\ active = 0 /\ sliced = FALSE
  /\ fuel = program.fuel
  /\ io = [k \in Toks |-> "new"] /\ nextTok = 1 /\ tokOwner = [k \in Toks |-> 0]
  /\ polled = {}
  /\ th = [t \in Threads |-> Resting(IF t = Mon THEN "poll" ELSE "dequeue")]

-----------------------------------------------------------------------------
(* Shared continuations.                                                    *)

\* Where a call made in the middle of a handler returns to.
AfterPark(t) ==
  IF th[t].wake # NoWake THEN "wakeNext"
  ELSE IF th[t].req.op = "io" THEN "drain" ELSE "recheck"
AfterCancel(t) ==
  IF th[t].wake = NoWake /\ th[t].fin # 0 THEN "reap"
  ELSE IF th[t].wake = NoWake /\ th[t].req.op = "cancel" THEN "drain"
  ELSE AfterPark(t)
AfterResume(t) ==
  IF th[t].wake # NoWake THEN "wakeNext"
  ELSE IF t = Mon THEN "complete" ELSE "endSlice"

\* Push an owned process on the thread's Terminations and continue at label.
Terminate(t, p, how, label) ==
  /\ outcome' = [outcome EXCEPT ![p] = how]
  /\ th' = [th EXCEPT ![t].term = Append(@, p), ![t].pc = label]

\* Deliver a value to the owned process p: resume it, or terminate it when the
\* delivery hits a heap or host-work limit (or forced is set).
Deliver(t, p, mayFail, mustFail) ==
  LET label == IF th[t].wake # NoWake THEN "wakeNext" ELSE "drain" IN
  \/ /\ ~mustFail
     /\ th' = [th EXCEPT ![t].pc = "resume", ![t].cur = p]
     /\ UNCHANGED outcome
  \/ /\ mustFail \/ (mayFail /\ "deliver" \in program.faults)
     /\ Terminate(t, p, "err", label)

-----------------------------------------------------------------------------
(* The I/O backend, as IoService describes it                               *)

Io == INSTANCE IoService WITH Tok <- Toks, open <- TRUE

=============================================================================
