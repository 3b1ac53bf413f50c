# A verification of hiko in TLA+

hiko is a statically typed functional language. A program is parsed, typed,
compiled to bytecode, verified and run by a stack machine, some of its functions
by a register machine; at run time it is a tree of isolated processes that spawn,
join and cancel children, exchange values, and make asynchronous I/O requests.
This directory holds TLA+ models of these parts, TLC configurations that check
them on small instances, and TLAPS proofs of theorems about them. Every
definition is translated from the Rust source; `PROJECT.json` maps each of them
to its lines.

    tlc -workers 4 -config toolchain.cfg MCToolchain              # a run
    tlapm FifoSchedulerProofs.tla                                 # the proofs

## 1. Inventory of the system

Paths are relative to `src/crates/`.

| Part | Source | State | Talks to | Model |
|---|---|---|---|---|
| Threaded runtime | `hiko-vm/src/threaded.rs`, `process.rs`, `runtime_ops.rs` | ProcessTable (processes, live, tombstones, pending_cancels, waiters, any_waiters, io_waiters), counters | scheduler, I/O backend, budgets | `ThreadedState`, `ThreadedWorkers`, `ThreadedWaits`, `ThreadedRuntime` |
| Single-threaded runtime | `hiko-vm/src/runtime.rs` | the same tables without the concurrency | scheduler | `Runtime` |
| Process lifecycle | `process.rs`, `runtime_ops.rs` (ChildState, ChildRecord) | what a parent may observe of a child | both runtimes | `Lifecycle` |
| FIFO scheduler | `scheduler.rs` | queue, condition variable, shutdown flag | workers | `FifoScheduler` |
| I/O backend contract | `io_backend.rs` (trait IoBackend) | token states | runtime | `IoService` |
| Thread-pool backend | `io_backend.rs` (ThreadPoolIoBackend) | WorkState, TimerState, results | runtime | `IoBackend` |
| Tree budgets | `budget.rs`, `runtime_bridge.rs`, `heap.rs` | atomic counters shared by a process tree | heaps, run_slice | `TreeBudgets` |
| Heap and collector | `heap.rs`, `vm/gc.rs` | slots, free list, thresholds, cache of sent values | interpreter, budgets | `Heap`, `ProcessHeaps` |
| Messages | `sendable.rs`, `vm/child_globals.rs` | snapshots of globals | heaps of two processes | `Messages`, `ProcessHeaps` |
| Lexer, parser | `hiko-syntax/src/lexer.rs`, `parser.rs`, `ast.rs` | position, nesting depth | formatter, desugaring | `Lexer`, `Syntax`, `Parser`, `Numbers` |
| Formatter | `format.rs`, `pretty.rs` | comments | parser | `Formatter`, `Pretty` |
| Desugaring, folding | `desugar.rs`, `constfold.rs` | structures in scope | type checker | `Desugar` |
| Type checker | `hiko-types/src/infer.rs`, `ty.rs`, `exhaustive.rs` | substitution, levels, environments | compiler | `Types`, `Infer`, `Exhaustive` |
| Compiler | `hiko-compile/src/compiler.rs`, `chunk.rs`, `op.rs` | function contexts, globals and their slots | loader, type checker | `Bytecode`, `Compiler`, `Toolchain` |
| Packages | `compiler.rs` (the loader), `hiko-cli/src/install.rs`, `lock_verify.rs`, `build_vm.rs` | lockfile, module cache, registries | compiler, file system | `Packages` |
| Verifier | `hiko-vm/src/verify.rs` | worklist, least depth per instruction | compiler, machines | `Verifier` |
| Stack machine | `vm/mod.rs`, `vm/dispatch.rs` | operand stack, frames, handlers | everything | `StackVm` |
| Register machine | `vm/register.rs` | virtual operands; registers, partly paid fuel | stack machine | `RegisterVm` |
| Host commands, policies | `vm/host.rs`, `config.rs`, `io_limits.rs` | a child command and its two pipes | OS | not modelled |
| Builtins, extensions | `builtins/*`, `extension.rs` | regex cache, random generator | | not modelled |
| Command line, metadata, docs | `hiko-cli/src/main.rs`, `hiko-builtin-meta`, `hiko-docgen` | none | | not modelled |

The behaviours that are hard here: a process is moved out of the table by
whoever works on it, so every waker, canceller and the monitor race for it; a
parent registers for a child that is terminating at the same moment; the
monitor decides that the run is over from counters it does not read atomically;
a condition variable is signalled while workers are between looking and waiting;
a worker pool grows and shrinks while jobs arrive; a deadline passes while its
request is being taken; processes of a tree charge and refund shared counters in
several steps, any of which may be refused; a collection runs while an object
under construction is in no root; heap slots are reused while caches describe
them; the front end and both machines must agree on what a program means through
some twenty thousand lines of translation; the lockfile and the module cache are
changed by other processes while a compilation reads them. `PROJECT.json` lists
each hazard at the line where it bites, with the properties that watch over it.

## 2. Modules

`MC*` modules extend a component's module and add what TLC needs: symmetry sets,
programs, and functions that a configuration file cannot write. They change no
definition. A definition whose comment begins with "Faulty" is a wrong variant of
the one after it; no specification uses it. It records a bug that the properties
would catch.

### ThreadedState, ThreadedWorkers, ThreadedWaits, ThreadedRuntime

`ThreadedState` has the variables, the initial state and the small operators;
`ThreadedWorkers` the worker loop, the results of a slice, park and resume,
cancellation and `finish_process`; `ThreadedWaits` joins, `wait_any`, the waking
of waiters, I/O and the monitor; `ThreadedRuntime` the next-state relation, the
specification and the properties. One action is one operation on shared memory (one DashMap operation, one atomic
access, one call of the scheduler or the backend) with the local computation
around it; the thread's program counter is `th[t].pc`. Between any two actions
of a thread every other thread may act. The variables follow `ProcessTable`:

* `owner[p]` is where the `Process` value is: in the table, in a local of thread
  `t`, or nowhere. `take_runnable`, `take_blocked` and `try_cancel_in_table` are
  the only ways out of the table, and each is one action with the predicate the
  code evaluates under the entry's lock.
* `live`, `tombs`, `pending`, `reg`, `ioWaiters` are the maps of the same name.
* `th[t]` has the process the worker runs (`me`), the terminations that wait in
  the handler's `Terminations` (`term`), the process that is being finished
  (`fin`) and the children it still has to reap (`kids`), the wake-up under way
  (`wake`, `wl`) and the process it resumes or parks (`cur`).

What a program does in a slice is a choice from what its `program` record lists
for the root or for a child: finish, fail, yield, spawn, await, await_result,
cancel, wait_any, or request I/O. Values are left out. A handler is a sequence of labels: `HandleAwait` classifies the
child (`live` first, then the tombstone, as `classify_child` does), `Register`
adds the waiter, `Park` puts the process back, `ParkObserve` and `ParkCancel`
look at `pending_cancels`, and `Recheck` looks again for a child that ended in
between. `FinishProcess` to `ChildrenDone` are `finish_process`; `Wake` to
`Consume` are `wake_waiters` and `wake_any_waiters`; `IoCheck` to `IoRefusedTake`
are `handle_io`; `Poll` to `Conclude` are the monitor in `run_to_completion`.

The model composes with `IoService` (`Io == INSTANCE IoService`): the runtime
sees the backend only through that contract, which `IoBackend` is checked to
keep. The scheduler appears as its queue: `FifoScheduler` shows that a queued
process is always dequeued by some worker that looks, so workers here simply take
from a nonempty queue.

`Lifecycle` is the abstract specification of the runtime: unborn, live,
terminated, reaped. `LifecycleImplemented` states the refinement, with
`lifecycleState` computed from `nextPid`, `live` and `tombs`.

### FifoScheduler

The mutex makes each critical section one action; `wait` on the condition
variable is an action that puts the worker to sleep, `notify_one` wakes any one
sleeper or is lost, `notify_all` wakes all. Spurious wakeups are allowed. The
scheduler takes a pid as often as it is given one, and `remove` drops all its
entries; that a runtime queues a process once is a property of the runtime
(`QueueExact`). `MaxQueue` bounds the queue for TLC and is arbitrary in the
proof. `try_dequeue` is a `dequeue` that never waits and has no action.

### IoService and IoBackend

`IoService` is the contract: a token is submitted, completes at most once, may be
cancelled (a request that runs already may still complete late), and is polled
once. `IoBackend` is `ThreadPoolIoBackend`: per-owner queues and the round-robin
`order` of `WorkState`, `inFlight` per owner, `idle` and `threads` of the elastic
pool, worker threads with their idle timeout, the timer thread with its heap and
cancelled entries, the pruning of the heap, and the two-phase shutdown.
`publish_queued` holds the timer lock over both insertions, so `RegisterHttp` is
one step; a mutant that publishes apart breaks `DeadlinesCovered`. Its rollback
when `push` refuses has no step: `shutdown` borrows the backend mutably and stops
the timers first, so no call finds the timers open and the queue closed. Time is
abstracted to the set of timers that are `due`. What a request computes is
abstracted to the fact that it completes.

### TreeBudgets

Processes of one tree, each at a label inside an operation, and the counters
`used`. Each atomic `try_charge` or `refund` is an action, so an admission that
is refused halfway, a host resource whose kind limit is hit after the total was
charged, a collection and a drop all interleave with the other processes. A slice
reserves its fuel up front and returns what it did not use; it may fail before
its first opcode, and may collect after it has returned its fuel (`leaving`).

Refund and release are separate steps, in the order of the code. A resource that
cannot be created, or is collected, first leaves `host_resources` (`count`), then
the total and the kind are refunded, and the count by kind falls last (`Unkind`,
`Uncount`). `Drop for Heap` refunds bytes, total and kinds (`left` holds the kinds
to come) while the objects and resources still exist; only then are the fields
freed (`DropFields`) and the slot dropped. So the first part of `BudgetsBalance`
(`Charged`) speaks of the processes that are not being dropped: during a drop the
tree may for a moment hold more than is charged. A refused spawn drops the child
with the captures it had received by then. One opcode costs one unit of fuel, as
in the stack machine; the weights of the register machine are in `RegisterVm`.

### Runtime

The single-threaded runtime: one loop takes a pid from the queue and runs a slice.
The handlers of `run_one_slice` are one action each; a termination is a stack of
pending ones (`terms`), and `finish_process` is a sequence of actions, one for the record
(`FinishProcess`), one for each child (`ReapChild`) and one for each waiter it
wakes, because each of them may push further terminations. `pc` says where the thread is. It refines the same `Lifecycle`
as the threaded runtime, with `tombs` in place of the concurrent tables.

### Heap, Messages, ProcessHeaps

`Heap` is the object heap: slots, the free list, the collection threshold, mark
and sweep, and the cache of sent messages with its footprint. A heap object is its
kind and its fields, a field is 0 (any value outside the heap) or a slot.
`Messages` is `sendable.rs` as functions of a heap: the measure with its explicit
stack, serialization of shared values, and rebuilding. `ProcessHeaps` composes two
processes: the opcodes that allocate or move values between roots, `spawn` with
its snapshot of globals, reads of inherited globals, and the child's result. Its
properties are stated over everything an opcode may still read, not over the
roots that the collector is given.

### The toolchain

`Toolchain` takes a program, given as its files, through every phase; a step is a
token, a declaration, a file access, a verified instruction or an executed one.
The modules it composes are functional: each is the state of one phase as a
record and one operator per function of the source.

* `Lexer`, `Parser`, `Syntax`: a tree node is `[k, v, n, c, p]` (kind, name,
  number, children, the tokens it spans). The parser's state carries the depth,
  with `Nested`, `BeginChain`, `Link` and `EndChain` where the code has them.
* `Pretty`, `Formatter`: what is printed as a sequence of tokens and comments;
  line breaks only where a comment's ownership depends on them.
* `Desugar`: structures and signatures flattened, clausal functions, folding;
  `Numbers` has the fixed-width arithmetic, with the width scaled to 8 bits.
* `Types`, `Infer`, `Exhaustive`: substitution and levels, unification, inference
  of every form, the matrices of the exhaustiveness check.
* `Bytecode`, `Compiler`: an instruction is a record with its operands; jumps are
  absolute positions. Scopes, captures, global slots and their reuse, recursive
  groups, pattern matches, handlers and tail calls are as in `compiler.rs`.
* `Packages`: the loader and the package commands. `world` is what other
  processes see: lockfile, cache, registries. `Resolve` is one access of the
  loader, `RunCommand` one of a command; `NextCommand` also stands for a command
  that is killed, since the next one starts from what it left. Commands take their
  steps while the loader is at work: nothing else reads what they write.
* `Verifier`, `StackVm`, `RegisterVm`: one turn of the worklist, one instruction
  of the stack machine, one of the translation and one of the register machine
  with its slices of `SliceFuel`.
* `Parser`, `Infer`, `Compiler` and `Pretty` are mutually recursive functions in
  the code. A recursive operator of TLA+ has to be declared before its use, so
  each of these modules declares one (`Rule`, `Infer`, `Code`, `Text`) that
  dispatches on the name of the function.
* `Meaning` is no part of the code: an evaluator of the parsed source, with
  environments instead of slots, captures and globals, which the compiled program
  is compared with.

## 3. Runs

| Run | States | Time | What it asks |
|---|---|---|---|
| `threaded_join` | 404,632 | 2m30 | root, child and grandchild on two workers; spawn, await, await_result; `wait_any` over two children that end or are cancelled at every point of the registration |
| `threaded_faults` | 585,062 | 2m10 | every operation, I/O tokens, foreign pids, refused spawns and requests, failed deliveries, in two programs: one of I/O, one of joins |
| `threaded_progress` | 75,122 | 1m15 | liveness and the fair refinement |
| `threaded_orphans` | | 1m50 | a documented property the code violates (section 6) |
| `budgets` | 786,329 | 1m10 | three processes, two kinds of resource, every limit small enough to be hit |
| `budgets_starved` | | 5s | a documented property the code violates (section 6) |
| `scheduler` | 41,469 | 20s | three workers, three pids, a queue of up to four entries; safety and liveness |
| `backend_pool` | 201,352 | 1m50 | four blocking requests of two owners, one to three threads, shutdown at any time |
| `backend_requests` | 70,052 | 1m30 | a sleep, HTTP with deadlines, cancellation, shutdown; safety, refinement and liveness |
| `runtime` | 16,882 | 5s | four processes of the single-threaded runtime, every request |
| `heap` | 132,189 | 45s | two heaps of four objects, every opcode that allocates, two spawns |
| `toolchain` | 229,143 | 1m15 | 732 programs from text to result on both machines, package commands alongside |

What they show:

* **Ownership and run tokens** (`OwnershipExact`, `QueueExact`). A process out of
  the table is in a local of exactly one thread, nobody terminates it twice, and
  no live process is dropped on an error path. A runnable process in the table
  has exactly one run token, so a queue entry is never stale and a runnable
  process is never forgotten; in the single-threaded runtime the queue is exactly
  the set of runnable processes between slices.
* **Joins** (`TerminatedHasTombstone`, `LifecycleImplemented`). The order of
  `finish_process` (tombstone, then live) and of `classify_child` (live, then
  tombstone) is what lets a parent rely on "not live implies tombstone". An
  outcome is consumed at most once and never forgotten while its parent lives;
  both runtimes implement the same contract.
* **Quiescence and shutdown** (`EndsRight`, `NeverStuck`, `CleanEnd`). When the
  monitor concludes, there is no work left and nobody is stuck; the tables are
  empty, no waiter or cancel request stays behind, and no request runs that nobody
  waits for. The safety net for blocked processes is never needed in either
  runtime.
* **Progress** (`Termination`, `LifecycleImplementedFairly`, `QueuedRuns`,
  `EveryRequestSettles`, `ShutdownReturns`).
* **Scheduler** (`NoLostWakeup`). While any worker sleeps, every queued pid has
  a woken worker coming for it, and after shutdown nobody sleeps.
* **Pool and timers** (`AccountingExact`, `NoStrandedJob`, `FairTurns`,
  `DeadlinesCovered`, `ServiceImplemented`). `idle`, `threads` and `inFlight` agree
  with the threads at every lock release, through a shutdown too; a job that may start has a worker on its
  way unless the pool is at its maximum and busy; an owner moves up whenever
  another one is served; a deadline is pending exactly while its request is.
* **Budgets** (`LiveSlotsExact`, `FuelConserved`, `BudgetsBalance`). No counter
  passes its limit, what the processes that are not being dropped have is charged
  between any two steps, and when no operation is under way every counter is what
  the processes have, whatever was refused.
* **Heaps** (`NoDanglingRef`, `ReachableKept`, `SentCacheCoherent`). A collection
  in the middle of an allocation frees nothing an opcode may still read, slot reuse
  changes no reachable object, and a cached message is always what serializing its
  object again would give.
* **Messages** (`MessagesBounded`, `TransfersFaithful`, `GlobalsAgree`). The
  memoized measure bounds the tree that is built from a shared value; what arrives
  is what was sent; a snapshot of globals is never older than the globals.
* **Front end** (`NestingBounded`, `FormatFaithful`, `LevelsAgree`). The parser's
  running depth agrees with the depth of the tree it builds; what `hiko fmt` prints
  reads back as the same program with every comment once and in order; the levels
  on type variables decide generalization as the environment would.
* **Packages** (`PinsKept`). Whatever other commands do to the lockfile and the
  cache, one compilation takes all its modules from one lockfile and each is what
  that lockfile pins; what `build-vm` seals and what `install` writes is likewise
  backed by texts that were served.
* **Execution** (`TypedRuns`, `DepthsCovered`, `NothingLeft`, `MachinesAgree`,
  `MeaningPreserved`). A typed program compiles and verifies, and fails only where
  the language says it may; the verifier's depths hold in every execution; a
  program leaves neither operands nor handlers behind; the register machine ends as
  the stack machine does and charges the same work, through any slicing of its
  fuel; and the result is what the source means.

### Bounds

`MaxPid` 2 or 3 gives a parent with two children or a chain of three, which is
what the code distinguishes (parent, child, someone else); the single-threaded
runtime has 4. `fuel` bounds the slices of the whole tree, as `max_fuel` does, and
a tree that runs out fails through the code's own path, so the bound adds a
behaviour and cuts none short. `wait_any` lists have at most two pids. Two workers
and the monitor are enough for every two-party race; workers are symmetric.
`MaxTok` 2 gives two requests in flight or one process that requests twice. In
`IoBackend` three tokens are needed before the heap can be pruned while another
timer is pending, and four before an owner can be at its limit with others behind
it. `HeapSlack` stands for the constant of the pruning rule. In `TreeBudgets` the
limits are just below what the tree could use, so that every refusal occurs; three
units of fuel let each of three processes do something, or one of them create,
collect and create again.

In `ProcessHeaps`, `MaxObjects` 4 with `GcMin` 2 makes collections happen inside
allocations and slots be reused; `MaxMessage` 3 and `MaxDepth` 2 are within what
four objects can exceed; two spawns let the second use what the first cached.
`MaxAllocs`, `MaxStack`, `MaxHeld` and `MaxSpawns` bound the behaviours.

The programs of `toolchain` are built, not sampled: every pair of 14 contexts
around an operand, every atom that stops a computation in every context, all
pairs of rebindings of the same names, every integer form in every position the
register translation distinguishes, every import form, package commands against
lockfile, cache and registry in agreement and not, each way of nesting around the
limit (`MAX_NESTING_DEPTH` is 5 there), and comments at every place. Integers have
8 bits (`IntMax` 127, `WordMax` 255), so that overflow happens; 20 frames, 60 stack
slots and 8 handlers are reached by a recursion; `SliceFuel` 2 is less than the
weight of many register instructions.

### Fairness

`ThreadedRuntime!FairSpec` has weak fairness of every worker thread and of the
monitor, because the operating system schedules them and no lock is held between
two actions, and of the completion of an accepted request, which is what
`EveryRequestSettles` says of `IoBackend` under fairness of its own threads.
`FifoScheduler!FairSpec` has weak fairness of each worker's steps and of the end
of the slice it runs (a slice is bounded by fuel), and none of the environment's
enqueues and shutdown. `IoBackend!FairSpec` has weak fairness of the workers, the
timer thread, the passing of time and the remaining steps of a shutdown under
way, and none of requests, cancellations or the call of shutdown. No strong
fairness is assumed anywhere. `Runtime`, `ProcessHeaps` and `Toolchain` state
safety only.

`CHECK_DEADLOCK FALSE` appears in `backend_pool` and `backend_requests` (a backend
whose tokens are used up and which is shut down has nothing left to do), in `heap` (a process at
its bounds stops) and in `toolchain` (a program ends or is rejected).

## 4. Proofs

tlapm checks every theorem to its last leaf. None assumes more than the named
`ASSUME` of the component.

* `FifoSchedulerProofs!WakeupsNotLost`: `Spec => []NoLostWakeup` for any finite
  set of workers and any set of pids. `NoLostWakeup` compares the length of the
  queue with the number of woken workers, so the inductive invariant adds
  `TypeOK`: a worker is asleep, woken, returned or holds a pid, never two of
  these. Each action then changes the length and the cardinality by at most one
  (`WorkerCount`), in the order that keeps the inequality, and `remove` only
  shortens the queue (`RemoveShortens`).
* `TreeBudgetsProofs!LiveSlotsCounted`: `Spec => []LiveSlotsExact` for any tree,
  limits and programs. The inductive invariant ties each label to the slot it
  holds: a process in the middle of a spawn holds the slot of a child that has
  none yet, and no two spawns hold the same one; without it a refused admission
  could give back a slot twice.

Out of the prover's reach, and left to TLC: liveness; the sums over processes in
`FuelConserved` and `BudgetsBalance` (they need induction over a finite set); the count of run tokens in `QueueExact` (`SelectSeq`).

## 5. What is not modelled

* `exec` and the other host commands, file-system policies and configuration:
  the operating system decides what happens.
* The builtins, except `string_length`, which stands for them where a call of a
  builtin is typed, compiled, verified and run; extensions, whose jobs are requests
  of `IoBackend` and whose additional import checks are left out of `Packages`.
* The shape checker (`shape_check.rs`), a debugging aid; `register_check.rs`, whose
  comparison of the two machines is the property `MachinesAgree`.
* Floating-point numbers and characters beyond their tokens; Unicode; line width
  and indentation in the formatter; spans in error messages, and all wording.
* `MockIoBackend` and the loom substitution in `sync.rs`, which are test code; the
  command line's own argument handling; documentation generation.
* The fixed I/O and host-work budgets, which only grow by the `try_charge` that
  `TreeBudgets` models for spawns.
* Memory orderings weaker than sequential consistency (the counters the monitor
  decides from are `SeqCst`; the `Relaxed` budget counters and token source are
  each updated by single atomic read-modify-write operations, and no other data is
  published through them).
* In `ProcessHeaps`, two processes that run at the same time: heaps share nothing,
  so the parent awaits its child. In `Packages`, a file that another program edits
  by hand.

Some programs are left out of `toolchain` because the code is known to treat them
as section 6 says: a closure call in the return clause of a handle expression
outside tail position, `local` inside `let`, a top-level `local` whose public part
is a function using a private value, files with operators of different types at
the same span, and a program that relies on a private name being hidden.

## 6. Disagreements between documents and code

Checked by a run:

* `threaded_orphans`. The module comment of `threaded.rs` says a cancellation of
  a process that is out of the table is observed "when it next parks the process
  or when a worker next dequeues it", and `finish_process` that "children must not
  outlive their parent". `park` inserts the process, removes the pending request
  and then tries to cancel; a waker that takes the process between the insert and
  the retry makes the retry fail, and the request is gone. The counterexample
  ends with the child running a slice after its parent's termination is complete.
* `budgets_starved`. `docs/architecture/execution-bounds.md` says that a child
  that runs out of fuel has used up the tree's fuel. A slice reserves fuel up
  front, so a child fails with FuelExhausted while its parent's slice holds fuel
  that it returns unspent and reserves again.

Met while modelling, and kept out of the programs the runs use:

* `compiler.rs:3226` says `compile_handle` compiles a handle expression "whose end
  is also the end of the current function, so the return clause is compiled in tail
  position"; it is used for every handle expression. A closure call in the return
  clause of one that is not last becomes a tail call and the rest of the function
  is lost.
* `compiler.rs:1989`: `local` inside `let` pops its private names from below the
  public ones, and later names of the `let` are read from the wrong slots. At top
  level, `local val a = 1 in fun f x = a + x end` does not compile.
* `infer.rs:971` says that the names of `local` "are in a private scope";
  `infer_decl_pass` handles a top-level `local` by itself and leaves its private
  names in the type environment.
* `compiler.rs:3189`: types of operators are keyed by span, and every file is
  lexed with file id 0 (`compiler.rs:2408`), so an operator of one file may take the
  type of one of another file.
* `heap.rs:1130`: a collection rebuilds the free list from what it frees itself;
  slots that were free already are never used again and count as live objects,
  against `docs/architecture/execution-bounds.md:170` ("live heap object count of
  one process").
* `sendable.rs:278`: measuring "takes time proportional to the heap objects
  reachable from `value`", but does not end on a closure that refers to itself.
* `parser.rs:15` says "The parser's own recursion is held to the same limit."; the
  operands of `perform` and `resume` are parsed without counting.
* `pretty.rs:167` says each comment "is owned by exactly one of them"; a comment
  of several lines on the last line of a private declaration is lost, as is one
  after the character literal `#"""`.
* `verify.rs:571` treats a tail call as the end of a path; the machine continues
  after a tail call of a builtin. The compiler always puts a return there.
* `register.rs:687` says the total charged is "exactly the stack VM's"; on a stack
  overflow the register machine has charged for the whole instruction.
  `MachinesAgree` is stated accordingly.

## 7. Plan

Done: the concurrent core and its abstract specifications, both runtimes, heaps
and messages, and the toolchain from text to result with its packages.

Next, in this order:

1. Theorems: `TypeOK` and `TerminatedHasTombstone` of `ThreadedRuntime` from one
   inductive invariant (ownership at each label, family relation of pids, stage
   of a termination), then its step simulation of `Lifecycle`; `AccountingExact` of
   `IoBackend`.
2. `Exec`: two pipes, output limits, timeout and exit of a host command.
3. The shape checker over the programs of `toolchain`, and floats.
4. The caches and generators of the builtins (regex cache, random numbers).
