# TLA+ models of the WASIX deep-sleep syscalls

These modules model the parts of the WASIX layer whose behaviour depends on how
steps interleave: the process runners, the deep-sleep cycle, and the syscalls
that suspend a guest (`thread_sleep`, `poll_oneoff`, `proc_fork`). They also
model the import object a module is linked against
(`src/lib/api/src/{sys,js}/imports.rs`). They are written from the source under
`src/`, and the TLC runs and TLAPS proofs below check them.

## The system

A guest process runs under one of two **runners**:

- `call_module` (`bin_factory/exec.rs`) runs a process started by exec.
- `run` (`syscalls/wasix/proc_fork.rs`) runs a child made by a copy-mode fork.

The runner calls `_start`. The call ends in one of four ways: a return, a trap,
`WasiError::Exit(code)`, or `WasiError::DeepSleep`.

A syscall that waits goes through **`__asyncify_with_deep_sleep_ext`**. It
blocks the host thread for at most one window (50ms). If the wait has not
resolved by then, it unwinds the guest's stack and raises `DeepSleep`.

The runner then passes three things to `resume_wasm_after_poller`: a respawn
closure, the captured stacks, and the awaited trigger. When the trigger
resolves, the respawn runs in this order:

1. `rewinding_finish` runs the syscall's after-closure, for example writing the
   poll events, and sets the rewinding flag.
2. `rewind` restores the stack.
3. `_start` is called again. The guest replays into the same syscall, where
   `handle_rewind` sees the flag and returns.

Every syscall begins with `process_signals_and_exit`, so a signal that arrives
during the sleep ends the replay instead. The engine pieces are not under
`src/`: `__asyncify_with_deep_sleep_ext`, `unwind`, `rewind`, `handle_rewind`,
`rewinding_finish`, `process_signals_and_exit` and the task manager. They are
modelled from the spec and marked `spec_modelled` in the map.

## Modules

| module | models | state |
|---|---|---|
| `DeepSleep` | runners and scheduler: launch, end of `_start`, exit-code mapping, blocking window, unwind, respawn, signals, time | `status`, `runner`, `syscall`, `rewinding`, `deadline`, `window`, `sigs`, `code`, `cause`, `now`, `calls` |
| `ThreadSleep` | `thread_sleep_internal` on `DeepSleep` | as `DeepSleep` |
| `PollOneoff` | `poll_oneoff` and `poll_oneoff_internal` on `DeepSleep` | adds `seed` (poll_seed), `nevents`, `evts` (out buffer), `batch` (pending guards, clock_subs, call time), `ready` (ready fds) |
| `ProcFork` | `proc_fork` in copy and vfork mode, the forked child's task, on `DeepSleep` | adds `children` (each process's children list), `pidcell` (the value at `pid_ptr` in the stack the process resumes on), `forkret` (what the last `proc_fork` returned), `pidslot` (history: each copy-mode fork's `pid_ptr` offset and what the check computed) |
| `ImportsOps` | constants of an `Imports` object and the operators on its map (a later pair wins, one map merged into another, the result of linking) | — |
| `ImportsMap` | what an `Imports` object promises: every operation atomic (abstract specification) | `amap` (each object's map), `aout` (the last call) |
| `Imports` | `Imports` in sys and js, with `register_namespace`, `extend` and `imports_for_module` run one iteration per step | `map`, `op` (the loop in progress), `out` (the last call) |
| `ThreadSleepProofs` | TLAPS proofs about `ThreadSleep` | — |
| `ProcForkProofs` | TLAPS proofs about `ProcFork` | — |
| `ImportsProofs` | TLAPS proofs about `Imports`, its refinement of `ImportsMap` included | — |
| `PollOneoffProofs` | TLAPS proofs about `PollOneoff`: the folds of its loops, the inductive invariant `PollInv` | — |
| `MCThreadSleep`, `MCPollOneoff`, `MCProcFork`, `MCImports` | model values, subscription sets and offset sets for TLC | — |

**How the process status corresponds to the code:**

- `spawning`: `BinFactory::spawn` is looking up and compiling the binary.
- `running`: the guest executes.
- `blocked`: the host thread waits inside the window.
- `sleeping`: the stack is unwound and the task manager holds the respawn
  closure.
- `stranded`: `resume_wasm_after_poller` failed, and no one holds the process.
- `exited`: cleanup ran and `code` holds what the runner passed to it.
- `forked`: a copy-mode child whose task the task manager accepted and has not
  run yet; `dropped`: a child whose task was refused, or whose environment was
  dropped when `pid_ptr.write` faulted; `vforked`: a parent parked in
  `WasiVFork` while its vfork child runs in its place.

`cause` is a history variable. It records how `_start` ended, so that the
exit-code property can compare the two.

**Actions and what they model:**

- `Launch` covers the Noent and Noexec failures of `spawn`, `spawn_exec` and the
  run closure. When the scheduler may fail, it also covers `task_wasm`
  refusing the task (exec.rs:136-141). That error is returned with no cleanup,
  so the process is stranded.
- `GuestEnd` covers a return, `proc_exit` and a trap.
- `BlockKilled` is the `should_exit` check inside the window.
- `Unwind` is the window ending unresolved, followed by the runner's
  `DeepSleep` arm.
- `Respawn` (used by each syscall's wake action) is the respawn closure up to
  the new `_start` call.
- Each syscall action models the whole handler from its signal check to its
  return.
  - `PollBlock` covers the outer function, both loops of
    `poll_oneoff_internal`, building the `PollBatch` and choosing the asyncify
    timeout.
  - Each loop is a fold (`FoldSubs`) of one join: `CheckStep`/`ClockStep`/
    `FdCheck` for the check loop, `GuardStep` for the guard loop and
    `PollGuard` for `PollBatch::poll`. A join's early returns are an `IF`
    chain in the code's order. `FoldSubs` is a recursive function rather than
    a `RECURSIVE` operator, so the provers can reason about it.
  - `PollWakeTimeout` is the after-closure's `Timedout` arm, run by the
    respawn.
  - `PollRewound` is the replayed call: it clears `nevents` again, and then
    `handle_rewind` returns.

**proc_fork** (`ProcFork`). Every path of the handler is an action:

- `ForkKilled` and `ForkRewound` are the signal check and `handle_rewind`; the
  replayed call returns what `pid_ptr` holds in the process's own stack.
- `ForkFailed` is `fork()` failing (Perm); `ForkWriteFault` is
  `pid_ptr.write` faulting after the child was pushed onto `children`.
- `ForkCopy` is the copy-mode call and its unwind closure up to the parent's
  rewind: the child's task is spawned (or refused, the error dropped by
  `.ok()`), then `PidSlot` checks `pid_ptr` with the code's wrapping u64
  arithmetic (`% 2^Width`), and the parent either resumes on the patched stack
  (`ParentResumes`) or traps with Memviolation or a failed rewind
  (`ParentTraps`). The child keeps the copy taken before the patch.
- `ForkVfork` swaps the running environment for the child's and parks the
  parent.
- `ChildStart` is the child's task: it rewinds the copied stacks and calls
  `run`, or returns without cleanup when the rewind fails.
- `RewindMayFail`, `SchedulerMayFail` and `MemBytes` switch the failure paths
  on; the runs choose them per question.

**Abstractions:**

- **Time** is a discrete clock `now` up to `MaxTime`, and the window is
  `PollInterval` ticks. `Infinity = MaxTime + 1` stands for `None` and
  `Duration::MAX`.
- **Subscriptions** are records with a type, an fd, a clock, a timeout and
  userdata. The timeouts 0 and 1 keep their meaning as sentinels.
- **Events** keep only userdata and type.
- **Memory faults** in guest reads and writes are not modelled.
- **The fold over subscriptions** is written as a recursive function, not a
  RECURSIVE operator, so that the modules stay within the prover's reach.

**The import object** (`Imports`, `ImportsMap`, `ImportsOps`). An `Imports` is
a `HashMap<(String, String), Extern>`. `Imports` keeps one map per object as a
total function from keys (namespace, name) to an extern or `Absent`.

- `Define`, `GetExport`, `ContainsNamespace` and `GetNamespaceExports` are
  single steps, one per method.
- `register_namespace` is `RegisterStart`, then one `RegisterInsert` per pair
  of `contents`, then `LoopDone`.
- `extend` is only in js. It is `ExtendStart`, which takes a clone of the other
  object's map (`IntoIterator for &Imports`). Then comes one `ExtendInsert` per
  entry, in any order, because a HashMap's iteration order is unspecified.
- `imports_for_module` is `LinkStart`, then one `LinkLookup` per import in
  the module's order. Either the lookup finds the key and pushes its extern,
  or it returns the `LinkError` for the first missing one. `LinkDone` returns
  `Ok(ret)`.
- The methods take `&mut self`, so no other call on an object runs while one
  of its loops does. A single `op` records the loop in progress.
- `out` records every call, with its arguments when the call returns `()` and
  with its result otherwise. Without it, a state change would not say which
  operation made it.
- Data is abstracted to model values. The `Debug` output, `to_export`, the
  iterators (read-only) and the `imports!` macros (a new object and
  `register_namespace` calls) are left out.

`ImportsMap` is the abstract specification: the same operations, each atomic,
on `amap`. `Imports` implements it under the refinement mapping `AbsMap`.
`AbsMap` is the map with the rest of the loop in progress already applied:

- for `register_namespace`, the pairs from position `i` on
  (`Registered(m, ns, c, i)`);
- for `extend`, the pending entries of the snapshot.

A lookup loop changes nothing until it returns, so it maps to a stutter. Its
return maps to `ALink`.

## Runs

| run | cfg | expect | what it shows |
|---|---|---|---|
| thread_sleep | `MCThreadSleep.cfg` | pass | `SleepNotEarly`, `Termination` for two processes sleeping 0, 1 or 2 ticks, signalled at any moment |
| exit_code | `MCExitCode.cfg` | violation | `SuccessOnlyIfSucceeded`: a non-zero exit, or a kill, is recorded as Success by `call_module` |
| stranded | `MCStranded.cfg` | violation | `EventuallyExitCode`: a failed `resume_wasm_after_poller` leaves the process with no exit code forever |
| poll_safety | `MCPollOneoff.cfg` | pass | `PollTypeOK`, `PollGuardsHaveRights` (the code's rights rule, stdout and stderr exempt) over every rotation of up to two of eight subscriptions |
| poll_live | `MCPollLive.cfg` | pass | `PollReturns`: a poll on a ready fd or with a finite timeout returns |
| poll_nevents | `MCNevents.cfg` | violation | `NeventsMatchEvents`: after a deep sleep the guest reads `nevents = 0` with events in its buffer |
| poll_clock_events | `MCClockEvents.cfg` | violation | `ClockEventsExpired`: a clock is reported expired before its own timeout |
| poll_zero_timeout | `MCZeroTimeout.cfg` | violation | `ZeroTimeoutReturns`: a timeout-0 clock makes the poll wait forever |
| fork_safety | `MCProcFork.cfg` | pass | `ForkDeterminism`, `PidSlotMatchesStack` for three pids, both modes, every failure path, `pid_ptr` anywhere in a 5-bit space |
| fork_live | `MCForkLive.cfg` | pass | `ChildrenExit`: every linked-in child runs and exits (or is parked by its own vfork) |
| fork_lost_child | `MCForkLost.cfg` | violation | `ChildrenExit`: a child refused by the scheduler, whose rewind fails, or left in `children` by a `pid_ptr` fault, never exits |
| imports_refinement | `MCImports.cfg` | pass | `ImportsRefinement`: the loops of `Imports` implement the atomic `ImportsMap` |

**The violations are findings** (see `findings` in `PROJECT.json`).

- `poll_nevents`: the replayed outer `poll_oneoff` clears `nevents` at
  poll_oneoff.rs:49. This happens after the respawn's after-closure has written
  it.
- `poll_clock_events`: each clock overwrites `time_to_sleep`
  (poll_oneoff.rs:229), and the `Timedout` arm reports every clock
  subscription.
- `poll_zero_timeout`: timeout 0 becomes `Duration::MAX`, which means no
  timeout (poll_oneoff.rs:225 and 311). The comment at lines 222-223 says this
  should be an immediate check.
- `exit_code`: exec.rs:226 and 258-262 map a non-zero exit to Success.
- `stranded`: exec.rs:240-245 ignores the failure, and so does
  proc_fork.rs:298.
- `fork_lost_child` shows three defects. Each one alone violates `ChildrenExit`:
  - proc_fork.rs:186-193 drops the `task_wasm` error with `.ok()`. The parent
    gets the pid of a child that never runs, and spec 4.4 says the fork must
    then report failure.
  - proc_fork.rs:166-171 returns from the child's task without cleanup.
  - proc_fork.rs:52-56 links the child before the `pid_ptr.write` at line 60
    can fault.
- The fork runner's table has the defect of `exit_code` too: proc_fork.rs:301
  (`_ => {}`) keeps the initial Success for a trap. `ForkExitCode` models it;
  no run asks it separately.

**Bounds.**

- The thread-sleep run uses:
  - two processes, which is enough for one to sleep while the other ends or is
    signalled;
  - `MaxTime = 4`;
  - `PollInterval = 1`, so that a sleep of 2 ticks outlives the window and goes
    through the unwind, respawn and replay, while a sleep of 1 tick can resolve
    inside the window;
  - two syscalls per process.
- The poll runs use one process. The fd table has:
  - stdio, with stdin lacking the poll right;
  - fd 3, pollable and with the right;
  - fd 4, without the right.
- The poll subscriptions cover every branch of both loops: a read of stdin, fd 3
  and fd 4, a write to stdout, a 2-tick clock, the sentinels 1 and 0, and an
  unsupported clock.
- With up to two subscriptions, every rotation and every pair of clocks (a
  duplicate included) is reached.
- `poll_safety` also lets the task manager fail (`SchedulerMayFail = TRUE`):
  `task_wasm` refusing the process at launch, and `resume_wasm_after_poller`
  failing after an unwind. Both stranded branches are covered.
- `PollGuardsHaveRights` states the code's rule, not the spec's. The code
  builds a guard for stdout and stderr without checking their rights
  (poll_oneoff.rs:194, 261-265). In `MCPollOneoff.cfg` stdout lacks the poll
  right and still gets a guard. The spec's capability rule ("polling an fd
  without poll rights always yields Access") has no such exemption, so
  `poll_safety` does not show that the code meets it. It shows that every
  other fd, stdin included, is refused without the right, even though the
  check loop lets stdin through.

- The fork runs use three pids with one started, so a parent can fork twice
  or a child can fork again (and vfork), and `MaxCalls = 2`. The stack is
  [8, 24) with an active part of 10 bytes in a 5-bit address space, and
  `pid_ptr` ranges over all 32 offsets, so offsets below, inside and above the
  stack and the wrap of `pid_offset + 4` and `stack_upper - pid_offset` are
  all reached. `MemBytes = 32` makes the last three offsets fault on write;
  `fork_live` leaves those out, and turns the spawn and rewind failures off,
  since each of them strands a child by design (the violation runs).
- The imports run has two objects, two namespaces, one name and two externs
  (23,033 states). There are three `contents` sequences: empty, one pair, and
  a name given twice with different externs, so that "the last pair wins" is
  tested. There are three import lists: empty, all present or one missing, and
  a repeated key before a second one, so that both the missing and the present
  paths run at several positions. A second name multiplies the states past
  five million without adding a case that the one name lacks.
- The model keeps release-build wrapping arithmetic; a debug build panics on
  the same overflow instead.

**Fairness.** The fairness is weak fairness on each process's steps and on the
clock:

- The task manager polls every task it holds, and a blocked host thread
  returns when its window ends. Both are weakly fair steps of the code.
- The clock advancing stands for the timer.
- Signals and fds becoming ready are the environment's choice and get no
  fairness.
- The liveness runs use no symmetry.

Each property of a passing run has a mutant, an operator that changes one
mapped definition the way a plausible bug would, and TLC finds the property
violated under it:

- `SleepTimeoutEarly`: off-by-one in the deadline check of the blocking wait.
- `UnwindDropped`: the respawn closure is dropped.
- `PollBlockUnmatched`: the `asyncify_time` match is dropped, so `Duration::MAX` is added to the clock.
- `GuardStepStdin`: the guard loop treats stdin like stdout.
- `ParentResumesChildPatched`: the child's stack is copied after the patch.
- `PidSlotNoActiveCheck`: the active-stack check (proc_fork.rs:206-213) is
  dropped.
- `ChildStartNoInvoke`: the child's task returns before calling `run`.
- `RegisterInsertKeepOld`: `register_namespace` keeps an existing entry
  (`entry().or_insert`), so the first pair for a name wins.

## Proofs

`ThreadSleepProofs` proves these for every value of the constants, under
`ConstantsAssumption` and `DurationsAssumption`:

- `TypeCorrect`: `Spec => []TypeOK`.
- `SleepNeverEarly`: `Spec => SleepNotEarly`. There are only two ways back to
  the guest.
  - On the blocking path, the timeout guard gives the result directly.
  - On the replay, the result comes from the inductive invariant `SleepInv`
    (lemma `SleepInvariant`) and the signal guard of `SleepRewound`.
    `process_signals_and_exit` runs before `handle_rewind`, so a replay woken
    early by a signal ends the process instead of returning.
- `SleepInv` is defined in the proofs module. It is `TypeOK` plus two
  conjuncts:
  - `SleepWokenDue`: a process that is inside `thread_sleep` and running (so
    it was respawned and is replaying) is due or signalled. This holds because
    the task manager wakes a sleeper only then, the clock only advances, and a
    signal is never withdrawn.
  - A process that has not started is in no syscall.
  - `SleepInv` is a proof device, not a claim about the code, and no run
    checks it.

`ProcForkProofs` proves, under `ConstantsAssumption` and `ForkAssumption`:

- `ForkTypeCorrect`: `ForkSpec => []ForkTypeOK`.
- `ForkDeterministic`: `ForkSpec => []ForkDeterminism`. The invariant is
  strengthened to `ForkInv` with `PidsLinked`: a pid in a process's `pid_ptr`
  cell is one of its own children, a 0 there belongs to a linked-in child or
  to a process proc_fork never returns to (trapped, or parked by vfork), and a
  process that has not started has no cell. `ChildrenGrow` (children lists
  only grow) carries the "is a child" facts across steps. TLC checked
  `ForkInv` as an invariant of the fork_safety instance before the proof.
- `PidSlotCorrect`: `ForkSpec => []PidSlotMatchesStack` for every width and
  layout with `stack_upper + 4 < 2^width`. `SlotsRecorded` (each entry of the
  history `pidslot` is the check's own result for its offset) is inductive,
  and `PidSlotCheck` shows, from three lemmas on `%`, that the check's result
  for any offset is the intended one. The hypothesis is
  needed: with `stack_upper` within four bytes of `2^64`, the wrapped sum
  admits `pid_ptr = stack_upper` and the patch runs past the stack's end (a
  slice panic). A stack in a wasm memory is far below that.

`ImportsProofs` proves, under `ImportsAssumption`:

- `ImportsTypeCorrect`: `Spec => []ImportsTypeOK`.
  - The invariant is strengthened with `LinkInv`. While `imports_for_module`
    runs, `ret` is exactly the externs of the imports looked up so far, and
    the map holds each of them. TLC checked `IInv` on the imports run first.
- `ImportsRefines`: `Spec => ImportsRefinement`, for every set of objects,
  keys, externs and inputs.
  - `Init` maps to `AInit`.
  - `RefineStep` shows that every step of `Next`, from a state of `IInv` to a
    state of `IInv`, is a step of `ANext` or a stutter of `<<AbsMap, out>>`.
- The lemmas behind `RefineStep`:
  - `RegisteredStep`: an insert moves the applied prefix forward without
    changing `AbsMap`. It rests on `LastFromShift`.
  - `RegisteredEnd`: the loop's end.
  - `FirstMissingHere`: the lookup that fails is at the first missing import.
    This follows from `LinkInv`.
  - `InstanceOps`: the operators seen through the instance are the same.
- Record `EXCEPT` is outside the SMT backend. `RegisterLoopStep`,
  `ExtendLoopStep` and `LinkLoopStep` state what the loop updates leave.

`PollOneoffProofs` proves, under `ConstantsAssumption` and `PollAssumption`:

- `PollTypeCorrect`: `PollSpec => []PollTypeOK`, and
  `PollGuardsCorrect`: `PollSpec => []PollGuardsHaveRights`. Both follow from
  the inductive invariant `PollInv`, which TLC checked first on the
  poll_safety constants.
  - `PollInv` strengthens the two with `SeedBound` and `BatchBounded`.
  - `SeedBound` says `poll_seed` is at most twice the number of calls, and
    one less while a call waits for its replay. It is needed because the
    type gives `seed` the range `0..2 * MaxCalls`. Each call adds one on the
    fresh entry and one on the replay, so without it a rewind could push the
    seed out of range.
  - `BatchBounded` bounds the stored guards and `clock_subs` by `MaxSubs`.
    This gives the range of `nevents` once the events are written.
- The lemmas behind these:
  - `GuardFold`, `CheckFold` and `ReadyFold` state what each loop's fold
    computes: error codes, guards that all have rights, one guard, clock or
    event per subscription at most, and a `time_to_sleep` within the
    timeouts.
  - They are proved by induction over the prefix of the subscription list.
  - `FreshPrepared` combines them for a rotated subscription array.
- One lemma per group of actions: `PollQuietStep`, `PollFreshStep`,
  `PollEventsStep`, `FdReadyStep` and `SchedInvStep`. `PollInvInductive`
  combines them.
- `ReadyOfSound` states, for every list of guards, that `PollBatch::poll` is
  pending exactly when no guard's fd is ready. It also states that every
  event it returns is the userdata and type of a guard whose fd is ready.
- The induction runs over the fold's prefix length. `LeastNat` (a
  well-founded minimum on `Nat`) gives `SetInduction`, so no theorem with an
  operator parameter has to be instantiated. The library's `NatInduction` has
  one and cannot be used. For each fold, a lemma shows that the recursive
  function the fold chooses exists.

**What only TLC checks:**

- Liveness (`Termination`, `PollReturns`, `ChildrenExit`) and everything about
  ENABLED are beyond the prover.
- `RECURSIVE` operators, and theorems with an operator parameter, are also
  beyond the prover. The proved modules write their loops as recursive
  functions and prove facts about them by induction on the prefix length.

## Not modelled (yet)

- The fork runner's deep-sleep arm and respawn for a forked child: no syscall
  of `ProcFork` blocks. Composing `ProcFork` with `ThreadSleep` reaches them.
- A vfork parent's return, done by `proc_exec` or `proc_exit` outside `src/`:
  `vforked` is where the model leaves it.
- The failure of `rewinding_finish` or `rewind` inside a respawn.
- `Imports::new_from_js_object` (`unimplemented!()`), and the formatting and
  macro code of the import object.
- Snapshot serialisation and the byte layout of the captured stacks.

## Plan

1. **The respawn's failure paths**: `rewinding_finish` or `rewind` failing in
   `call_module` (cleaned up) and in the fork runner (not cleaned up,
   proc_fork.rs:255-266).
2. **A `Wasix` module** composing `ThreadSleep`, `PollOneoff` and `ProcFork`
   over one scheduler.
3. **Composing `Imports` with instantiation**: linking a module that imports
   from several objects.
4. **More proofs**: that the clock events written on a timeout are exactly
   the batch's `clock_subs`, and `ReadyOfSound` lifted to the events a wake
   writes.
