------------------------------ MODULE ProcFork ------------------------------
(***************************************************************************)
(* proc_fork (syscalls/wasix/proc_fork.rs) on top of the runners.          *)
(*                                                                         *)
(* A fresh call forks the environment (a new pid), links the child into    *)
(* the parent's children, writes 0 to pid_ptr and unwinds.  In copy mode   *)
(* the unwind closure spawns the child's task on a copy of the captured    *)
(* stacks, patches the child's pid into the parent's captured memory stack *)
(* when pid_ptr lies in its active part (else it traps with Memviolation), *)
(* and rewinds the parent.  In vfork mode the running environment is       *)
(* swapped for the child's, the parent's is parked, and the guest          *)
(* continues as the child.  Parent and child each replay into proc_fork,   *)
(* where handle_rewind returns the value pid_ptr holds in their memory.    *)
(***************************************************************************)
EXTENDS DeepSleep

CONSTANTS
    RewindMayFail,  \* whether rewind of a captured stack may fail
    Width,          \* the width of the offset arithmetic (64 in the code)
    StackLower,     \* env.layout.stack_lower
    StackUpper,     \* env.layout.stack_upper
    StackLen,       \* memory_stack.len(), the active part of the stack
    PidOffsets,     \* the values pid_ptr.offset() may have
    MemBytes        \* the size of the guest's linear memory

ASSUME ForkAssumption ==
    /\ RewindMayFail \in BOOLEAN
    /\ Width \in Nat \ {0}
    /\ StackLower \in Nat /\ StackUpper \in Nat /\ StackLen \in Nat
    /\ StackLower + StackLen <= StackUpper
    /\ StackUpper < 2^Width
    /\ PidOffsets \subseteq 0..(2^Width - 1)
    /\ MemBytes \in Nat
    /\ Procs \cap {"zero", "unset", "none", "Perm", "Memviolation"} = {}
       \* a pid is none of the tags for the other values of a cell

VARIABLES
    children,   \* the processes linked into each process's children
    pidcell,    \* the value at pid_ptr in the stack the process resumes on
    forkret,    \* what the process's last proc_fork returned to the guest
    pidslot     \* history: pid_ptr's offset in the last copy-mode fork and
                \* what the bounds check computed for it ({} before one)

forkVars == <<children, pidcell, forkret, pidslot>>
vars == <<schedVars, forkVars>>

(* What a process reads from pid_ptr: the pid of a child, or the 0 that     *)
(* proc_fork writes before it captures the stack.                          *)
PidValues == Procs \cup {"zero", "unset"}
Returns == PidValues \cup {"none", "Perm", "Memviolation"}

(* The pid is written as four bytes (child_pid.raw().to_ne_bytes()).      *)
PidBytes == 4

-----------------------------------------------------------------------------
(* Variant: the check against the active part of the memory stack        *)
(* (proc_fork.rs:206-213) is missing.                                      *)
PidSlotNoActiveCheck(off) ==
    LET offset == (StackUpper - off) % 2^Width
    IN  IF /\ off >= StackLower
           /\ (off + PidBytes) % 2^Width <= StackUpper
        THEN [ok |-> TRUE, pstart |-> StackLen - offset]
        ELSE [ok |-> FALSE, pstart |-> 0]

(* The pid-offset check and the patch position (proc_fork.rs:196-219),    *)
(* with the u64 addition and subtraction wrapping at 2^Width: pid_ptr must *)
(* lie in [stack_lower, stack_upper) with room for the pid, and within the *)
(* active part of the memory stack; the patch starts at                    *)
(* len - (stack_upper - pid_offset).  Either failure traps with            *)
(* Memviolation.                                                           *)
PidSlot(off) ==
    LET offset == (StackUpper - off) % 2^Width
    IN  IF /\ off >= StackLower
           /\ (off + PidBytes) % 2^Width <= StackUpper
           /\ offset <= StackLen
        THEN [ok |-> TRUE, pstart |-> StackLen - offset]
        ELSE [ok |-> FALSE, pstart |-> 0]

(* Reference: pid_ptr's four bytes lie in the active part of the stack,    *)
(* which is [stack_upper - len, stack_upper).                              *)
InActiveStack(off) ==
    StackUpper - StackLen <= off /\ off + PidBytes <= StackUpper

(* pid_ptr.write(&memory, 0) succeeds: the four bytes lie in memory.      *)
PidWritable(off) == off + PidBytes <= MemBytes

(* A fresh proc_fork: the signal check passed and no rewind is pending.    *)
ForkStart(p) ==
    /\ CanEnter(p, "fork")
    /\ ~sigs[p]
    /\ ~rewinding[p]

(* The task manager accepts the child's task, or refuses it; the error is  *)
(* dropped by `.ok()` (proc_fork.rs:180-193).                              *)
ChildSpawn == IF SchedulerMayFail THEN {"forked", "dropped"} ELSE {"forked"}

-----------------------------------------------------------------------------
(* process_signals_and_exit (proc_fork.rs:21).                             *)
ForkKilled(p) ==
    /\ CanEnter(p, "fork")
    /\ ProcessSignalsAndExit(p)
    /\ UNCHANGED forkVars

(* handle_rewind (proc_fork.rs:23-33): the replayed call returns and the   *)
(* guest reads pid_ptr: 0 in the child, the child's pid in the parent.     *)
ForkRewound(p) ==
    /\ CanEnter(p, "fork")
    /\ ~sigs[p]
    /\ HandleRewind(p)
    /\ forkret' = [forkret EXCEPT ![p] = pidcell[p]]
    /\ UNCHANGED <<status, runner, window, sigs, code, cause, now, calls>>
    /\ UNCHANGED <<children, pidcell, pidslot>>

(* ctx.data().fork() fails: proc_fork returns Perm (proc_fork.rs:40-47).   *)
ForkFailed(p) ==
    /\ ForkStart(p)
    /\ forkret' = [forkret EXCEPT ![p] = "Perm"]
    /\ calls' = [calls EXCEPT ![p] = @ + 1]
    /\ UNCHANGED <<status, runner, syscall, rewinding, deadline, window, sigs,
                   code, cause, now>>
    /\ UNCHANGED <<children, pidcell, pidslot>>

(* The child is linked into the parent's children (proc_fork.rs:52-56)     *)
(* before pid_ptr.write faults (line 60, wasi_try_mem_ok!): proc_fork     *)
(* returns Memviolation and the child environment is dropped unstarted.    *)
ForkWriteFault(p) ==
    /\ ForkStart(p)
    /\ \E q \in Procs, off \in PidOffsets :
          /\ status[q] = "free"
          /\ ~PidWritable(off)
          /\ children' = [children EXCEPT ![p] = @ \cup {q}]
          /\ status' = [status EXCEPT ![q] = "dropped"]
    /\ forkret' = [forkret EXCEPT ![p] = "Memviolation"]
    /\ calls' = [calls EXCEPT ![p] = @ + 1]
    /\ UNCHANGED <<runner, syscall, rewinding, deadline, window, sigs, code,
                   cause, now>>
    /\ UNCHANGED <<pidcell, pidslot>>

(* Variant: the child's stack is cloned after the pid has been patched.   *)
ParentResumesChildPatched(p, q, cs) ==
    /\ status' = [status EXCEPT ![q] = cs]
    /\ syscall' = [syscall EXCEPT ![p] = "fork", ![q] = "fork"]
    /\ rewinding' = [rewinding EXCEPT ![p] = TRUE]
    /\ pidcell' = [pidcell EXCEPT ![p] = q, ![q] = q]
    /\ UNCHANGED <<code, cause>>

(* Copy mode, the parent's stack rewound (proc_fork.rs:227-234): it       *)
(* replays with the patched stack, the child with the copy taken before    *)
(* the patch (child_memory_stack, proc_fork.rs:135).                       *)
ParentResumes(p, q, cs) ==
    /\ status' = [status EXCEPT ![q] = cs]
    /\ syscall' = [syscall EXCEPT ![p] = "fork", ![q] = "fork"]
    /\ rewinding' = [rewinding EXCEPT ![p] = TRUE]
    /\ pidcell' = [pidcell EXCEPT ![p] = q, ![q] = "zero"]
    /\ UNCHANGED <<code, cause>>

(* Copy mode, the parent traps with WasiError::Exit: pid_ptr is not in the *)
(* active stack (Memviolation, proc_fork.rs:201-225) or its rewind failed  *)
(* (proc_fork.rs:235-238); the child has already been spawned.             *)
ParentTraps(p, q, cs) ==
    /\ status' = [status EXCEPT ![p] = "exited", ![q] = cs]
    /\ code' = [code EXCEPT ![p] = ExitCodeFor(p, "exit_failure")]
    /\ cause' = [cause EXCEPT ![p] = "exit_failure"]
    /\ syscall' = [syscall EXCEPT ![p] = "none", ![q] = "fork"]
    /\ rewinding' = [rewinding EXCEPT ![p] = FALSE]
    /\ pidcell' = [pidcell EXCEPT ![p] = "zero", ![q] = "zero"]

(* A copy-mode fork up to the rewind of the parent (proc_fork.rs:36-66,    *)
(* 114-240): the child is linked in and spawned under the fork runner.     *)
ForkCopy(p) ==
    /\ ForkStart(p)
    /\ \E q \in Procs, off \in PidOffsets, cs \in ChildSpawn :
          /\ status[q] = "free"
          /\ PidWritable(off)
          /\ children' = [children EXCEPT ![p] = @ \cup {q}]
          /\ runner' = [runner EXCEPT ![q] = "fork"]
          /\ calls' = [calls EXCEPT ![p] = @ + 1, ![q] = calls[p] + 1]
          /\ \/ PidSlot(off).ok /\ ParentResumes(p, q, cs)
             \/ (~PidSlot(off).ok \/ RewindMayFail) /\ ParentTraps(p, q, cs)
          /\ pidslot' = [pidslot EXCEPT ![p] = {[off |-> off,
                                                  slot |-> PidSlot(off)]}]
    /\ UNCHANGED <<deadline, window, sigs, now, forkret>>

(* vfork (proc_fork.rs:68-112): the guest carries on as the child q with   *)
(* the unpatched stack (pid 0); the parent's environment is parked in      *)
(* WasiVFork.  A failed rewind traps the swapped environment.              *)
ForkVfork(p) ==
    /\ ForkStart(p)
    /\ \E q \in Procs, off \in PidOffsets :
          /\ status[q] = "free"
          /\ PidWritable(off)
          /\ children' = [children EXCEPT ![p] = @ \cup {q}]
          /\ runner' = [runner EXCEPT ![q] = runner[p]]
          /\ calls' = [calls EXCEPT ![p] = @ + 1, ![q] = calls[p] + 1]
          /\ pidcell' = [pidcell EXCEPT ![p] = "zero", ![q] = "zero"]
          /\ syscall' = [syscall EXCEPT ![p] = "fork", ![q] = "fork"]
          /\ \/ /\ status' = [status EXCEPT ![p] = "vforked", ![q] = "running"]
                /\ rewinding' = [rewinding EXCEPT ![q] = TRUE]
                /\ UNCHANGED <<code, cause>>
             \/ /\ RewindMayFail
                /\ status' = [status EXCEPT ![p] = "vforked", ![q] = "exited"]
                /\ code' = [code EXCEPT ![q] = ExitCodeFor(p, "exit_failure")]
                /\ cause' = [cause EXCEPT ![q] = "exit_failure"]
                /\ UNCHANGED rewinding
    /\ UNCHANGED <<deadline, window, sigs, now, forkret, pidslot>>

(* Variant: the rewound child returns from its task before calling run.   *)
ChildStartNoInvoke(q) ==
    /\ status[q] = "forked"
    /\ status' = [status EXCEPT ![q] = "stranded"]
    /\ UNCHANGED <<runner, syscall, rewinding, deadline, window, sigs, code,
                   cause, now, calls>>
    /\ UNCHANGED forkVars

(* The child's task runs (proc_fork.rs:150-178): it rewinds the child's    *)
(* copy of the stacks and calls run, which calls _start; if the rewind     *)
(* fails the task returns without cleanup.                                 *)
ChildStart(q) ==
    /\ status[q] = "forked"
    /\ \/ /\ status' = [status EXCEPT ![q] = "running"]
          /\ rewinding' = [rewinding EXCEPT ![q] = TRUE]
       \/ /\ RewindMayFail
          /\ status' = [status EXCEPT ![q] = "stranded"]
          /\ UNCHANGED rewinding
    /\ UNCHANGED <<runner, syscall, deadline, window, sigs, code, cause, now,
                   calls>>
    /\ UNCHANGED forkVars

-----------------------------------------------------------------------------
ForkInit ==
    /\ Init
    /\ children = [p \in Procs |-> {}]
    /\ pidcell = [p \in Procs |-> "unset"]
    /\ forkret = [p \in Procs |-> "none"]
    /\ pidslot = [p \in Procs |-> {}]

ForkNext(p) ==
    \/ ForkKilled(p) \/ ForkRewound(p) \/ ForkFailed(p) \/ ForkWriteFault(p)
    \/ ForkCopy(p)
    \/ ForkVfork(p)

ForkSpecNext ==
    \/ SchedNext /\ UNCHANGED forkVars
    \/ \E p \in Procs : ForkNext(p) \/ ChildStart(p)
    \/ AllEnded /\ UNCHANGED vars

(* As in ThreadSleep; the task manager runs every task it accepted.       *)
ForkFairness ==
    /\ WF_vars(Tick /\ UNCHANGED forkVars)
    /\ \A p \in Procs :
          /\ WF_vars((Launch(p) \/ GuestEnd(p) \/ BlockKilled(p) \/ Unwind(p))
                     /\ UNCHANGED forkVars)
          /\ WF_vars(ForkNext(p))
          /\ WF_vars(ChildStart(p))

ForkSpec == ForkInit /\ [][ForkSpecNext]_vars /\ ForkFairness

-----------------------------------------------------------------------------
ForkTypeOK ==
    /\ SchedTypeOK
    /\ children \in [Procs -> SUBSET Procs]
    /\ pidcell \in [Procs -> PidValues]
    /\ forkret \in [Procs -> Returns]
    /\ pidslot \in [Procs -> SUBSET [off : PidOffsets,
                                     slot : [ok : BOOLEAN, pstart : Nat]]]

(* Fork determinism: a process that proc_fork returned 0 to is a child of  *)
(* some process, and a process it returned a pid to is that child's parent *)
(* (the parent reads the patched stack, the child the copy made before).   *)
ForkDeterminism ==
    \A p \in Procs :
        /\ forkret[p] = "zero" => \E r \in Procs : p \in children[r]
        /\ forkret[p] \in Procs => forkret[p] \in children[p]

(* The pid patch of every copy-mode fork: the unwind closure patched the  *)
(* parent's stack (rather than trapping with Memviolation) exactly when    *)
(* pid_ptr's four bytes lie in the active part of the captured stack, and  *)
(* the patch landed on pid_ptr, also where the u64 arithmetic wraps.       *)
PidSlotMatchesStack ==
    \A p \in Procs : \A h \in pidslot[p] :
        /\ h.slot.ok <=> InActiveStack(h.off)
        /\ h.slot.ok => StackUpper - StackLen + h.slot.pstart = h.off

(* Every child a fork links in eventually exits, or vforks and is parked  *)
(* in its own vfork child (whose proc_exec or proc_exit resumes it, code   *)
(* outside this model): the task manager runs each accepted child task    *)
(* and the fork runner carries it to cleanup.                              *)
ChildrenExit ==
    \A p, q \in Procs :
        q \in children[p] ~> status[q] \in {"exited", "vforked"}
=============================================================================
