----------------------------- MODULE DeepSleep -----------------------------
(***************************************************************************)
(* The process runners and the deep-sleep scheduler of the WASIX layer.    *)
(*                                                                         *)
(* A guest process is driven by one of two runners: call_module            *)
(* (bin_factory/exec.rs) for a process started by exec, and run            *)
(* (syscalls/wasix/proc_fork.rs) for a child created by a copy-mode fork.  *)
(* A runner calls the guest's _start; the call ends with a return, a trap, *)
(* WasiError::Exit(code) or WasiError::DeepSleep.  On a deep sleep the     *)
(* runner hands a respawn closure and the awaited trigger to the task      *)
(* manager (resume_wasm_after_poller); when the trigger resolves, the      *)
(* respawn closure runs rewinding_finish (the syscall's after-closure),    *)
(* rewinds the captured stack and calls _start again, so that the guest    *)
(* replays into the same syscall, where handle_rewind makes it return.     *)
(*                                                                         *)
(* The syscalls that suspend (thread_sleep, poll_oneoff, proc_fork) are    *)
(* modelled in the modules that EXTEND this one; this module holds the     *)
(* state they share and the operators for the steps they share.  The      *)
(* unwind/rewind engine and __asyncify_with_deep_sleep_ext are not under   *)
(* src/; their steps are modelled from the spec and marked so in the map.  *)
(***************************************************************************)
EXTENDS Naturals

CONSTANTS
    Procs,          \* process ids (one guest thread per process)
    Initial,        \* the processes started by exec at the beginning
    MaxTime,        \* the last instant of the model's clock
    PollInterval,   \* the deep_sleep_time window (50ms in the code), in ticks
    MaxCalls,       \* bound on the syscalls one process makes
    SchedulerMayFail \* whether resume_wasm_after_poller may return an error

ASSUME ConstantsAssumption ==
    /\ Initial \subseteq Procs
    /\ MaxTime \in Nat
    /\ PollInterval \in Nat \ {0}
    /\ MaxCalls \in Nat
    /\ SchedulerMayFail \in BOOLEAN

VARIABLES
    status,     \* where each process is: see Status
    runner,     \* which runner drives it: call_module ("exec") or run ("fork")
    syscall,    \* the syscall the guest is inside, suspended in or replaying
    rewinding,  \* the flag rewinding_finish sets and handle_rewind consumes
    deadline,   \* the instant the awaited syscall's timeout expires
    window,     \* the instant the blocking __asyncify window ends
    sigs,       \* a termination signal is pending for the process
    code,       \* the process's exit-code cell, set by cleanup
    cause,      \* history: how the guest ended (for the exit-code property)
    now,        \* the clock
    calls       \* number of syscalls the process has made

schedVars == <<status, runner, syscall, rewinding, deadline, window, sigs,
               code, cause, now, calls>>

(* "blocked": the host thread is blocked inside __asyncify for at most one *)
(* PollInterval; "sleeping": the stack is unwound and the respawn closure  *)
(* is held by the task manager; "stranded": the process was dropped by a   *)
(* failure that no one cleans up.  A forked child is "forked" while its    *)
(* task waits to run, and "dropped" when the task manager refused it; a   *)
(* vfork parent is "vforked" while the child runs in its place.            *)
Status == {"free", "spawning", "running", "blocked", "sleeping",
           "stranded", "exited", "forked", "dropped", "vforked"}
Syscalls == {"none", "sleep", "poll", "fork"}
Codes == {"Success", "Failure", "Killed", "Noexec", "Noent"}
NoCode == "none"
Outcomes == {"return", "exit_success", "exit_failure", "killed", "trap"}
Causes == Outcomes \cup {"none", "launch_failed"}
Infinity == MaxTime + 1
Time == 0..Infinity

-----------------------------------------------------------------------------
(* The exit code each runner hands to cleanup for each way _start ends.    *)
(* call_module (exec.rs:220-262) maps Exit(code) to Ok(Success) or         *)
(* Ok(Noexec), and then every Ok(..) to the code Success; a trap becomes   *)
(* Err(WasiRuntimeError), whose as_exit_code is None, so Noexec.           *)
ExecExitCode ==
    [o \in Outcomes |-> IF o = "trap" THEN "Noexec" ELSE "Success"]

(* run (proc_fork.rs:270-307) starts from Success, takes the code of       *)
(* WasiError::Exit as it is and ignores every other error (`_ => {}`).     *)
ForkExitCode ==
    [return |-> "Success", exit_success |-> "Success",
     exit_failure |-> "Failure", killed |-> "Killed", trap |-> "Success"]

(* The exit code p's runner records when _start ends with outcome o.      *)
ExitCodeFor(p, o) ==
    IF runner[p] = "exec" THEN ExecExitCode[o] ELSE ForkExitCode[o]

(* The runner handles the end of the guest's _start call and runs cleanup, *)
(* which records the exit code in the process's cell.                      *)
Finish(p, o) ==
    /\ status' = [status EXCEPT ![p] = "exited"]
    /\ code' = [code EXCEPT ![p] = ExitCodeFor(p, o)]
    /\ cause' = [cause EXCEPT ![p] = o]
    /\ syscall' = [syscall EXCEPT ![p] = "none"]
    /\ rewinding' = [rewinding EXCEPT ![p] = FALSE]

(* A syscall handler may start: the guest is running and, when it is       *)
(* replaying after a rewind, it re-enters the syscall it suspended in.     *)
CanEnter(p, k) ==
    /\ status[p] = "running"
    /\ IF rewinding[p] THEN syscall[p] = k
                       ELSE syscall[p] = "none" /\ calls[p] < MaxCalls

(* WasiEnv::process_signals_and_exit, the first statement of every         *)
(* syscall: a pending termination signal turns into WasiError::Exit, which *)
(* unwinds _start and reaches the runner.                                  *)
ProcessSignalsAndExit(p) ==
    /\ sigs[p]
    /\ Finish(p, "killed")
    /\ UNCHANGED <<runner, deadline, window, sigs, now, calls>>

(* handle_rewind returns true: the syscall returns Success to the guest.   *)
HandleRewind(p) ==
    /\ rewinding[p]
    /\ rewinding' = [rewinding EXCEPT ![p] = FALSE]
    /\ syscall' = [syscall EXCEPT ![p] = "none"]
    /\ deadline' = [deadline EXCEPT ![p] = Infinity]

(* Variant: the timeout is added to the clock even when there is none     *)
(* (Duration::MAX), instead of waiting without a timeout.                  *)
BlockInUnbounded(p, k, t) ==
    /\ status' = [status EXCEPT ![p] = "blocked"]
    /\ syscall' = [syscall EXCEPT ![p] = k]
    /\ deadline' = [deadline EXCEPT ![p] = now + t]
    /\ window' = [window EXCEPT ![p] = now + PollInterval]
    /\ calls' = [calls EXCEPT ![p] = @ + 1]

(* A fresh call of a syscall that will wait: the host thread blocks in     *)
(* __asyncify for at most PollInterval, until the timeout `t` (Infinity    *)
(* for none) or the awaited event.                                         *)
BlockIn(p, k, t) ==
    /\ status' = [status EXCEPT ![p] = "blocked"]
    /\ syscall' = [syscall EXCEPT ![p] = k]
    /\ deadline' = [deadline EXCEPT ![p] = IF t = Infinity THEN Infinity
                                                          ELSE now + t]
    /\ window' = [window EXCEPT ![p] = now + PollInterval]
    /\ calls' = [calls EXCEPT ![p] = @ + 1]

(* The blocking wait resolved inside the window: the after-closure ran     *)
(* and the syscall returns to the guest.                                   *)
ReturnFromBlock(p) ==
    /\ status' = [status EXCEPT ![p] = "running"]
    /\ syscall' = [syscall EXCEPT ![p] = "none"]
    /\ deadline' = [deadline EXCEPT ![p] = Infinity]

(* The awaited syscall's timeout has expired.                              *)
Due(p) == now >= deadline[p]

(* The respawn closure runs: call_module (exec.rs:167-206) or run          *)
(* (proc_fork.rs:255-268) calls rewinding_finish, which runs the           *)
(* syscall's after-closure and sets the rewinding flag, then rewinds the   *)
(* captured stack and calls _start again.                                  *)
Respawn(p) ==
    /\ status[p] = "sleeping"
    /\ status' = [status EXCEPT ![p] = "running"]
    /\ rewinding' = [rewinding EXCEPT ![p] = TRUE]

-----------------------------------------------------------------------------
Init ==
    /\ status = [p \in Procs |-> IF p \in Initial THEN "spawning" ELSE "free"]
    /\ runner = [p \in Procs |-> "exec"]
    /\ syscall = [p \in Procs |-> "none"]
    /\ rewinding = [p \in Procs |-> FALSE]
    /\ deadline = [p \in Procs |-> Infinity]
    /\ window = [p \in Procs |-> 0]
    /\ sigs = [p \in Procs |-> FALSE]
    /\ code = [p \in Procs |-> NoCode]
    /\ cause = [p \in Procs |-> "none"]
    /\ now = 0
    /\ calls = [p \in Procs |-> 0]

(* BinFactory::spawn, spawn_exec, spawn_exec_module and the task's run     *)
(* closure up to start.call: a missing binary is cleaned up with Noent; a  *)
(* module that has no entry, does not compile, whose _initialize traps or  *)
(* that has no _start is cleaned up with Noexec; otherwise _start runs.    *)
(* When the task manager refuses the task (task_wasm fails, exec.rs:       *)
(* 136-141), spawn_exec_module returns the error without any cleanup.      *)
Launch(p) ==
    /\ status[p] = "spawning"
    /\ \/ /\ status' = [status EXCEPT ![p] = "running"]
          /\ UNCHANGED <<code, cause>>
       \/ /\ SchedulerMayFail
          /\ status' = [status EXCEPT ![p] = "stranded"]
          /\ UNCHANGED <<code, cause>>
       \/ \E c \in {"Noent", "Noexec"} :
             /\ status' = [status EXCEPT ![p] = "exited"]
             /\ code' = [code EXCEPT ![p] = c]
             /\ cause' = [cause EXCEPT ![p] = "launch_failed"]
    /\ UNCHANGED <<runner, syscall, rewinding, deadline, window, sigs,
                   now, calls>>

(* The guest's _start ends outside any syscall: it returns, calls          *)
(* proc_exit (WasiError::Exit) with a zero or non-zero code, or traps.     *)
GuestEnd(p) ==
    /\ status[p] = "running"
    /\ syscall[p] = "none"
    /\ ~rewinding[p]
    /\ \E o \in Outcomes \ {"killed"} : Finish(p, o)
    /\ UNCHANGED <<runner, deadline, window, sigs, now, calls>>

(* __asyncify notices that the process must exit while the host thread is *)
(* blocked (WasiEnv::should_exit), and returns WasiError::Exit.            *)
BlockKilled(p) ==
    /\ status[p] = "blocked"
    /\ sigs[p]
    /\ Finish(p, "killed")
    /\ UNCHANGED <<runner, deadline, window, sigs, now, calls>>

(* Variant: the runner drops the respawn closure instead of handing it to *)
(* the task manager, so the unwound process is never resumed.             *)
UnwindDropped(p) ==
    /\ status[p] = "blocked"
    /\ now >= window[p]
    /\ status' = [status EXCEPT ![p] = "stranded"]
    /\ UNCHANGED <<runner, syscall, rewinding, deadline, window, sigs, code,
                   cause, now, calls>>

(* The window ends with the wait unresolved: the stack is unwound into a   *)
(* RewindState, WasiError::DeepSleep reaches the runner, and the runner    *)
(* calls resume_wasm_after_poller.  If that fails, call_module only logs   *)
(* it (exec.rs:240-245) and run ignores it (proc_fork.rs:298-299): the     *)
(* process is neither resumed nor cleaned up.                              *)
Unwind(p) ==
    /\ status[p] = "blocked"
    /\ now >= window[p]
    /\ \/ status' = [status EXCEPT ![p] = "sleeping"]
       \/ /\ SchedulerMayFail
          /\ status' = [status EXCEPT ![p] = "stranded"]
    /\ UNCHANGED <<runner, syscall, rewinding, deadline, window, sigs, code,
                   cause, now, calls>>

(* Another process or the host delivers a termination signal.             *)
Signal(p) ==
    /\ status[p] \in {"running", "blocked", "sleeping"}
    /\ ~sigs[p]
    /\ sigs' = [sigs EXCEPT ![p] = TRUE]
    /\ UNCHANGED <<status, runner, syscall, rewinding, deadline, window, code,
                   cause, now, calls>>

(* Time passes.                                                            *)
Tick ==
    /\ now < MaxTime
    /\ now' = now + 1
    /\ UNCHANGED <<status, runner, syscall, rewinding, deadline, window, sigs,
                   code, cause, calls>>

(* No process can take a step any more: each has exited, or is stranded.  *)
AllEnded ==
    \A p \in Procs :
        status[p] \in {"free", "exited", "stranded", "dropped", "vforked"}

(* Every process has exited.                                               *)
AllExited == \A p \in Procs : status[p] \in {"free", "exited"}

(* The steps of the runners and of the scheduler, common to every syscall. *)
SchedNext ==
    \/ Tick
    \/ \E p \in Procs : Launch(p) \/ GuestEnd(p) \/ BlockKilled(p)
                        \/ Unwind(p) \/ Signal(p)

-----------------------------------------------------------------------------
SchedTypeOK ==
    /\ status \in [Procs -> Status]
    /\ runner \in [Procs -> {"exec", "fork"}]
    /\ syscall \in [Procs -> Syscalls]
    /\ rewinding \in [Procs -> BOOLEAN]
    /\ deadline \in [Procs -> Time]
    /\ window \in [Procs -> Nat]
    /\ sigs \in [Procs -> BOOLEAN]
    /\ code \in [Procs -> Codes \cup {NoCode}]
    /\ cause \in [Procs -> Causes]
    /\ now \in 0..MaxTime
    /\ calls \in [Procs -> 0..MaxCalls]

(* Exit codes: a process's cell says Success only if its guest returned    *)
(* from _start or called proc_exit with a zero code.  This is what a       *)
(* parent waiting on the process relies on; the runners' error mapping    *)
(* (call_module, run) decides it.                                          *)
SuccessOnlyIfSucceeded ==
    \A p \in Procs :
        code[p] = "Success" => cause[p] \in {"return", "exit_success"}

(* Every process the system starts eventually has its exit code recorded: *)
(* a process waiting on it (proc_join) is not left waiting forever.        *)
EventuallyExitCode ==
    \A p \in Procs : status[p] = "spawning" ~> code[p] /= NoCode
=============================================================================
