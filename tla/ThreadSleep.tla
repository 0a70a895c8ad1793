---------------------------- MODULE ThreadSleep ----------------------------
(***************************************************************************)
(* thread_sleep (syscalls/wasix/thread_sleep.rs) on top of the deep-sleep  *)
(* scheduler.  A sleep of a positive duration awaits an InfiniteSleep      *)
(* future with the duration as timeout: the host thread blocks for at most *)
(* one poll interval, then the guest is unwound and respawned when the     *)
(* timeout (or a termination signal) wakes it; replaying the call, the     *)
(* guest re-enters thread_sleep, which returns through handle_rewind.      *)
(***************************************************************************)
EXTENDS DeepSleep

CONSTANT Durations      \* the durations the guest passes, in ticks

ASSUME DurationsAssumption == Durations \subseteq Nat

(* process_signals_and_exit (thread_sleep.rs:22) ends the process.         *)
SleepKilled(p) ==
    /\ CanEnter(p, "sleep")
    /\ ProcessSignalsAndExit(p)

(* handle_rewind (thread_sleep.rs:23-25): the replayed call returns.       *)
SleepRewound(p) ==
    /\ CanEnter(p, "sleep")
    /\ ~sigs[p]
    /\ HandleRewind(p)
    /\ UNCHANGED <<status, runner, window, sigs, code, cause, now, calls>>

(* A zero duration only yields the host thread (thread_sleep.rs:29-32).    *)
SleepYield(p) ==
    /\ CanEnter(p, "sleep")
    /\ ~sigs[p]
    /\ ~rewinding[p]
    /\ 0 \in Durations
    /\ calls' = [calls EXCEPT ![p] = @ + 1]
    /\ UNCHANGED <<status, runner, syscall, rewinding, deadline, window, sigs,
                   code, cause, now>>

(* A positive duration: __asyncify_with_deep_sleep_ext with the duration   *)
(* as timeout and a 50ms window (thread_sleep.rs:34-51).  The model's      *)
(* clock ends at MaxTime, so the guest sleeps only until then.             *)
SleepBlock(p) ==
    /\ CanEnter(p, "sleep")
    /\ ~sigs[p]
    /\ ~rewinding[p]
    /\ \E d \in Durations \ {0} :
          /\ now + d <= MaxTime
          /\ BlockIn(p, "sleep", d)
    /\ UNCHANGED <<runner, rewinding, sigs, code, cause, now>>

(* Variant: the blocking wait gives up one tick before the timeout.        *)
SleepTimeoutEarly(p) ==
    /\ status[p] = "blocked"
    /\ syscall[p] = "sleep"
    /\ now + 1 >= deadline[p]
    /\ ReturnFromBlock(p)
    /\ UNCHANGED <<runner, rewinding, window, sigs, code, cause, now, calls>>

(* The timeout expires inside the window: the after-closure `|_, _, _|     *)
(* Ok(())` runs and thread_sleep returns Success.                          *)
SleepTimeout(p) ==
    /\ status[p] = "blocked"
    /\ syscall[p] = "sleep"
    /\ Due(p)
    /\ ReturnFromBlock(p)
    /\ UNCHANGED <<runner, rewinding, window, sigs, code, cause, now, calls>>

(* The task manager wakes the sleeping guest when the timeout expires or a *)
(* signal arrives, and respawns it.                                        *)
SleepWake(p) ==
    /\ syscall[p] = "sleep"
    /\ Due(p) \/ sigs[p]
    /\ Respawn(p)
    /\ UNCHANGED <<runner, syscall, deadline, window, sigs, code, cause, now,
                   calls>>

SleepNext(p) ==
    \/ SleepKilled(p) \/ SleepRewound(p) \/ SleepYield(p) \/ SleepBlock(p)
    \/ SleepTimeout(p) \/ SleepWake(p)

Next ==
    \/ SchedNext
    \/ \E p \in Procs : SleepNext(p)
    \/ AllEnded /\ UNCHANGED schedVars

(* The runners run each process's steps as long as they can (the task     *)
(* manager polls every task it holds) and the clock advances; a signal is *)
(* the environment's choice and is not fair.                               *)
Fairness ==
    /\ WF_schedVars(Tick)
    /\ \A p \in Procs :
          /\ WF_schedVars(Launch(p) \/ GuestEnd(p) \/ BlockKilled(p)
                          \/ Unwind(p))
          /\ WF_schedVars(SleepNext(p))

Spec == Init /\ [][Next]_schedVars /\ Fairness

-----------------------------------------------------------------------------
TypeOK == SchedTypeOK

(* Timeout correctness (thread_sleep): a sleep returns to the guest only   *)
(* once its deadline has passed, whether it returns from the blocking      *)
(* window or after an unwind, a respawn and the replayed call.  A replay   *)
(* woken early by a signal must not return: process_signals_and_exit runs  *)
(* before handle_rewind (thread_sleep.rs:22-25).                           *)
SleepReturnsDue ==
    \A p \in Procs :
        (syscall[p] = "sleep" /\ syscall'[p] = "none"
         /\ status'[p] = "running") => now >= deadline[p]

SleepNotEarly == [][SleepReturnsDue]_schedVars

(* Every process eventually exits: no sleeping guest is lost between the  *)
(* unwind, the task manager and the respawn.                               *)
Termination == <>AllExited
=============================================================================
