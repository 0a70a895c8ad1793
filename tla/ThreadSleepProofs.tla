------------------------- MODULE ThreadSleepProofs -------------------------
(***************************************************************************)
(* Proofs, for every value of the constants, of the safety properties of   *)
(* thread_sleep on the deep-sleep scheduler that MCThreadSleep checks on a *)
(* small instance: type correctness and, from the inductive invariant      *)
(* SleepInv, the action property SleepNotEarly.                            *)
(***************************************************************************)
EXTENDS ThreadSleep, TLAPS

USE ConstantsAssumption, DurationsAssumption

(* The proof's strengthening: a guest that is back in thread_sleep to     *)
(* replay it (respawned, the rewinding flag set) was woken by its timeout  *)
(* or by a signal.                                                          *)
SleepWokenDue ==
    \A p \in Procs :
        (syscall[p] = "sleep" /\ status[p] = "running") => Due(p) \/ sigs[p]

(* The inductive strengthening of SleepWokenDue: a process that has not   *)
(* started yet is inside no syscall.                                       *)
SleepInv ==
    /\ TypeOK
    /\ SleepWokenDue
    /\ \A p \in Procs : status[p] \in {"free", "spawning"} => syscall[p] = "none"

(* The exit-code tables of the two runners only produce codes of the       *)
(* WASI exit-code enumeration.                                              *)
LEMMA ExitCodesTyped ==
    \A o \in Outcomes : /\ ExecExitCode[o] \in Codes
                        /\ ForkExitCode[o] \in Codes
BY DEF ExecExitCode, ForkExitCode, Outcomes, Codes

(* Every reachable state is well typed: the runners' and scheduler's steps *)
(* and thread_sleep's steps keep each per-process cell in its domain, the  *)
(* deadlines in 0..Infinity and the call counters under MaxCalls.           *)
LEMMA TypeStep == TypeOK /\ [Next]_schedVars => TypeOK'
<1> SUFFICES ASSUME TypeOK, [Next]_schedVars PROVE TypeOK'
    OBVIOUS
<1> USE DEF TypeOK, SchedTypeOK, Status, Syscalls, Codes, NoCode, Causes,
            Outcomes, Time, Infinity
<1>1. CASE Tick
    BY <1>1 DEF Tick
<1>2. ASSUME NEW p \in Procs, Launch(p) PROVE TypeOK'
    BY <1>2 DEF Launch
<1>3. ASSUME NEW p \in Procs, GuestEnd(p) PROVE TypeOK'
    BY <1>3, ExitCodesTyped DEF GuestEnd, Finish, ExitCodeFor
<1>4. ASSUME NEW p \in Procs, BlockKilled(p) PROVE TypeOK'
    BY <1>4, ExitCodesTyped DEF BlockKilled, Finish, ExitCodeFor
<1>5. ASSUME NEW p \in Procs, Unwind(p) PROVE TypeOK'
    BY <1>5 DEF Unwind
<1>6. ASSUME NEW p \in Procs, Signal(p) PROVE TypeOK'
    BY <1>6 DEF Signal
<1>7. ASSUME NEW p \in Procs, SleepKilled(p) PROVE TypeOK'
    BY <1>7, ExitCodesTyped DEF SleepKilled, ProcessSignalsAndExit, Finish,
                    ExitCodeFor
<1>8. ASSUME NEW p \in Procs, SleepRewound(p) PROVE TypeOK'
    BY <1>8 DEF SleepRewound, HandleRewind
<1>9. ASSUME NEW p \in Procs, SleepYield(p) PROVE TypeOK'
    BY <1>9 DEF SleepYield, CanEnter
<1>10. ASSUME NEW p \in Procs, SleepBlock(p) PROVE TypeOK'
    BY <1>10 DEF SleepBlock, CanEnter, BlockIn
<1>11. ASSUME NEW p \in Procs, SleepTimeout(p) PROVE TypeOK'
    BY <1>11 DEF SleepTimeout, ReturnFromBlock
<1>12. ASSUME NEW p \in Procs, SleepWake(p) PROVE TypeOK'
    BY <1>12 DEF SleepWake, Respawn
<1>13. CASE UNCHANGED schedVars
    BY <1>13 DEF schedVars
<1>14. QED
    BY <1>1, <1>2, <1>3, <1>4, <1>5, <1>6, <1>7, <1>8, <1>9, <1>10, <1>11,
       <1>12, <1>13 DEF Next, SchedNext, SleepNext

(* Type correctness of the model of thread_sleep and the runners.          *)
THEOREM TypeCorrect == Spec => []TypeOK
<1>1. Init => TypeOK
    BY DEF Init, TypeOK, SchedTypeOK, Status, Syscalls, Codes, NoCode, Causes,
           Time, Infinity
<1>2. QED
    BY <1>1, TypeStep, PTL DEF Spec

-----------------------------------------------------------------------------
(* Each step keeps SleepInv: a process that thread_sleep's respawn brings  *)
(* back to replay the call was woken by its timeout or a signal, and both  *)
(* stay true until handle_rewind (the clock only advances, a signal is     *)
(* never withdrawn, the deadline is only reset when the syscall returns).  *)
LEMMA SleepInvStep == SleepInv /\ [Next]_schedVars => SleepInv'
<1> SUFFICES ASSUME SleepInv, [Next]_schedVars PROVE SleepInv'
    OBVIOUS
<1>0. TypeOK'
    BY TypeStep DEF SleepInv
<1> USE <1>0 DEF SleepInv, SleepWokenDue, Due, TypeOK, SchedTypeOK, Time,
                Infinity
<1>1. CASE Tick
    BY <1>1 DEF Tick
<1>2. ASSUME NEW p \in Procs, Launch(p) PROVE SleepInv'
    BY <1>2 DEF Launch
<1>3. ASSUME NEW p \in Procs, GuestEnd(p) PROVE SleepInv'
    BY <1>3 DEF GuestEnd, Finish
<1>4. ASSUME NEW p \in Procs, BlockKilled(p) PROVE SleepInv'
    BY <1>4 DEF BlockKilled, Finish
<1>5. ASSUME NEW p \in Procs, Unwind(p) PROVE SleepInv'
    BY <1>5 DEF Unwind
<1>6. ASSUME NEW p \in Procs, Signal(p) PROVE SleepInv'
    BY <1>6 DEF Signal
<1>7. ASSUME NEW p \in Procs, SleepKilled(p) PROVE SleepInv'
    BY <1>7 DEF SleepKilled, ProcessSignalsAndExit, Finish
<1>8. ASSUME NEW p \in Procs, SleepRewound(p) PROVE SleepInv'
    BY <1>8 DEF SleepRewound, HandleRewind
<1>9. ASSUME NEW p \in Procs, SleepYield(p) PROVE SleepInv'
    BY <1>9 DEF SleepYield
<1>10. ASSUME NEW p \in Procs, SleepBlock(p) PROVE SleepInv'
    BY <1>10 DEF SleepBlock, BlockIn
<1>11. ASSUME NEW p \in Procs, SleepTimeout(p) PROVE SleepInv'
    BY <1>11 DEF SleepTimeout, ReturnFromBlock
<1>12. ASSUME NEW p \in Procs, SleepWake(p) PROVE SleepInv'
    BY <1>12 DEF SleepWake, Respawn
<1>13. CASE UNCHANGED schedVars
    BY <1>13 DEF schedVars
<1>14. QED
    BY <1>1, <1>2, <1>3, <1>4, <1>5, <1>6, <1>7, <1>8, <1>9, <1>10, <1>11,
       <1>12, <1>13 DEF Next, SchedNext, SleepNext

(* SleepInv holds in every reachable state, so in particular SleepWokenDue *)
(* (the task manager never resumes a sleeper early).                       *)
LEMMA SleepInvariant == Spec => []SleepInv
<1>1. Init => SleepInv
    BY DEF Init, SleepInv, SleepWokenDue, TypeOK, SchedTypeOK, Status,
           Syscalls, Codes, NoCode, Causes, Time, Infinity
<1>2. QED
    BY <1>1, SleepInvStep, PTL DEF Spec

(* thread_sleep never returns to the guest before its deadline, neither    *)
(* from the blocking window (the timeout fired) nor through handle_rewind  *)
(* after a respawn (then SleepInv says the wake was due, or a signal is    *)
(* pending and process_signals_and_exit runs instead).                     *)
THEOREM SleepNeverEarly == Spec => SleepNotEarly
<1>1. SleepInv /\ [Next]_schedVars => [SleepReturnsDue]_schedVars
    <2> SUFFICES ASSUME SleepInv, [Next]_schedVars
                 PROVE [SleepReturnsDue]_schedVars
        OBVIOUS
    <2> USE DEF SleepInv, SleepWokenDue, Due, TypeOK, SchedTypeOK, Time,
                Infinity, SleepReturnsDue
    <2>1. CASE Tick
        BY <2>1 DEF Tick
    <2>2. ASSUME NEW p \in Procs, Launch(p) PROVE [SleepReturnsDue]_schedVars
        BY <2>2 DEF Launch
    <2>3. ASSUME NEW p \in Procs, GuestEnd(p) PROVE [SleepReturnsDue]_schedVars
        BY <2>3 DEF GuestEnd, Finish
    <2>4. ASSUME NEW p \in Procs, BlockKilled(p)
          PROVE [SleepReturnsDue]_schedVars
        BY <2>4 DEF BlockKilled, Finish
    <2>5. ASSUME NEW p \in Procs, Unwind(p) PROVE [SleepReturnsDue]_schedVars
        BY <2>5 DEF Unwind
    <2>6. ASSUME NEW p \in Procs, Signal(p) PROVE [SleepReturnsDue]_schedVars
        BY <2>6 DEF Signal
    <2>7. ASSUME NEW p \in Procs, SleepKilled(p)
          PROVE [SleepReturnsDue]_schedVars
        BY <2>7 DEF SleepKilled, ProcessSignalsAndExit, Finish
    <2>8. ASSUME NEW p \in Procs, SleepRewound(p)
          PROVE [SleepReturnsDue]_schedVars
        BY <2>8 DEF SleepRewound, HandleRewind, CanEnter
    <2>9. ASSUME NEW p \in Procs, SleepYield(p)
          PROVE [SleepReturnsDue]_schedVars
        BY <2>9 DEF SleepYield
    <2>10. ASSUME NEW p \in Procs, SleepBlock(p)
           PROVE [SleepReturnsDue]_schedVars
        BY <2>10 DEF SleepBlock, BlockIn
    <2>11. ASSUME NEW p \in Procs, SleepTimeout(p)
           PROVE [SleepReturnsDue]_schedVars
        BY <2>11 DEF SleepTimeout, ReturnFromBlock
    <2>12. ASSUME NEW p \in Procs, SleepWake(p)
           PROVE [SleepReturnsDue]_schedVars
        BY <2>12 DEF SleepWake, Respawn
    <2>13. CASE UNCHANGED schedVars
        BY <2>13 DEF schedVars
    <2>14. QED
        BY <2>1, <2>2, <2>3, <2>4, <2>5, <2>6, <2>7, <2>8, <2>9, <2>10,
           <2>11, <2>12, <2>13 DEF Next, SchedNext, SleepNext
<1>2. QED
    BY <1>1, SleepInvariant, PTL DEF Spec, SleepNotEarly

=============================================================================
