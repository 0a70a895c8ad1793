-------------------------- MODULE ProcForkProofs --------------------------
(***************************************************************************)
(* Proofs, for every value of the constants, about proc_fork on the        *)
(* runners: type correctness; fork determinism (the child reads 0 and the  *)
(* parent the child's pid) from the inductive invariant ForkInv; and that  *)
(* the wrapping bounds check of the pid patch is the intended one.         *)
(***************************************************************************)
EXTENDS ProcFork, TLAPS

USE ConstantsAssumption, ForkAssumption

(* The exit-code tables of the two runners only produce codes of the       *)
(* WASI exit-code enumeration.                                              *)
LEMMA RunnerCodesTyped ==
    \A o \in Outcomes : /\ ExecExitCode[o] \in Codes
                        /\ ForkExitCode[o] \in Codes
BY DEF ExecExitCode, ForkExitCode, Outcomes, Codes

(* The steps of the runners and the scheduler leave the fork's variables   *)
(* alone and keep the scheduler's state well typed.                        *)
LEMMA SchedTypeStep ==
    ASSUME ForkTypeOK, SchedNext, UNCHANGED forkVars
    PROVE  ForkTypeOK'
<1> USE DEF ForkTypeOK, SchedTypeOK, Status, Syscalls, Codes, NoCode, Causes,
            Outcomes, Time, Infinity, forkVars
<1>1. CASE Tick
    BY <1>1 DEF Tick
<1>2. ASSUME NEW p \in Procs, Launch(p) PROVE ForkTypeOK'
    BY <1>2 DEF Launch
<1>3. ASSUME NEW p \in Procs, GuestEnd(p) PROVE ForkTypeOK'
    BY <1>3, RunnerCodesTyped DEF GuestEnd, Finish, ExitCodeFor
<1>4. ASSUME NEW p \in Procs, BlockKilled(p) PROVE ForkTypeOK'
    BY <1>4, RunnerCodesTyped DEF BlockKilled, Finish, ExitCodeFor
<1>5. ASSUME NEW p \in Procs, Unwind(p) PROVE ForkTypeOK'
    BY <1>5 DEF Unwind
<1>6. ASSUME NEW p \in Procs, Signal(p) PROVE ForkTypeOK'
    BY <1>6 DEF Signal
<1>7. QED
    BY <1>1, <1>2, <1>3, <1>4, <1>5, <1>6 DEF SchedNext

(* The remainder of a value within one modulus of the range 0..M-1.        *)
LEMMA ModInRange ==
    ASSUME NEW M \in Nat \ {0}, NEW x \in 0..(M - 1) PROVE x % M = x
BY SMT

LEMMA ModBelow ==
    ASSUME NEW M \in Nat \ {0}, NEW a \in Nat, NEW b \in Nat, a < b, b - a <= M
    PROVE  (a - b) % M = a - b + M
BY SMT

(* A remainder by a positive modulus lies in 0..M-1.                      *)
LEMMA ModRange ==
    ASSUME NEW M \in Nat \ {0}, NEW a \in Nat, NEW b \in Nat
    PROVE  (a - b) % M \in 0..(M - 1)
BY SMT

(* The bounds check yields a flag and, when it passes, a start position   *)
(* inside the captured memory stack.                                      *)
LEMMA PidSlotTyped ==
    ASSUME NEW off \in PidOffsets
    PROVE  PidSlot(off) \in [ok : BOOLEAN, pstart : Nat]
<1>1. 2^Width \in Nat \ {0}
    BY ForkAssumption
<1>2. (StackUpper - off) % 2^Width \in 0..(2^Width - 1)
    BY <1>1, ModRange, ForkAssumption
<1>3. QED
    BY <1>2, ForkAssumption DEF PidSlot

(* Each of proc_fork's steps, and the start of a forked child, keeps the   *)
(* state well typed; the child's call counter inherits the parent's, which *)
(* is below MaxCalls on a fresh call.                                      *)
LEMMA ForkTypeStep ==
    ASSUME ForkTypeOK, NEW p \in Procs, ForkNext(p) \/ ChildStart(p)
    PROVE  ForkTypeOK'
<1> USE DEF ForkTypeOK, SchedTypeOK, Status, Syscalls, Codes, NoCode, Causes,
            Outcomes, Time, Infinity, PidValues, Returns, forkVars
<1>1. CASE ForkKilled(p)
    BY <1>1, RunnerCodesTyped DEF ForkKilled, ProcessSignalsAndExit, Finish,
                                  ExitCodeFor
<1>2. CASE ForkRewound(p)
    BY <1>2 DEF ForkRewound, HandleRewind
<1>3. CASE ForkFailed(p)
    BY <1>3 DEF ForkFailed, ForkStart, CanEnter
<1>4. CASE ForkWriteFault(p)
    <2>1. PICK q \in Procs, off \in PidOffsets :
                 /\ status[q] = "free"
                 /\ children' = [children EXCEPT ![p] = @ \cup {q}]
                 /\ status' = [status EXCEPT ![q] = "dropped"]
        BY <1>4 DEF ForkWriteFault
    <2>2. QED
        BY <1>4, <2>1 DEF ForkWriteFault, ForkStart, CanEnter
<1>5. CASE ForkCopy(p)
    <2>1. PICK q \in Procs, off \in PidOffsets, cs \in ChildSpawn :
                 /\ status[q] = "free"
                 /\ children' = [children EXCEPT ![p] = @ \cup {q}]
                 /\ runner' = [runner EXCEPT ![q] = "fork"]
                 /\ calls' = [calls EXCEPT ![p] = @ + 1, ![q] = calls[p] + 1]
                 /\ \/ PidSlot(off).ok /\ ParentResumes(p, q, cs)
                    \/ (~PidSlot(off).ok \/ RewindMayFail)
                       /\ ParentTraps(p, q, cs)
        BY <1>5 DEF ForkCopy
    <2>2. cs \in Status
        BY DEF ChildSpawn
    <2>3. calls[p] < MaxCalls
        BY <1>5 DEF ForkCopy, ForkStart, CanEnter
    <2>4. UNCHANGED <<deadline, window, sigs, now, forkret>>
        BY <1>5 DEF ForkCopy
    <2>5. /\ children' \in [Procs -> SUBSET Procs]
          /\ runner' \in [Procs -> {"exec", "fork"}]
          /\ calls' \in [Procs -> 0..MaxCalls]
        BY <2>1, <2>3
    <2>6. pidslot' \in [Procs -> SUBSET [off : PidOffsets,
                                        slot : [ok : BOOLEAN, pstart : Nat]]]
        BY <1>5, PidSlotTyped DEF ForkCopy
    <2>7. CASE ParentResumes(p, q, cs)
        BY <2>2, <2>4, <2>5, <2>6, <2>7 DEF ParentResumes
    <2>8. CASE ParentTraps(p, q, cs)
        <3>1. ExitCodeFor(p, "exit_failure") \in Codes
            BY RunnerCodesTyped DEF ExitCodeFor
        <3>2. code' \in [Procs -> Codes \cup {NoCode}]
            BY <2>8, <3>1 DEF ParentTraps
        <3>3. status' \in [Procs -> Status] /\ cause' \in [Procs -> Causes]
            BY <2>2, <2>8 DEF ParentTraps
        <3>4. /\ syscall' \in [Procs -> Syscalls]
              /\ rewinding' \in [Procs -> BOOLEAN]
              /\ pidcell' \in [Procs -> PidValues]
            BY <2>8 DEF ParentTraps
        <3>5. QED
            BY <2>4, <2>5, <2>6, <3>2, <3>3, <3>4
    <2>9. QED
        BY <2>1, <2>7, <2>8
<1>6. CASE ForkVfork(p)
    <2>1. PICK q \in Procs, off \in PidOffsets :
                 /\ status[q] = "free"
                 /\ children' = [children EXCEPT ![p] = @ \cup {q}]
                 /\ runner' = [runner EXCEPT ![q] = runner[p]]
                 /\ calls' = [calls EXCEPT ![p] = @ + 1, ![q] = calls[p] + 1]
                 /\ pidcell' = [pidcell EXCEPT ![p] = "zero", ![q] = "zero"]
                 /\ syscall' = [syscall EXCEPT ![p] = "fork", ![q] = "fork"]
                 /\ \/ /\ status' = [status EXCEPT ![p] = "vforked",
                                                   ![q] = "running"]
                       /\ rewinding' = [rewinding EXCEPT ![q] = TRUE]
                       /\ UNCHANGED <<code, cause>>
                    \/ /\ RewindMayFail
                       /\ status' = [status EXCEPT ![p] = "vforked",
                                                   ![q] = "exited"]
                       /\ code' = [code EXCEPT ![q] = ExitCodeFor(p,
                                                             "exit_failure")]
                       /\ cause' = [cause EXCEPT ![q] = "exit_failure"]
                       /\ UNCHANGED rewinding
        BY <1>6 DEF ForkVfork
    <2>2. calls[p] < MaxCalls
        BY <1>6 DEF ForkVfork, ForkStart, CanEnter
    <2>3. ExitCodeFor(p, "exit_failure") \in Codes
        BY RunnerCodesTyped DEF ExitCodeFor
    <2>4. UNCHANGED <<deadline, window, sigs, now, forkret, pidslot>>
        BY <1>6 DEF ForkVfork
    <2>5. /\ status' \in [Procs -> Status]
          /\ rewinding' \in [Procs -> BOOLEAN]
          /\ code' \in [Procs -> Codes \cup {NoCode}]
          /\ cause' \in [Procs -> Causes]
        <3>1. CASE status' = [status EXCEPT ![p] = "vforked", ![q] = "running"]
                   /\ rewinding' = [rewinding EXCEPT ![q] = TRUE]
                   /\ UNCHANGED <<code, cause>>
            BY <3>1
        <3>2. CASE status' = [status EXCEPT ![p] = "vforked", ![q] = "exited"]
                   /\ code' = [code EXCEPT ![q] = ExitCodeFor(p, "exit_failure")]
                   /\ cause' = [cause EXCEPT ![q] = "exit_failure"]
                   /\ UNCHANGED rewinding
            BY <3>2, <2>3
        <3>3. QED
            BY <2>1, <3>1, <3>2
    <2>6. children' \in [Procs -> SUBSET Procs]
        BY <2>1
    <2>7. runner' \in [Procs -> {"exec", "fork"}]
        BY <2>1
    <2>8. calls' \in [Procs -> 0..MaxCalls]
        BY <2>1, <2>2
    <2>9. pidcell' \in [Procs -> PidValues] /\ syscall' \in [Procs -> Syscalls]
        BY <2>1
    <2>10. QED
        BY <2>4, <2>5, <2>6, <2>7, <2>8, <2>9
<1>7. CASE ChildStart(p)
    <2>1. UNCHANGED <<runner, syscall, deadline, window, sigs, code, cause,
                      now, calls, children, pidcell, forkret, pidslot>>
        BY <1>7 DEF ChildStart
    <2>2. CASE status' = [status EXCEPT ![p] = "running"]
               /\ rewinding' = [rewinding EXCEPT ![p] = TRUE]
        BY <2>1, <2>2
    <2>3. CASE status' = [status EXCEPT ![p] = "stranded"]
               /\ UNCHANGED rewinding
        BY <2>1, <2>3
    <2>4. QED
        BY <1>7, <2>2, <2>3 DEF ChildStart
<1>8. QED
    BY <1>1, <1>2, <1>3, <1>4, <1>5, <1>6, <1>7 DEF ForkNext

(* A step of the whole specification keeps the state well typed.           *)
LEMMA ForkTypeInductive == ForkTypeOK /\ [ForkSpecNext]_vars => ForkTypeOK'
<1> SUFFICES ASSUME ForkTypeOK, [ForkSpecNext]_vars PROVE ForkTypeOK'
    OBVIOUS
<1>1. CASE SchedNext /\ UNCHANGED forkVars
    BY <1>1, SchedTypeStep
<1>2. ASSUME NEW p \in Procs, ForkNext(p) \/ ChildStart(p) PROVE ForkTypeOK'
    BY <1>2, ForkTypeStep
<1>3. CASE UNCHANGED vars
    BY <1>3 DEF vars, schedVars, forkVars, ForkTypeOK, SchedTypeOK
<1>4. QED
    BY <1>1, <1>2, <1>3 DEF ForkSpecNext

(* Type correctness of proc_fork on the runners and the scheduler.         *)
THEOREM ForkTypeCorrect == ForkSpec => []ForkTypeOK
<1>1. ForkInit => ForkTypeOK
    BY DEF ForkInit, Init, ForkTypeOK, SchedTypeOK, Status, Syscalls, Codes,
           NoCode, Causes, Time, Infinity, PidValues, Returns
<1>2. QED
    BY <1>1, ForkTypeInductive, PTL DEF ForkSpec
-----------------------------------------------------------------------------
(* What each process's pid_ptr cell holds is consistent with the children *)
(* lists: a pid there is one of the process's own children (the parent's  *)
(* stack was patched with the pid of the child linked in just before), a  *)
(* 0 there belongs to a linked-in child or to a process that proc_fork    *)
(* will never return to (a parent that trapped or is parked by vfork),    *)
(* and a process that has not started has no cell yet.                    *)
PidsLinked ==
    \A p \in Procs :
        /\ pidcell[p] \in Procs => pidcell[p] \in children[p]
        /\ pidcell[p] = "zero" =>
              \/ \E r \in Procs : p \in children[r]
              \/ status[p] \in {"exited", "vforked"}
        /\ status[p] \in {"free", "spawning"} => pidcell[p] = "unset"

(* The inductive strengthening of ForkDeterminism.                         *)
ForkInv == ForkTypeOK /\ ForkDeterminism /\ PidsLinked

(* No step unlinks a child: the children lists only grow.                 *)
LEMMA ChildrenGrow ==
    ASSUME ForkTypeOK, [ForkSpecNext]_vars
    PROVE  \A r \in Procs : children[r] \subseteq children'[r]
<1>1. CASE SchedNext /\ UNCHANGED forkVars
    BY <1>1 DEF forkVars
<1>2. ASSUME NEW p \in Procs, ForkNext(p) \/ ChildStart(p)
      PROVE  \A r \in Procs : children[r] \subseteq children'[r]
    BY <1>2 DEF ForkNext, ForkKilled, ForkRewound, ForkFailed, ForkWriteFault,
                ForkCopy, ForkVfork, ChildStart, forkVars, ForkTypeOK
<1>3. CASE UNCHANGED vars
    BY <1>3 DEF vars, forkVars
<1>4. QED
    BY <1>1, <1>2, <1>3 DEF ForkSpecNext

(* Each step keeps ForkInv.                                                *)
LEMMA ForkInvStep == ForkInv /\ [ForkSpecNext]_vars => ForkInv'
<1> SUFFICES ASSUME ForkInv, [ForkSpecNext]_vars PROVE ForkInv'
    OBVIOUS
<1>1. ForkTypeOK'
    BY ForkTypeInductive DEF ForkInv
<1>2. \A r \in Procs : children[r] \subseteq children'[r]
    BY ChildrenGrow DEF ForkInv
<1> SUFFICES (ForkDeterminism /\ PidsLinked)'
    BY <1>1 DEF ForkInv
<1> USE <1>1, <1>2 DEF ForkInv, ForkDeterminism, PidsLinked, ForkTypeOK,
                      SchedTypeOK
<1>3. CASE SchedNext /\ UNCHANGED forkVars
    <2> USE <1>3 DEF forkVars
    <2>1. CASE Tick
        BY <2>1 DEF Tick
    <2>2. ASSUME NEW p \in Procs, Launch(p) PROVE (ForkDeterminism /\ PidsLinked)'
        BY <2>2 DEF Launch
    <2>3. ASSUME NEW p \in Procs, GuestEnd(p) PROVE (ForkDeterminism /\ PidsLinked)'
        BY <2>3 DEF GuestEnd, Finish
    <2>4. ASSUME NEW p \in Procs, BlockKilled(p) PROVE (ForkDeterminism /\ PidsLinked)'
        BY <2>4 DEF BlockKilled, Finish
    <2>5. ASSUME NEW p \in Procs, Unwind(p) PROVE (ForkDeterminism /\ PidsLinked)'
        BY <2>5 DEF Unwind
    <2>6. ASSUME NEW p \in Procs, Signal(p) PROVE (ForkDeterminism /\ PidsLinked)'
        BY <2>6 DEF Signal
    <2>7. QED
        BY <2>1, <2>2, <2>3, <2>4, <2>5, <2>6 DEF SchedNext
<1>4. ASSUME NEW p \in Procs, ForkKilled(p) PROVE (ForkDeterminism /\ PidsLinked)'
    BY <1>4 DEF ForkKilled, ProcessSignalsAndExit, Finish, forkVars
<1>5. ASSUME NEW p \in Procs, ForkRewound(p) PROVE (ForkDeterminism /\ PidsLinked)'
    BY <1>5 DEF ForkRewound, CanEnter
<1>6. ASSUME NEW p \in Procs, ForkFailed(p) PROVE (ForkDeterminism /\ PidsLinked)'
    BY <1>6 DEF ForkFailed
<1>7. ASSUME NEW p \in Procs, ForkWriteFault(p) PROVE (ForkDeterminism /\ PidsLinked)'
    BY <1>7 DEF ForkWriteFault
<1>8. ASSUME NEW p \in Procs, ForkCopy(p) PROVE (ForkDeterminism /\ PidsLinked)'
    <2>1. PICK q \in Procs, off \in PidOffsets, cs \in ChildSpawn :
                 /\ status[q] = "free"
                 /\ children' = [children EXCEPT ![p] = @ \cup {q}]
                 /\ \/ PidSlot(off).ok /\ ParentResumes(p, q, cs)
                    \/ (~PidSlot(off).ok \/ RewindMayFail)
                       /\ ParentTraps(p, q, cs)
        BY <1>8 DEF ForkCopy
    <2>2. status[p] = "running" /\ q /= p /\ q \in children'[p]
        <3>1. status[p] = "running"
            BY <1>8 DEF ForkCopy, ForkStart, CanEnter
        <3>2. q /= p
            BY <2>1, <3>1
        <3>3. q \in children'[p]
            BY <2>1
        <3>4. QED
            BY <3>1, <3>2, <3>3
    <2>3. UNCHANGED forkret
        BY <1>8 DEF ForkCopy
    <2>4. CASE ParentResumes(p, q, cs)
        BY <2>1, <2>2, <2>3, <2>4 DEF ParentResumes, ChildSpawn
    <2>5. CASE ParentTraps(p, q, cs)
        <3>1. ForkDeterminism'
            BY <2>3
        <3>2. cs \notin {"free", "spawning"}
            BY DEF ChildSpawn
        <3>3. ASSUME NEW r \in Procs
              PROVE  /\ pidcell'[r] \in Procs => pidcell'[r] \in children'[r]
                     /\ pidcell'[r] = "zero" =>
                           \/ \E r2 \in Procs : r \in children'[r2]
                           \/ status'[r] \in {"exited", "vforked"}
                     /\ status'[r] \in {"free", "spawning"} =>
                           pidcell'[r] = "unset"
            BY <2>1, <2>2, <2>5, <3>2 DEF ParentTraps
        <3>4. QED
            BY <3>1, <3>3
    <2>6. QED
        BY <2>1, <2>4, <2>5
<1>9. ASSUME NEW p \in Procs, ForkVfork(p) PROVE (ForkDeterminism /\ PidsLinked)'
    <2>1. PICK q \in Procs, off \in PidOffsets :
                 /\ status[q] = "free"
                 /\ children' = [children EXCEPT ![p] = @ \cup {q}]
                 /\ pidcell' = [pidcell EXCEPT ![p] = "zero", ![q] = "zero"]
                 /\ \/ status' = [status EXCEPT ![p] = "vforked",
                                              ![q] = "running"]
                    \/ status' = [status EXCEPT ![p] = "vforked",
                                              ![q] = "exited"]
        BY <1>9 DEF ForkVfork
    <2>2. status[p] = "running" /\ q /= p /\ q \in children'[p]
        <3>1. status[p] = "running"
            BY <1>9 DEF ForkVfork, ForkStart, CanEnter
        <3>2. q /= p
            BY <2>1, <3>1
        <3>3. q \in children'[p]
            BY <2>1
        <3>4. QED
            BY <3>1, <3>2, <3>3
    <2>3. UNCHANGED forkret
        BY <1>9 DEF ForkVfork
    <2>4. QED
        BY <2>1, <2>2, <2>3
<1>10. ASSUME NEW p \in Procs, ChildStart(p) PROVE (ForkDeterminism /\ PidsLinked)'
    BY <1>10 DEF ChildStart, forkVars
<1>11. CASE UNCHANGED vars
    BY <1>11 DEF vars, schedVars, forkVars
<1>12. QED
    BY <1>3, <1>4, <1>5, <1>6, <1>7, <1>8, <1>9, <1>10, <1>11
       DEF ForkSpecNext, ForkNext

(* Fork determinism (spec 4.4): in every reachable state, proc_fork has   *)
(* returned 0 only to a process that is some process's child, and a pid   *)
(* only to that child's parent.                                            *)
THEOREM ForkDeterministic == ForkSpec => []ForkDeterminism
<1>1. ForkInit => ForkInv
    BY DEF ForkInit, Init, ForkInv, ForkTypeOK, SchedTypeOK, ForkDeterminism,
           PidsLinked, Status, Syscalls, Codes, NoCode, Causes, Time, Infinity,
           PidValues, Returns
<1>2. ForkInv => ForkDeterminism
    BY DEF ForkInv
<1>3. QED
    BY <1>1, <1>2, ForkInvStep, PTL DEF ForkSpec
-----------------------------------------------------------------------------
(* The bounds check of proc_fork's unwind closure (proc_fork.rs:196-219), *)
(* computed with wrapping u64 arithmetic, accepts pid_ptr exactly when its *)
(* four bytes lie in the active part of the captured memory stack, and     *)
(* then patches them at the right place, for every stack layout whose      *)
(* upper end leaves room for the pid below 2^64.  (With stack_upper within *)
(* four bytes of 2^64 the wrapped sum admits an offset whose patch runs    *)
(* past the end of the stack.)                                             *)
LEMMA PidSlotCheck ==
    ASSUME StackUpper + PidBytes < 2^Width, NEW off \in PidOffsets
    PROVE  /\ PidSlot(off).ok <=> InActiveStack(off)
           /\ PidSlot(off).ok => StackUpper - StackLen + PidSlot(off).pstart = off
<1> DEFINE M == 2^Width
<1>1. M \in Nat \ {0}
    BY ForkAssumption DEF PidBytes
<1>3. off \in 0..(M - 1)
    BY ForkAssumption
<1>4. CASE off + PidBytes <= StackUpper
    <2>1. (off + PidBytes) % M = off + PidBytes
        BY <1>1, <1>3, <1>4, ModInRange DEF PidBytes
    <2>2. (StackUpper - off) % M = StackUpper - off
        BY <1>1, <1>3, <1>4, ModInRange DEF PidBytes
    <2>3. QED
        BY <1>4, <2>1, <2>2 DEF PidSlot, InActiveStack, PidBytes
<1>5. CASE StackUpper < off + PidBytes /\ off + PidBytes < M
    <2>1. (off + PidBytes) % M = off + PidBytes
        BY <1>1, <1>3, <1>5, ModInRange DEF PidBytes
    <2>2. QED
        BY <1>5, <2>1 DEF PidSlot, InActiveStack, PidBytes
<1>6. CASE M <= off + PidBytes
    <2>1. (StackUpper - off) % M = StackUpper - off + M
        BY <1>1, <1>3, <1>6, ModBelow DEF PidBytes
    <2>2. QED
        BY <1>1, <1>6, <2>1 DEF PidSlot, InActiveStack, PidBytes
<1>7. QED
    BY <1>3, <1>4, <1>5, <1>6 DEF PidBytes
(* Every copy-mode fork recorded in the history variable pidslot holds   *)
(* the offset of pid_ptr and what the bounds check computed for it.       *)
SlotsRecorded ==
    \A p \in Procs : \A h \in pidslot[p] :
        h.off \in PidOffsets /\ h.slot = PidSlot(h.off)

(* Only the copy-mode fork writes pidslot, with the check's own result.   *)
LEMMA SlotsRecordedStep ==
    SlotsRecorded /\ [ForkSpecNext]_vars => SlotsRecorded'
<1> SUFFICES ASSUME SlotsRecorded, [ForkSpecNext]_vars PROVE SlotsRecorded'
    OBVIOUS
<1>1. ASSUME NEW p \in Procs, ForkCopy(p) PROVE SlotsRecorded'
    <2>1. PICK off \in PidOffsets :
              pidslot' = [pidslot EXCEPT ![p] = {[off |-> off,
                                                  slot |-> PidSlot(off)]}]
        BY <1>1 DEF ForkCopy
    <2>2. QED
        BY <2>1 DEF SlotsRecorded
<1>2. CASE UNCHANGED pidslot
    BY <1>2 DEF SlotsRecorded
<1>3. QED
    BY <1>1, <1>2 DEF ForkSpecNext, ForkNext, ForkKilled, ForkRewound,
                      ForkFailed, ForkWriteFault, ForkVfork, ChildStart,
                      forkVars, vars

(* The pid patch of every copy-mode fork lands on pid_ptr inside the      *)
(* active stack, and the parent traps exactly when it would not, for every *)
(* stack layout with room for the pid below 2^64.                          *)
THEOREM PidSlotCorrect ==
    ASSUME StackUpper + PidBytes < 2^Width
    PROVE  ForkSpec => []PidSlotMatchesStack
<1>1. ForkInit => SlotsRecorded
    BY DEF ForkInit, SlotsRecorded
<1>2. SlotsRecorded => PidSlotMatchesStack
    BY PidSlotCheck DEF SlotsRecorded, PidSlotMatchesStack
<1>3. QED
    BY <1>1, <1>2, SlotsRecordedStep, PTL DEF ForkSpec
=============================================================================
