----------------------------- MODULE PollOneoff -----------------------------
(***************************************************************************)
(* poll_oneoff (syscalls/wasi/poll_oneoff.rs) on top of the deep-sleep     *)
(* scheduler.  The outer poll_oneoff bumps poll_seed, reads the guest's    *)
(* subscriptions rotated by the seed and clears nevents; the internal      *)
(* function checks the fds and clocks, builds a PollBatch over one guard   *)
(* per fd subscription and waits on it with the timeout the clocks give.   *)
(* The after-closure writes the triggered events and their number into     *)
(* guest memory.  A subscription is a record; an fd is a number (0, 1, 2   *)
(* are stdin, stdout, stderr); a timeout other than the sentinels 0 and 1  *)
(* is given in ticks.                                                      *)
(***************************************************************************)
EXTENDS DeepSleep, Sequences

CONSTANTS
    OpenFds,    \* the fds of the fd table
    PollRights, \* the open fds whose rights contain POLL_FD_READWRITE
    Pollable,   \* the open fds whose inode InodeValFilePollGuard::new accepts
    Subs,       \* the subscriptions the guest may pass
    MaxSubs     \* bound on nsubscriptions

SubRecords ==
    [type : {"FdRead", "FdWrite", "Clock"}, fd : Nat,
     clock : {"Realtime", "Monotonic", "ProcessCputime"},
     timeout : Nat, userdata : Nat]

ASSUME PollAssumption ==
    /\ PollRights \subseteq OpenFds
    /\ Pollable \subseteq OpenFds
    /\ Subs \subseteq SubRecords
    /\ MaxSubs \in Nat

VARIABLES
    seed,       \* WasiEnv::poll_seed
    nevents,    \* the guest's nevents cell
    evts,       \* the events process_events last wrote to the out buffer
    batch,      \* the pending poll: its subscriptions, guards, clock_subs and
                \* the instant it was called
    ready       \* the fds that are readable/writable now

pollVars == <<seed, nevents, evts, batch, ready>>
vars == <<schedVars, pollVars>>

StdFds == {0, 1, 2}
NoEvents == <<>>
Event == [userdata : Nat, type : {"FdRead", "FdWrite", "Clock"}]
Guard == [fd : Nat, userdata : Nat, type : {"FdRead", "FdWrite"}]
NoBatch == [subs |-> <<>>, guards |-> <<>>, clocks |-> <<>>, start |-> 0]

(* The guest's subscription arrays.                                        *)
SubSeqs == UNION {[1..n -> Subs] : n \in 0..MaxSubs}

(* SequencesExt's FoldLeft, written as a recursive function.               *)
FoldSubs(Op(_, _), base, s) ==
    LET f[i \in 0..Len(s)] == IF i = 0 THEN base ELSE Op(f[i - 1], s[i])
    IN  f[Len(s)]

-----------------------------------------------------------------------------
(* The subscription array read index by index from (n + poll_seed) % len   *)
(* (poll_oneoff.rs:39-46).                                                 *)
Rotated(s, sd) == [i \in 1..Len(s) |-> s[((i - 1 + sd) % Len(s)) + 1]]

(* fd_entry.rights.contains(Rights::POLL_FD_READWRITE).                    *)
HasPollRights(fd) == fd \in PollRights

(* The first loop's checks of an fd subscription (poll_oneoff.rs:173-207): *)
(* stdio skips them; state.fs.get_fd fails with Badf for an fd that is not *)
(* open; an fd without the poll right is refused with Access.              *)
FdCheck(s) ==
    IF s.fd \in StdFds THEN "ok"
    ELSE IF s.fd \notin OpenFds THEN "Badf"
    ELSE IF ~HasPollRights(s.fd) THEN "Access"
    ELSE "ok"

(* A clock subscription (poll_oneoff.rs:209-237): only the realtime and    *)
(* monotonic clocks are accepted; a repeat of an entry of clock_subs (same *)
(* clock and userdata) is skipped; a timeout of 0 sets time_to_sleep to    *)
(* Duration::MAX (Infinity here), 1 sets it to zero, and any other value   *)
(* overwrites it and is pushed onto clock_subs.                            *)
ClockStep(st, s) ==
    IF s.clock \notin {"Realtime", "Monotonic"} THEN [st EXCEPT !.err = "Inval"]
    ELSE IF \E i \in DOMAIN st.clocks :
               st.clocks[i].clock = s.clock /\ st.clocks[i].userdata = s.userdata
         THEN st
    ELSE IF s.timeout = 0 THEN [st EXCEPT !.tts = Infinity]
    ELSE IF s.timeout = 1 THEN [st EXCEPT !.tts = 0]
    ELSE [st EXCEPT !.tts = s.timeout, !.clocks = Append(@, s)]

(* One iteration of the first loop; an error is an early return.           *)
CheckStep(st, s) ==
    IF st.err /= "ok" THEN st
    ELSE IF s.type = "Clock" THEN ClockStep(st, s)
    ELSE [st EXCEPT !.err = FdCheck(s)]

(* The guard a fd subscription adds to the batch.                          *)
GuardOf(s) == [fd |-> s.fd, userdata |-> s.userdata, type |-> s.type]

(* Variant: the guard loop takes stdin, like stdout and stderr, from       *)
(* WasiInodes without looking up its rights.                               *)
GuardStepStdin(st, s) ==
    IF st.err /= "ok" \/ s.type = "Clock" THEN st
    ELSE IF s.fd \notin OpenFds THEN [st EXCEPT !.err = "Badf"]
    ELSE IF s.fd \in StdFds THEN [st EXCEPT !.guards = Append(@, GuardOf(s))]
    ELSE IF ~HasPollRights(s.fd) THEN [st EXCEPT !.err = "Access"]
    ELSE IF s.fd \notin Pollable THEN [st EXCEPT !.err = "Badf"]
    ELSE [st EXCEPT !.guards = Append(@, GuardOf(s))]

(* One iteration of the loop that builds the fd guards                     *)
(* (poll_oneoff.rs:253-287): stdout and stderr come from WasiInodes; any   *)
(* other fd, stdin included, is looked up and its rights checked again,    *)
(* and an inode that cannot be polled gives Badf.  Each test is an early   *)
(* return of the loop body, taken in the code's order.                     *)
GuardStep(st, s) ==
    IF st.err /= "ok" \/ s.type = "Clock" THEN st
    ELSE IF s.fd \notin OpenFds THEN [st EXCEPT !.err = "Badf"]
    ELSE IF s.fd \in {1, 2} THEN [st EXCEPT !.guards = Append(@, GuardOf(s))]
    ELSE IF ~HasPollRights(s.fd) THEN [st EXCEPT !.err = "Access"]
    ELSE IF s.fd \notin Pollable THEN [st EXCEPT !.err = "Badf"]
    ELSE [st EXCEPT !.guards = Append(@, GuardOf(s))]

(* What poll_oneoff_internal has built from the rotated subscriptions      *)
(* before it waits: an error, or the guards, clock_subs and time_to_sleep. *)
Prepared(rs) ==
    LET chk == FoldSubs(CheckStep, [err |-> "ok", clocks |-> <<>>,
                                    tts |-> Infinity], rs)
        grd == FoldSubs(GuardStep, [err |-> "ok", guards |-> <<>>], rs)
    IN  [err |-> IF chk.err /= "ok" THEN chk.err ELSE grd.err,
         guards |-> grd.guards, clocks |-> chk.clocks, tts |-> chk.tts]

(* One join of PollBatch::poll's loop (poll_oneoff.rs:98-117): a guard    *)
(* whose fd is ready pushes its event, a pending one adds nothing.         *)
PollGuard(es, g) ==
    IF g.fd \in ready
    THEN Append(es, [userdata |-> g.userdata, type |-> g.type])
    ELSE es

(* PollBatch::poll (poll_oneoff.rs:92-124): the events of every guard      *)
(* that is ready, in guard order; pending while there is none.             *)
ReadyOf(guards) == FoldSubs(PollGuard, NoEvents, guards)

ReadyEvents(p) == ReadyOf(batch[p].guards)

(* The Err(Errno::Timedout) arm of the after-closure                       *)
(* (poll_oneoff.rs:336-358): one clock event for every entry of clock_subs.*)
ClockEvents(p) ==
    [i \in DOMAIN batch[p].clocks |->
        [userdata |-> batch[p].clocks[i].userdata, type |-> "Clock"]]

(* process_events (poll_oneoff.rs:52-65): the events are written to the    *)
(* out buffer and their number to nevents.                                 *)
ProcessEvents(p, es) ==
    /\ evts' = [evts EXCEPT ![p] = es]
    /\ nevents' = [nevents EXCEPT ![p] = Len(es)]

(* The outer poll_oneoff after its signal check: poll_seed += 1, the       *)
(* subscriptions are read and nevents is cleared (poll_oneoff.rs:35-49).   *)
Enter(p) ==
    /\ CanEnter(p, "poll")
    /\ ~sigs[p]
    /\ seed' = [seed EXCEPT ![p] = @ + 1]

-----------------------------------------------------------------------------
(* process_signals_and_exit (poll_oneoff.rs:33).                           *)
PollKilled(p) ==
    /\ CanEnter(p, "poll")
    /\ ProcessSignalsAndExit(p)
    /\ UNCHANGED pollVars

(* The replayed call runs the outer function again, then handle_rewind     *)
(* (poll_oneoff.rs:147-150) returns Success.                               *)
PollRewound(p) ==
    /\ Enter(p)
    /\ rewinding[p]
    /\ nevents' = [nevents EXCEPT ![p] = 0]
    /\ HandleRewind(p)
    /\ UNCHANGED <<status, runner, window, sigs, code, cause, now, calls>>
    /\ UNCHANGED <<evts, batch, ready>>

(* A fresh call; the guest passes subscriptions whose timeouts end within  *)
(* the model's clock.                                                      *)
FreshCall(p, s) ==
    /\ Enter(p)
    /\ ~rewinding[p]
    /\ s \in SubSeqs
    /\ \A i \in DOMAIN s : now + s[i].timeout <= MaxTime
    /\ calls' = [calls EXCEPT ![p] = @ + 1]

(* A check fails: poll_oneoff returns the errno, nevents stays 0.          *)
PollError(p) ==
    \E s \in SubSeqs :
       /\ FreshCall(p, s)
       /\ Prepared(Rotated(s, seed'[p])).err /= "ok"
       /\ nevents' = [nevents EXCEPT ![p] = 0]
       /\ evts' = [evts EXCEPT ![p] = NoEvents]
       /\ UNCHANGED <<status, runner, syscall, rewinding, deadline, window,
                      sigs, code, cause, now>>
       /\ UNCHANGED <<batch, ready>>

(* time_to_sleep is zero (poll_oneoff.rs:304-308): the batch is polled     *)
(* once; with no ready guard the result is Errno::Again, which the         *)
(* after-closure turns into an empty event list (poll_oneoff.rs:361-363).  *)
PollNow(p) ==
    \E s \in SubSeqs :
       LET r == Prepared(Rotated(s, seed'[p])) IN
       /\ FreshCall(p, s)
       /\ r.err = "ok"
       /\ r.tts = 0
       /\ batch' = [batch EXCEPT ![p] = [subs |-> s, guards |-> r.guards,
                                         clocks |-> r.clocks, start |-> now]]
       /\ ProcessEvents(p, ReadyOf(r.guards))
       /\ UNCHANGED <<status, runner, syscall, rewinding, deadline, window,
                      sigs, code, cause, now>>
       /\ UNCHANGED ready

(* Variant: time_to_sleep is passed to __asyncify as it is, without the    *)
(* match that turns Duration::MAX into no timeout.                         *)
PollBlockUnmatched(p) ==
    \E s \in SubSeqs :
       LET r == Prepared(Rotated(s, seed'[p])) IN
       /\ FreshCall(p, s)
       /\ r.err = "ok"
       /\ r.tts /= 0
       /\ batch' = [batch EXCEPT ![p] = [subs |-> s, guards |-> r.guards,
                                         clocks |-> r.clocks, start |-> now]]
       /\ nevents' = [nevents EXCEPT ![p] = 0]
       /\ evts' = [evts EXCEPT ![p] = NoEvents]
       /\ BlockInUnbounded(p, "poll", r.tts)
       /\ UNCHANGED <<runner, rewinding, sigs, code, cause, now>>
       /\ UNCHANGED ready

(* Otherwise __asyncify_with_deep_sleep_ext waits with time_to_sleep as    *)
(* timeout, none when it is Duration::MAX (poll_oneoff.rs:309-323).        *)
PollBlock(p) ==
    \E s \in SubSeqs :
       LET r == Prepared(Rotated(s, seed'[p])) IN
       /\ FreshCall(p, s)
       /\ r.err = "ok"
       /\ r.tts /= 0
       /\ batch' = [batch EXCEPT ![p] = [subs |-> s, guards |-> r.guards,
                                         clocks |-> r.clocks, start |-> now]]
       /\ nevents' = [nevents EXCEPT ![p] = 0]
       /\ evts' = [evts EXCEPT ![p] = NoEvents]
       /\ BlockIn(p, "poll", r.tts)
       /\ UNCHANGED <<runner, rewinding, sigs, code, cause, now>>
       /\ UNCHANGED ready

(* Inside the window a guard becomes ready: Ok(evts) is processed and the  *)
(* call returns Success.                                                   *)
PollReadyInWindow(p) ==
    /\ status[p] = "blocked"
    /\ syscall[p] = "poll"
    /\ ReadyEvents(p) /= NoEvents
    /\ ProcessEvents(p, ReadyEvents(p))
    /\ ReturnFromBlock(p)
    /\ UNCHANGED <<runner, rewinding, window, sigs, code, cause, now, calls>>
    /\ UNCHANGED <<seed, batch, ready>>

(* Inside the window the timeout expires: the clock events are processed.  *)
PollTimeoutInWindow(p) ==
    /\ status[p] = "blocked"
    /\ syscall[p] = "poll"
    /\ Due(p)
    /\ ProcessEvents(p, ClockEvents(p))
    /\ ReturnFromBlock(p)
    /\ UNCHANGED <<runner, rewinding, window, sigs, code, cause, now, calls>>
    /\ UNCHANGED <<seed, batch, ready>>

(* In a deep sleep the batch becomes ready: the respawn runs the           *)
(* after-closure, which writes the events, and rewinds.                    *)
PollWakeReady(p) ==
    /\ syscall[p] = "poll"
    /\ ReadyEvents(p) /= NoEvents
    /\ ProcessEvents(p, ReadyEvents(p))
    /\ Respawn(p)
    /\ UNCHANGED <<runner, syscall, deadline, window, sigs, code, cause, now,
                   calls>>
    /\ UNCHANGED <<seed, batch, ready>>

(* In a deep sleep the timeout expires: the clock events are written.      *)
PollWakeTimeout(p) ==
    /\ syscall[p] = "poll"
    /\ Due(p)
    /\ ProcessEvents(p, ClockEvents(p))
    /\ Respawn(p)
    /\ UNCHANGED <<runner, syscall, deadline, window, sigs, code, cause, now,
                   calls>>
    /\ UNCHANGED <<seed, batch, ready>>

(* A signal wakes the deep sleep; the after-closure gets an error other    *)
(* than Timedout and Again and writes nothing (poll_oneoff.rs:365-367).    *)
PollWakeSignal(p) ==
    /\ syscall[p] = "poll"
    /\ sigs[p]
    /\ Respawn(p)
    /\ UNCHANGED <<runner, syscall, deadline, window, sigs, code, cause, now,
                   calls>>
    /\ UNCHANGED pollVars

(* An fd becomes readable or writable.                                     *)
FdReady(fd) ==
    /\ fd \notin ready
    /\ ready' = ready \cup {fd}
    /\ UNCHANGED schedVars
    /\ UNCHANGED <<seed, nevents, evts, batch>>

-----------------------------------------------------------------------------
PollInit ==
    /\ Init
    /\ seed = [p \in Procs |-> 0]
    /\ nevents = [p \in Procs |-> 0]
    /\ evts = [p \in Procs |-> NoEvents]
    /\ batch = [p \in Procs |-> NoBatch]
    /\ ready = {}

PollNext(p) ==
    \/ PollKilled(p) \/ PollRewound(p) \/ PollError(p) \/ PollNow(p)
    \/ PollBlock(p) \/ PollReadyInWindow(p) \/ PollTimeoutInWindow(p)
    \/ PollWakeReady(p) \/ PollWakeTimeout(p) \/ PollWakeSignal(p)

PollSpecNext ==
    \/ SchedNext /\ UNCHANGED pollVars
    \/ \E p \in Procs : PollNext(p)
    \/ \E fd \in OpenFds : FdReady(fd)
    \/ AllEnded /\ UNCHANGED vars

(* As in ThreadSleep: the runners' and the syscall's steps are weakly     *)
(* fair, the clock advances; fds becoming ready and signals are the        *)
(* environment's choice.                                                   *)
PollFairness ==
    /\ WF_vars(Tick /\ UNCHANGED pollVars)
    /\ \A p \in Procs :
          /\ WF_vars((Launch(p) \/ GuestEnd(p) \/ BlockKilled(p) \/ Unwind(p))
                     /\ UNCHANGED pollVars)
          /\ WF_vars(PollNext(p))

PollSpec == PollInit /\ [][PollSpecNext]_vars /\ PollFairness

-----------------------------------------------------------------------------
PollTypeOK ==
    /\ SchedTypeOK
    /\ seed \in [Procs -> 0..2 * MaxCalls]
    /\ nevents \in [Procs -> 0..MaxSubs]
    /\ evts \in [Procs -> Seq(Event)]
    /\ batch \in [Procs -> [subs : Seq(SubRecords), guards : Seq(Guard),
                             clocks : Seq(SubRecords), start : 0..MaxTime]]
    /\ ready \subseteq OpenFds

(* Capability enforcement: the batch a poll waits on never holds a guard   *)
(* for an fd other than stdout and stderr that lacks POLL_FD_READWRITE,    *)
(* stdin included (the first loop lets stdio through unchecked, so only    *)
(* the guard loop refuses it), whatever the order the seed rotation puts   *)
(* the subscriptions in.                                                   *)
PollGuardsHaveRights ==
    \A p \in Procs : \A i \in DOMAIN batch[p].guards :
        batch[p].guards[i].fd \in {1, 2} \union PollRights

(* nevents: once poll_oneoff has returned to the guest, nevents holds the  *)
(* number of events the call wrote to the out buffer, also when the call   *)
(* went through a deep sleep and was replayed.                             *)
NeventsMatchEvents ==
    \A p \in Procs :
        (status[p] = "running" /\ syscall[p] = "none")
           => nevents[p] = Len(evts[p])

(* Clock events: a poll reports a clock subscription as triggered only     *)
(* once that subscription's own timeout has elapsed since the call.        *)
ClockEventsExpired ==
    [][\A p \in Procs :
          evts'[p] /= evts[p] =>
             \A i \in DOMAIN evts'[p] :
                evts'[p][i].type = "Clock" =>
                   \E j \in DOMAIN batch'[p].clocks :
                      /\ batch'[p].clocks[j].userdata = evts'[p][i].userdata
                      /\ now >= batch'[p].start + batch'[p].clocks[j].timeout]_vars

(* A poll that waits on a ready fd or with a finite timeout returns, or    *)
(* its process ends: neither the blocking window nor the deep sleep loses  *)
(* the wake-up.                                                            *)
PollReturns ==
    \A p \in Procs :
        (syscall[p] = "poll" /\ (ReadyEvents(p) /= NoEvents \/ deadline[p] < Infinity))
           ~> syscall[p] /= "poll"

(* Non-blocking poll (spec, and the comment at poll_oneoff.rs:222-223): a *)
(* poll whose clock subscriptions all have timeout 0 is an immediate check *)
(* and returns, or its process ends.                                       *)
ZeroTimeoutReturns ==
    \A p \in Procs :
        LET cl == {i \in DOMAIN batch[p].subs : batch[p].subs[i].type = "Clock"}
        IN  (/\ syscall[p] = "poll"
             /\ cl /= {}
             /\ \A i \in cl : batch[p].subs[i].timeout = 0)
               ~> syscall[p] /= "poll"
=============================================================================
