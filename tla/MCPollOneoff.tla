--------------------------- MODULE MCPollOneoff ----------------------------
(* One exec'd process polling an fd table with stdio (stdin without the  *)
(* poll right), a pollable fd 3 that carries the poll right and an fd 4   *)
(* that does not, with clock subscriptions on both sentinels, a real      *)
(* timeout and an unsupported clock, so that every check of               *)
(* poll_oneoff_internal's two loops is reached.                           *)
EXTENDS PollOneoff, TLC

CONSTANTS p1

MCProcs == {p1}

Sub(ty, fd, ck, t, ud) ==
    [type |-> ty, fd |-> fd, clock |-> ck, timeout |-> t, userdata |-> ud]

ReadStdin == Sub("FdRead", 0, "Realtime", 0, 9)
ReadFd3   == Sub("FdRead", 3, "Realtime", 0, 1)
ReadFd4   == Sub("FdRead", 4, "Realtime", 0, 2)
WriteOut  == Sub("FdWrite", 1, "Realtime", 0, 3)
Clock2    == Sub("Clock", 0, "Realtime", 2, 4)
Clock3    == Sub("Clock", 0, "Monotonic", 3, 5)
ClockNow  == Sub("Clock", 0, "Monotonic", 1, 6)
ClockZero == Sub("Clock", 0, "Realtime", 0, 7)
ClockCpu  == Sub("Clock", 0, "ProcessCputime", 2, 8)

MCSubs == {ReadStdin, ReadFd3, ReadFd4, WriteOut, Clock2, ClockNow, ClockZero,
           ClockCpu}

(* For the liveness run: an fd that may become ready and a real timeout,  *)
(* alone or together.                                                     *)
MCLiveSubs == {ReadFd3, Clock2}

(* For the clock-event run: two real timeouts.                            *)
MCClockSubs == {Clock2, Clock3}

(* For the zero-timeout run: only the timeout-0 clock.                     *)
MCZeroSubs == {ClockZero}
=============================================================================
