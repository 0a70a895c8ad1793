---------------------------- MODULE MCProcFork -----------------------------
(* One exec'd process and two free pids, so that a parent can fork twice   *)
(* or a child can fork again; a captured stack whose active part is        *)
(* [14, 24) inside [8, 24), with offsets over the whole 5-bit range so     *)
(* that the wrapping additions are reached.                                *)
EXTENDS ProcFork, TLC

CONSTANTS p1, p2, p3

MCProcs == {p1, p2, p3}

MCInitial == {p1}

MCPidOffsets == 0..(2^Width - 1)

(* For the liveness runs, one offset of each kind that can be written:    *)
(* below the active stack, inside it, and where pid_offset + 4 wraps.      *)
MCLiveOffsets == {9, 16, 28}

(* The same, with an offset whose write faults.                            *)
MCLostOffsets == MCLiveOffsets \cup {30}
=============================================================================
