--------------------------- MODULE MCThreadSleep ---------------------------
(* Two exec'd processes that sleep with durations below, at and above the *)
(* poll interval, so that both the blocking return and the deep sleep      *)
(* happen, with signals arriving at any point.                             *)
EXTENDS ThreadSleep, TLC

CONSTANTS p1, p2

MCProcs == {p1, p2}
MCSymmetry == Permutations(MCProcs)
=============================================================================
