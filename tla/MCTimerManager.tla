--------------------------- MODULE MCTimerManager ---------------------------
(* Two pieces of memory for timers.                                         *)
EXTENDS TimerManager, TLC

CONSTANTS t1, t2

MCTimers == {t1, t2}
Symmetry == Permutations(Timers)
=============================================================================
