---------------------------- MODULE MCTimerQueue ----------------------------
(***************************************************************************)
(* The instance of the timers for TLC: three timers, with a delay that is  *)
(* rejected, a zero delay (expired on insertion), ties, a repeating timer  *)
(* that catches up, and timers without a callback.                         *)
(***************************************************************************)
EXTENDS TimerRefinement

MCDelays == {-1, 0, 2}
MCIntervals == {0, 1}
MCStartTimes == {2}
=============================================================================
