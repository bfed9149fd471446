--------------------------- MODULE MCTimerManager ---------------------------
(* TimerManager for TLC.  The driver is not like the other threads: only   *)
(* the others and the names may be permuted, in runs without liveness.     *)
EXTENDS TimerManager, TLC

MCSymmetry == Permutations(Names) \cup Permutations(Threads \ {Driver})
=============================================================================
