------------------------------ MODULE MCStartup ------------------------------
(* Model values and bounds for TLC.                                        *)
EXTENDS Startup, TLC

CONSTANTS t1, t2

\* Two threads of launchStartupTask overlap, and do not differ.
TwoThreads == {t1, t2}
ThreadSymmetry == Permutations(TwoThreads)
=============================================================================
