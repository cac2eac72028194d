------------------------ MODULE MCMetricsCounters ------------------------
(* Small instances of MetricsCounters for TLC, on one pod: threads meet in   *)
(* the stores only, never in its memory.                                     *)
EXTENDS MetricsCounters, TLC
CONSTANTS p1, w1, c1, c2, f1

OnOnePod == [t \in Workers \cup Cleaners \cup FlushThreads |-> p1]
CleanersAlike == Permutations(Cleaners)
=============================================================================
