---------------------------- MODULE MCScheduler ----------------------------
(* Scheduler for TLC.                                                      *)
EXTENDS Scheduler, TLC

\* Bound threads are interchangeable.
ThreadSymmetry == Permutations(Threads)
=============================================================================
