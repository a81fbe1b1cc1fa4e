------------------------------ MODULE MCWorker ------------------------------
(* Worker for TLC.                                                         *)
EXTENDS Worker, TLC

\* Clients are interchangeable.
ClientSymmetry == Permutations(Clients)
=============================================================================
