---------------------------- MODULE MCRAIDStorage ---------------------------
(* Instances of RAIDStorage for TLC.                                       *)
EXTENDS RAIDStorage, TLC

ThreadSymmetry == Permutations(Threads)
=============================================================================
