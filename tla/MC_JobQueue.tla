---------------------------- MODULE MC_JobQueue ----------------------------
(***************************************************************************)
(* Values for the constants of JobQueue.                                   *)
(***************************************************************************)
EXTENDS JobQueueProps, TLC

CONSTANTS w1, w2, k1

Symmetry == Permutations(Workers)
=============================================================================
