---------------------------- MODULE MC_Scheduler ----------------------------
(***************************************************************************)
(* Values for the constants of Scheduler.                                  *)
(***************************************************************************)
EXTENDS SchedulerProps, TLC

CONSTANTS w1, w2, s1, s2

Symmetry == Permutations(Workers) \cup Permutations(Schedules)
=============================================================================
