-------------------------- MODULE MC_ScheduleTable --------------------------
(***************************************************************************)
(* Values for the constants of ScheduleTable.                              *)
(***************************************************************************)
EXTENDS ScheduleTableProps, TLC

CONSTANTS r1, r2, g1, c1, c2

Symmetry == Permutations(Requests)
=============================================================================
