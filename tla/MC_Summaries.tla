---------------------------- MODULE MC_Summaries ----------------------------
(***************************************************************************)
(* Values for the constants of Summaries.                                  *)
(***************************************************************************)
EXTENDS SummariesProps

CONSTANTS c1, c2
=============================================================================
