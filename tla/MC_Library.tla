----------------------------- MODULE MC_Library -----------------------------
(***************************************************************************)
(* Values for the constants of Library.                                    *)
(***************************************************************************)
EXTENDS LibraryProps, TLC

CONSTANTS r1, r2, t1, g1, g2

Symmetry == Permutations(Requests) \cup Permutations(Tags)
=============================================================================
