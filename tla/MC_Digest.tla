------------------------------ MODULE MC_Digest ------------------------------
(***************************************************************************)
(* Values for the constants of Digest.                                     *)
(***************************************************************************)
EXTENDS DigestProps, TLC

CONSTANTS c1, c2, r1, r2

Symmetry == Permutations(Runs)
=============================================================================
