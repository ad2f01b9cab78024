------------------------- MODULE MC_TelegramSession -------------------------
(***************************************************************************)
(* Values for the constants of TelegramSession: two folders with one name, *)
(* one of which holds a channel and a chat with a person.                  *)
(***************************************************************************)
EXTENDS TelegramSessionProps, TLC

CONSTANTS r1, r2, f1, f2, n1, c1, c2, p1

Symmetry == Permutations(Requests)

MCNameOf  == [f \in Folders |-> n1]
MCContent == (f1 :> {c1, p1}) @@ (f2 :> {c2})
=============================================================================
