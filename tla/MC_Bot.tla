------------------------------- MODULE MC_Bot -------------------------------
(***************************************************************************)
(* Values for the constants of Bot.                                        *)
(***************************************************************************)
EXTENDS BotProps, TLC

CONSTANTS g1
=============================================================================
