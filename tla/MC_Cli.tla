------------------------------- MODULE MC_Cli -------------------------------
(***************************************************************************)
(* Every command, and all the sets of matches a regex can have in texts of *)
(* up to three characters.                                                 *)
(***************************************************************************)
EXTENDS Cli

MCLengths == 0 .. 3
=============================================================================
