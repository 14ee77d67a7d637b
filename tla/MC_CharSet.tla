----------------------------- MODULE MC_CharSet -----------------------------
(***************************************************************************)
(* Two sets of two bytes, and ranges to the last character and over the    *)
(* border of the bytes, for any number of calls.                           *)
(***************************************************************************)
EXTENDS CharSet

MCArguments == {7, 15}
=============================================================================
