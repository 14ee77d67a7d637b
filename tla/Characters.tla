----------------------------- MODULE Characters -----------------------------
(***************************************************************************)
(* The characters of patterns and texts: the 256 values of unsigned char   *)
(* in the code, as few as the question needs in a run.                     *)
(***************************************************************************)
CONSTANT Chars
=============================================================================
