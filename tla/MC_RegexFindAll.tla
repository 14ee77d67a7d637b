--------------------------- MODULE MC_RegexFindAll ---------------------------
(***************************************************************************)
(* All the sets of matches a regex can have in texts of up to three        *)
(* characters, with a list that holds one match, then two, then the four   *)
(* there can be, or, with the smaller size limit, no more than two.        *)
(***************************************************************************)
EXTENDS RegexFindAll

MCLengths == 0 .. 3
=============================================================================
