----------------------------- MODULE MC_Scanner -----------------------------
(***************************************************************************)
(* Every pattern of up to four of the characters that mean something in a  *)
(* class and of one that does not, every class of one more with fewer of   *)
(* them, and every pair of the characters and escapes outside of a class.  *)
(***************************************************************************)
EXTENDS Scanner

\* - [ \ ] ^ a d
ClassChars == {45, 91, 92, 93, 94, 97, 100}

\* $ ( ) * + , . ? { | } and _ 0 n r s t w
OtherChars == {36, 40, 41, 42, 43, 44, 46, 63, 123, 124, 125,
               95, 48, 110, 114, 115, 116, 119}

MCChars == ClassChars \cup OtherChars \cup {9, 10, 13, 32}

Upto(n, chars) == UNION {[1 .. k -> chars] : k \in 0 .. n}

MCPatterns ==
    Upto(4, ClassChars)
    \cup {<<91>> \o w : w \in [1 .. 5 -> {45, 92, 93, 97}]}
    \cup Upto(2, MCChars)
    \cup {<<92>> \o w : w \in [1 .. 2 -> MCChars]}
    \cup {<<91, 92, c, 93>> : c \in MCChars}

\* The patterns of tests/test_repetition.c:209-236.
CountPatterns == {<<97, 123, 51, 125>>,
                  <<40, 97, 98, 41, 123, 50, 44, 52, 125>>,
                  <<91, 48, 45, 57, 93, 123, 50, 44, 125>>,
                  <<97, 123, 48, 125>>}

\* ( ) , - [ ] { } a b and the digits
CountChars == {40, 41, 44, 45, 91, 93, 97, 98, 123, 125} \cup 48 .. 57
=============================================================================
