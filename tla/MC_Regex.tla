------------------------------ MODULE MC_Regex ------------------------------
(***************************************************************************)
(* Two handles, two patterns and one string that is none, and two texts:   *)
(* a call can find nothing, an empty match at 0, or another one, and       *)
(* match a text as a whole or not.  malloc returns the lowest address that *)
(* is free, so that addresses are used again as soon as they can be.       *)
(***************************************************************************)
EXTENDS Regex, TLC

CONSTANTS p, q, bad, t, u

MCMeaning ==
    <<p, t>> :> [full |-> TRUE,  first |-> <<0, 1>>] @@
    <<p, u>> :> [full |-> FALSE, first |-> <<>>]     @@
    <<q, t>> :> [full |-> FALSE, first |-> <<0, 0>>] @@
    <<q, u>> :> [full |-> TRUE,  first |-> <<0, 0>>]

MCOffered(free) == {a \in free : \A b \in free : a <= b}

MCAddresses == 1 .. 6
=============================================================================
