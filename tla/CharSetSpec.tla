----------------------------- MODULE CharSetSpec -----------------------------
(***************************************************************************)
(* What charset.h promises of its sets: which characters they contain.     *)
(* Every call is one step.                                                 *)
(***************************************************************************)
EXTENDS Integers

CONSTANTS Sets,              \* the sets a client has
          Characters,
          Arguments          \* those a client asks to add

VARIABLES contents,          \* the characters each of them contains
          complement         \* those that are negated

vars == <<contents, complement>>

Init == /\ contents = [s \in Sets |-> {}]
        /\ complement = {}

\* A negated set loses what is added to it.
Added(s, characters) == IF s \in complement THEN contents[s] \ characters
                        ELSE contents[s] \cup characters

Put(s, characters) == contents' = [contents EXCEPT ![s] = characters]

Clear(s) == Put(s, {}) /\ complement' = complement \ {s}

Add(s) == /\ \/ \E first, last \in Arguments :
                   Put(s, Added(s, (first .. last) \cap Characters))
             \/ \E t \in Sets : Put(s, Added(s, contents[t]))
          /\ UNCHANGED complement

Negate(s) == /\ Put(s, Characters \ contents[s])
             /\ complement' = IF s \in complement THEN complement \ {s}
                              ELSE complement \cup {s}

Next == \E s \in Sets : Clear(s) \/ Add(s) \/ Negate(s)

Spec == Init /\ [][Next]_vars
=============================================================================
