------------------------------ MODULE MC_NfaVm ------------------------------
(* Small programs for NfaVm: every program of two states, and chosen       *)
(* programs of three.                                                      *)
EXTENDS NfaVmInvariant

MCChars == {"a", "b"}

TextsUpTo(n) == UNION {[1 .. k -> MCChars] : k \in 0 .. n}
Texts1 == TextsUpTo(1)
Texts2 == TextsUpTo(2)

MCSearchStarts == 0 .. 3

MCState(type, chars, out1, out2) ==
    [type |-> type, chars |-> chars, out1 |-> out1, out2 |-> out2]

\* Every state of a two-state program, up to the choice of characters.
TinyStates ==
    LET Outs == {0, 1, NFA_INVALID_STATE}
    IN  {MCState("MATCH", {}, NFA_INVALID_STATE, NFA_INVALID_STATE)} \cup
        {MCState("CHAR", {"a"}, o, NFA_INVALID_STATE) : o \in Outs} \cup
        {MCState("CLASS", {"b"}, o, NFA_INVALID_STATE) : o \in Outs} \cup
        {MCState("ANY", {}, o, NFA_INVALID_STATE) : o \in Outs} \cup
        {MCState(t, {}, o, NFA_INVALID_STATE) :
            t \in {"JUMP", "ASSERT_START", "ASSERT_END"}, o \in Outs} \cup
        {MCState("SPLIT", {}, o1, o2) : o1, o2 \in Outs}

NotRunnable ==
    {[count |-> 0, start |-> 0, states |-> <<>>],
     [count |-> 1, start |-> NFA_INVALID_STATE,
      states |-> [s \in {0} |-> MCState("MATCH", {}, -1, -1)]],
     [count |-> 1, start |-> 1,
      states |-> [s \in {0} |-> MCState("MATCH", {}, -1, -1)]]}

TinyPrograms ==
    {[count |-> 2, start |-> 0, states |-> f] : f \in [0 .. 1 -> TinyStates]}
    \cup NotRunnable
-----------------------------------------------------------------------------
OneChar(c, out) == MCState("CHAR", {c}, out, NFA_INVALID_STATE)
AnyChar(out)     == MCState("ANY", {}, out, NFA_INVALID_STATE)
Split(o1, o2) == MCState("SPLIT", {}, o1, o2)
Empty(type, out) == MCState(type, {}, out, NFA_INVALID_STATE)
Accept == MCState("MATCH", {}, NFA_INVALID_STATE, NFA_INVALID_STATE)

MCProgram(start, states) ==
    [count  |-> Len(states),
     start  |-> start,
     states |-> [s \in 0 .. Len(states) - 1 |-> states[s + 1]]]

\* Laid out as the compiler does, and a few that no pattern compiles to.
ChosenPrograms ==
    {MCProgram(1, <<OneChar("a", 1), Split(0, 2), Accept>>),            \* a*
     MCProgram(0, <<OneChar("a", 1), Split(0, 2), Accept>>),            \* a+
     MCProgram(1, <<AnyChar(2), Split(0, 2), Accept>>),                  \* .?
     MCProgram(0, <<OneChar("a", 1), OneChar("b", 2), Accept>>),           \* ab
     MCProgram(0, <<Empty("ASSERT_START", 1), OneChar("a", 2), Accept>>),
     MCProgram(0, <<OneChar("b", 1), Empty("ASSERT_END", 2), Accept>>),
     MCProgram(0, <<OneChar("a", 1), Empty("ASSERT_START", 2), Accept>>),
     MCProgram(1, <<Empty("JUMP", 1), Split(0, 2), Accept>>),        \* ()*
     MCProgram(0, <<Split(1, 2), Split(2, 0), Accept>>),             \* a cycle
     MCProgram(0, <<AnyChar(1), Split(0, 1), Accept>>),                  \* no exit
     MCProgram(0, <<Split(1, 2), OneChar("b", 3), Accept>>),            \* broken
     MCProgram(0, <<OneChar("b", 1), Split(2, -1), Accept>>)}           \* broken

\* Reached, which CompilerMeaning evaluates, computes the set Reachable states.
ASSUME ReachedIsReachable ==
    \A p \in {p \in ChosenPrograms : p.start \in States(p)}, t \in Texts2 :
        \A from \in 0 .. Len(t) : Reached(p, t, from) = Reachable(p, t, from)
=============================================================================
