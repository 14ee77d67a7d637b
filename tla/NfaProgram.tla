------------------------------ MODULE NfaProgram ------------------------------
(***************************************************************************)
(* The compiled program of include/cregex/nfa.h and what it means.         *)
(*                                                                         *)
(* A program is an array of states with one or two outgoing transitions.   *)
(* The second half of the module is the reference semantics: a             *)
(* configuration <<s, q>> is state s with q characters of the text         *)
(* consumed, and the configurations a run can be in are the least set that *)
(* holds the entry and is closed under the transitions.  It is stated      *)
(* without any algorithm, so that the simulation in NfaVm can be compared  *)
(* with it.                                                                *)
(***************************************************************************)
EXTENDS Characters, Integers, Sequences, FiniteSets

\* (size_t) -1: no array index.
NFA_INVALID_STATE == -1

\* The state types a state list holds; the others are followed at once.
Listed == {"CHAR", "ANY", "CLASS", "MATCH"}

NfaStateType == Listed \cup {"SPLIT", "JUMP", "ASSERT_START", "ASSERT_END"}

\* `chars` is the character of a CHAR state or the members of a CLASS state.
NfaState == [type  : NfaStateType,
             chars : SUBSET Chars,
             out1  : Nat \cup {NFA_INVALID_STATE},
             out2  : Nat \cup {NFA_INVALID_STATE}]

States(p) == 0 .. (p.count - 1)

IsProgram(p) == /\ p.count \in Nat
                /\ p.start \in Nat \cup {NFA_INVALID_STATE}
                /\ p.states \in [States(p) -> NfaState]

Type(p, s) == p.states[s].type
-----------------------------------------------------------------------------
(* Reference semantics of program p on text t.                             *)

\* The states entered from s without consuming a character at offset q.
EpsilonMoves(p, t, s, q) ==
    IF \/ Type(p, s) \in {"SPLIT", "JUMP"}
       \/ Type(p, s) = "ASSERT_START" /\ q = 0
       \/ Type(p, s) = "ASSERT_END" /\ q = Len(t)
    THEN {p.states[s].out1} \cup
         (IF Type(p, s) = "SPLIT" THEN {p.states[s].out2} ELSE {})
    ELSE {}

Consumes(p, t, s, q) ==
    /\ q < Len(t)
    /\ \/ Type(p, s) = "ANY"
       \/ Type(p, s) \in {"CHAR", "CLASS"} /\ t[q + 1] \in p.states[s].chars

Moves(p, t, s, q) ==
    {<<d, q>> : d \in EpsilonMoves(p, t, s, q)} \cup
    (IF Consumes(p, t, s, q) THEN {<<p.states[s].out1, q + 1>>} ELSE {})

\* No transition goes back in the text.
Configurations(p, t, from) == States(p) \X (from .. Len(t))

\* C holds the entry at offset `from` and every configuration it leads to.
IsClosed(p, t, from, C) ==
    /\ <<p.start, from>> \in C
    /\ \A c \in C :
          Moves(p, t, c[1], c[2]) \cap Configurations(p, t, from) \subseteq C

Reachable(p, t, from) ==
    {c \in Configurations(p, t, from) :
        \A C \in SUBSET Configurations(p, t, from) :
            IsClosed(p, t, from, C) => c \in C}

\* A transition out of the program lies on the way of a run from `from`.
IsBroken(p, t, from) ==
    \E c \in Reachable(p, t, from) :
        ~(Moves(p, t, c[1], c[2]) \subseteq Configurations(p, t, from))

\* The offsets at which a match that starts at `from` can end.
MatchEnds(p, t, from) ==
    {q \in from .. Len(t) :
        \E s \in States(p) : /\ Type(p, s) = "MATCH"
                             /\ <<s, q>> \in Reachable(p, t, from)}
-----------------------------------------------------------------------------
(* The same set of configurations, computed: as many steps as there are    *)
(* configurations reach whatever can be reached.                           *)
Reached(p, t, from) ==
    LET all == Configurations(p, t, from)
        steps[n \in 0 .. Cardinality(all)] ==
            IF n = 0 THEN {<<p.start, from>>} \cap all
            ELSE LET before == steps[n - 1]
                 IN  before \cup (all \cap UNION {Moves(p, t, c[1], c[2]) :
                                                      c \in before})
    IN  steps[Cardinality(all)]

ReachedEnds(p, t, from) ==
    {c[2] : c \in {c \in Reached(p, t, from) : Type(p, c[1]) = "MATCH"}}
=============================================================================
