------------------------------- MODULE CharSet -------------------------------
(***************************************************************************)
(* src/charset.c: sets of characters as arrays of bytes with a flag that   *)
(* negates them.  A byte is the set of its bits that are 1.                *)
(*                                                                         *)
(* A call is one step, but for the two that loop over characters, whose    *)
(* turns are steps.  Reading a set while a loop changes it is not a call   *)
(* the program makes; a set added to itself is allowed.                    *)
(***************************************************************************)
EXTENDS Integers

CONSTANTS
    Sets,                    \* the sets a client has
    CREGEX_CHARSET_SIZE,     \* 32 in the code
    Arguments                \* the characters a client gives as arguments

UCHAR_MAX == 8 * CREGEX_CHARSET_SIZE - 1
Characters == 0 .. UCHAR_MAX

ASSUME CharSetAssumption ==
    CREGEX_CHARSET_SIZE \in Nat \ {0} /\ Arguments \subseteq Characters

VARIABLES
    bits, negations,         \* the CharSet of each set
    turn,                    \* "idle", or the loop that is going on:
    destination, source,     \*   the sets it works on,
    value, end               \*   where it is and where it ends

loop == <<destination, source, value, end>>
set_vars == <<bits, negations, turn, loop>>

\* charset_byte_index and charset_bit_index
ByteIndex(character) == character \div 8
BitIndex(character) == character % 8

HasBit(s, character) == BitIndex(character) \in bits[s][ByteIndex(character)]

charset_contains(s, character) ==
    IF negations[s] THEN ~HasBit(s, character) ELSE HasBit(s, character)

Cleared == [byte \in 0 .. CREGEX_CHARSET_SIZE - 1 |-> {}]

\* A client clears a set before it uses it.
SetInit == /\ bits = [s \in Sets |-> Cleared]
           /\ negations = [s \in Sets |-> FALSE]
           /\ turn = "idle"
           /\ destination \in Sets /\ source = destination
           /\ value = 0 /\ end = 0

charset_clear(s) == /\ turn = "idle"
                    /\ bits' = [bits EXCEPT ![s] = Cleared]
                    /\ negations' = [negations EXCEPT ![s] = FALSE]
                    /\ UNCHANGED <<turn, loop>>

\* Mutant: the other bits of the byte are lost.
AddCharOverwriting(s, character) ==
    bits' = [bits EXCEPT ![s][ByteIndex(character)] = {BitIndex(character)}]

AddChar(s, character) ==
    bits' = [bits EXCEPT ![s][ByteIndex(character)] =
                @ \cup {BitIndex(character)}]

charset_add_char(s, character) == /\ turn = "idle"
                                  /\ AddChar(s, character)
                                  /\ UNCHANGED <<negations, turn, loop>>

charset_set_negated(s, flag) == /\ turn = "idle"
                                /\ negations' = [negations EXCEPT ![s] = flag]
                                /\ UNCHANGED <<bits, turn, loop>>

Begin(label, d, s, first, last) ==
    /\ turn = "idle"
    /\ turn' = label
    /\ destination' = d /\ source' = s
    /\ value' = first /\ end' = last
    /\ UNCHANGED <<bits, negations>>

charset_add_range(s, first, last) ==
    first <= last /\ Begin("range", s, s, first, last)

charset_add_set(d, s) == Begin("set", d, s, 0, UCHAR_MAX)

\* Mutant: value is an unsigned char.
NarrowSuccessor == (value + 1) % (UCHAR_MAX + 1)

\* value is an unsigned int, which does not wrap here.
Successor == value + 1

AddNext ==
    /\ turn # "idle" /\ value <= end
    /\ IF turn = "range" \/ charset_contains(source, value)
       THEN AddChar(destination, value) ELSE UNCHANGED bits
    /\ value' = Successor
    /\ UNCHANGED <<negations, turn, destination, source, end>>

\* The variables of the loop are gone with the call.
EndLoop == /\ turn # "idle" /\ value > end
           /\ turn' = "idle"
           /\ value' = 0 /\ end' = 0
           /\ UNCHANGED <<bits, negations, destination, source>>

Call == \E s \in Sets :
           \/ charset_clear(s)
           \/ \E c \in Arguments : charset_add_char(s, c)
           \/ \E first, last \in Arguments : charset_add_range(s, first, last)
           \/ \E t \in Sets : charset_add_set(s, t)
           \/ \E flag \in BOOLEAN : charset_set_negated(s, flag)

SetNext == Call \/ AddNext \/ EndLoop

SetSpec == SetInit /\ [][SetNext]_set_vars /\ WF_set_vars(AddNext \/ EndLoop)
-----------------------------------------------------------------------------
(* Properties.                                                             *)

\* The variables have their types: the bytes are never written outside of
\* the array.
SetTypeOK ==
    /\ bits \in [Sets -> [0 .. CREGEX_CHARSET_SIZE - 1 -> SUBSET (0 .. 7)]]
    /\ negations \in [Sets -> BOOLEAN]
    /\ turn \in {"idle", "range", "set"}
    /\ destination \in Sets /\ source \in Sets
    /\ value \in 0 .. UCHAR_MAX + 1
    /\ end \in Characters

\* What the loop still has to add.
Remaining == {c \in Characters :
                 /\ turn # "idle" /\ value <= c /\ c <= end
                 /\ turn = "set" => charset_contains(source, c)}

\* The characters a set contains, a loop counted as done when it begins.
Contents(s) ==
    LET now == {c \in Characters : charset_contains(s, c)}
    IN IF s # destination THEN now
       ELSE IF negations[s] THEN now \ Remaining ELSE now \cup Remaining

\* A set answers as the set of characters it stands for: no bit is shared by
\* two characters, a range has both of its ends, up to the last character of
\* all (charset.c:74), and adding a set adds what that contained at the call,
\* negated or not, and be it the same set (charset.c:102).
Abstract == INSTANCE CharSetSpec WITH
    contents   <- [s \in Sets |-> Contents(s)],
    complement <- {s \in Sets : negations[s]}

ImplementsCharSetSpec == Abstract!Spec

\* The loops come to an end, also at the last character (charset.c:76, 102).
LoopsEnd == turn # "idle" ~> turn = "idle"
=============================================================================
