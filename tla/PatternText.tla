----------------------------- MODULE PatternText -----------------------------
(***************************************************************************)
(* What the characters of a pattern say, with no lexer and no mode: by     *)
(* which backslashes and brackets stand before them.  This is the          *)
(* reference the scanner is compared with.  Positions count from 0.        *)
(***************************************************************************)
EXTENDS Characters, Integers, Sequences

At(p, k) == p[k + 1]
Positions(p) == 0 .. Len(p) - 1
Complete == <<>>                      \* nothing is wrong

\* The backslashes right before k are odd in number.
IsEscaped(p, k) ==
    \E n \in 1 .. k : /\ n % 2 = 1
                      /\ \A i \in k - n .. k - 1 : At(p, i) = 92
                      /\ n = k \/ At(p, k - n - 1) # 92

IsPlain(p, k, c) == /\ k \in Positions(p) /\ At(p, k) = c
                    /\ ~IsEscaped(p, k)

\* The elements of a pattern are single characters and escapes.
IsEscape(p, k) == IsPlain(p, k, 92)
IsIncomplete(p, k) == IsEscape(p, k) /\ k = Len(p) - 1
IsShorthand(p, k) == /\ IsEscape(p, k) /\ ~IsIncomplete(p, k)
                     /\ At(p, k + 1) \in {100, 115, 119}

\* Where the element behind the one at k starts.
After(p, k) == IF IsEscape(p, k) /\ ~IsIncomplete(p, k) THEN k + 2 ELSE k + 1

Denoted(p, k) ==
    Chars \cap
    IF ~IsEscape(p, k) THEN {At(p, k)} ELSE
    LET c == At(p, k + 1)
    IN CASE c = 100 -> 48 .. 57
         [] c = 115 -> (9 .. 13) \cup {32}
         [] c = 119 -> (48 .. 57) \cup (65 .. 90) \cup {95} \cup (97 .. 122)
         [] c = 110 -> {10}
         [] c = 114 -> {13}
         [] c = 116 -> {9}
         [] OTHER -> {c}

Character(p, k) == CHOOSE c \in Denoted(p, k) : TRUE
-----------------------------------------------------------------------------
(* The class opened at o.                                                  *)

Closings(p, o) == {k \in o + 1 .. Len(p) - 1 : IsPlain(p, k, 93)}
IsClosed(p, o) == Closings(p, o) # {}

\* An unclosed class goes on to the end.
Closing(p, o) ==
    IF IsClosed(p, o)
    THEN CHOOSE k \in Closings(p, o) : \A j \in Closings(p, o) : k <= j
    ELSE Len(p)

IsNegated(p, o) == IsPlain(p, o + 1, 94)
Body(p, o) == IF IsNegated(p, o) THEN o + 2 ELSE o + 1

\* Elements are taken in order: a character, a hyphen and an element are a
\* range.  A hyphen is a character where it cannot be that.
RangeEnd(p, k) == After(p, k) + 1
IsRange(p, k) == /\ ~IsShorthand(p, k)
                 /\ IsPlain(p, After(p, k), 45)
                 /\ ~IsPlain(p, RangeEnd(p, k), 93)

\* What the elements from k on match.
MembersFrom(p, o) ==
    LET from[k \in 1 .. Len(p) + 1] ==
            IF k >= Closing(p, o) THEN {}
            ELSE IF IsRange(p, k)
            THEN (Chars \cap
                    (Character(p, k) .. Character(p, RangeEnd(p, k))))
                 \cup from[After(p, RangeEnd(p, k))]
            ELSE Denoted(p, k) \cup from[After(p, k)]
    IN  from

Members(p, o) == LET listed == MembersFrom(p, o)[Body(p, o)]
                 IN  IF IsNegated(p, o) THEN Chars \ listed ELSE listed

IsLiteral(p, k) ==
    k # Len(p) /\ ~IsIncomplete(p, k) /\ ~IsShorthand(p, k)

\* What is wrong with the elements from k on.
ComplaintFrom(p, o) ==
    LET from[k \in 1 .. Len(p) + 1] ==
            IF k >= Closing(p, o)
            THEN IF IsClosed(p, o) THEN Complete
                 ELSE <<o, "missing closing bracket">>
            ELSE IF IsIncomplete(p, k)
            THEN <<k, "pattern ends with an incomplete escape">>
            ELSE IF ~IsRange(p, k) THEN from[After(p, k)]
            ELSE IF ~IsLiteral(p, RangeEnd(p, k))
            THEN <<RangeEnd(p, k),
                   "range endpoint must be a literal character">>
            ELSE IF Character(p, k) > Character(p, RangeEnd(p, k))
            THEN <<k, "character range is reversed">>
            ELSE from[After(p, RangeEnd(p, k))]
    IN  from

\* What is wrong with a class, and where.
ClassComplaint(p, o) ==
    IF IsClosed(p, o) /\ Closing(p, o) = Body(p, o)
    THEN <<o, "character class cannot be empty">>
    ELSE ComplaintFrom(p, o)[Body(p, o)]
-----------------------------------------------------------------------------
(* The token that starts at k, where no class is open.                     *)

Complaint(p, k) ==
    CASE IsPlain(p, k, 91) -> ClassComplaint(p, k)
      [] IsPlain(p, k, 93) -> <<k, "unexpected closing bracket">>
      [] IsPlain(p, k, 123) \/ IsPlain(p, k, 125) -> <<k, "unexpected token">>
      [] IsIncomplete(p, k) -> <<k, "pattern ends with an incomplete escape">>
      [] OTHER -> Complete

Operators == [DOLLAR |-> 36, LPAREN |-> 40, RPAREN |-> 41, STAR |-> 42,
              PLUS |-> 43, DOT |-> 46, QUESTION |-> 63, CARET |-> 94,
              PIPE |-> 124]

TokenAt(p, k) ==
    LET Is(name) == IsPlain(p, k, Operators[name])
        Token(terminal, chars, width) ==
            [terminal |-> terminal, chars |-> chars,
             from |-> k, to |-> k + width]
    IN CASE k = Len(p) -> Token("END", {}, 0)
         [] IsPlain(p, k, 91) ->
                Token("CLASS", Members(p, k), Closing(p, k) - k + 1)
         [] \E name \in DOMAIN Operators : Is(name) ->
                Token(CHOOSE name \in DOMAIN Operators : Is(name), {}, 1)
         [] OTHER -> Token(IF IsShorthand(p, k) THEN "CLASS" ELSE "LITERAL",
                           Denoted(p, k), IF IsEscape(p, k) THEN 2 ELSE 1)
=============================================================================
