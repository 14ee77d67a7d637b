----------------------------- MODULE MC_Lowering -----------------------------
(***************************************************************************)
(* Every pattern of up to four tokens of the kinds that nest and bind, and *)
(* longer ones for the precedence of the operators.                        *)
(***************************************************************************)
EXTENDS LoweringMeaning

Syntax == INSTANCE PatternSyntax

MCChars == {"a", "b"}
MCTexts == UNION {[1 .. n -> MCChars] : n \in 0 .. 3}

T(kind, chars) == [terminal |-> kind, chars |-> chars]

a == T("LITERAL", {"a"})
b == T("LITERAL", {"b"})
Dot == T("DOT", {})
Set == T("CLASS", {"a", "b"})
AtStart == T("CARET", {})
AtEnd == T("DOLLAR", {})
Open == T("LPAREN", {})
Close == T("RPAREN", {})
Or == T("PIPE", {})
Star == T("STAR", {})
Plus == T("PLUS", {})
Opt == T("QUESTION", {})

Short == UNION {[1 .. n -> {a, b, Or, Star, Open, Close}] : n \in 0 .. 4}

Long == {
    <<a, b, Or, a, Star>>,                            \* ab|a*
    <<a, Open, b, Or, a, Close, Star, b>>,            \* a(b|a)*b
    <<a, Or, b, a, Or, b, b>>,                        \* a|ba|bb
    <<AtStart, Dot, Plus, Set, Opt, AtEnd>>,          \* ^.+[ab]?$
    <<Open, a, Opt, b, Close, Plus, a>>,              \* (a?b)+a
    <<Open, Open, a, Or, b, Close, Star, a, Close, Opt>>,  \* ((a|b)*a)?
    <<a, b, a, Open, b, Or, AtEnd, Close>>,           \* aba(b|$)
    <<a, Plus, Or, Set, Opt, Dot>>                    \* a+|[ab]?.
    }

Ended(w) == Append(w, T("END", {}))

\* Parser has been given what is not a pattern.
MCInputs == {w \in {Ended(v) : v \in Short \cup Long} : Syntax!IsPattern(w)}
            \cup {<<T("ERROR", {})>>}
=============================================================================
