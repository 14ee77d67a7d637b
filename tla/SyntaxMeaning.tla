---------------------------- MODULE SyntaxMeaning ----------------------------
(***************************************************************************)
(* What a pattern means, by its tokens alone: | binds less than being next *)
(* to each other, which binds less than a quantifier.                      *)
(***************************************************************************)
EXTENDS PatternMeaning, PatternSyntax

\* The groups that are open between tokens i and k are closed there.
IsTop(w, i, k) == Depth(w, k) = Depth(w, i - 1)

\* One operand with its quantifier, if it has any, begins at i and ends at k.
IsOperand(w, i, k) ==
    /\ IsTop(w, i, k)
    /\ \A l \in i .. k - 1 : IsTop(w, i, l) => /\ l = k - 1
                                               /\ Kind(w, k) \in Repeaters

\* One token.
Atom(token, t) ==
    LET length == Len(t)
    IN CASE token.terminal \in {"LITERAL", "CLASS"} ->
                {<<i, i + 1>> : i \in {i \in 0 .. length - 1 :
                                          t[i + 1] \in token.chars}}
         [] token.terminal = "DOT" -> {<<i, i + 1>> : i \in 0 .. length - 1}
         [] token.terminal = "CARET" -> {<<0, 0>>}
         [] token.terminal = "DOLLAR" -> {<<length, length>>}
         [] OTHER -> {}

\* The bars of tokens i to j that are in none of their groups.
Bars(w, i, j) == {k \in i .. j : Kind(w, k) = "PIPE" /\ IsTop(w, i, k)}

\* Where the first operand of tokens i to j ends, if others follow it.
FirstEnds(w, i, j) == {k \in i .. j - 1 : /\ IsOperand(w, i, k)
                                          /\ Kind(w, k + 1) \notin Repeaters}

\* The spans of t that tokens i to j of the pattern w match, when shorter
\* parts of w match `spans`.
PartSpans(spans, w, t, i, j) ==
    LET bars == Bars(w, i, j)
        ends == FirstEnds(w, i, j)
        length == Len(t)
    IN IF i > j THEN {}
       ELSE IF bars # {}
       THEN LET k == CHOOSE k \in bars : \A l \in bars : k <= l
            IN  spans[<<i, k - 1>>] \cup spans[<<k + 1, j>>]
       ELSE IF ends # {}
       THEN LET k == CHOOSE k \in ends : TRUE
            IN  Then(spans[<<i, k>>], spans[<<k + 1, j>>])
       ELSE CASE Kind(w, j) = "STAR" ->
                     Powers(spans[<<i, j - 1>>], 0, UNBOUNDED, length)
              [] Kind(w, j) = "PLUS" ->
                     Powers(spans[<<i, j - 1>>], 1, UNBOUNDED, length)
              [] Kind(w, j) = "QUESTION" ->
                     Powers(spans[<<i, j - 1>>], 0, 1, length)
              [] Kind(w, j) = "RPAREN" -> spans[<<i + 1, j - 1>>]
              [] OTHER -> Atom(w[i], t)

\* The spans of t that the pattern w matches.
TokenSpans(w, t) ==
    LET spans[p \in (1 .. Len(w) + 1) \X (0 .. Len(w))] ==
            PartSpans(spans, w, t, p[1], p[2])
    IN  IF Len(w) = 1 THEN Identity(Len(t)) ELSE spans[<<1, Len(w) - 1>>]
=============================================================================
