---------------------------- MODULE PatternMeaning ----------------------------
(***************************************************************************)
(* What a pattern means: the spans <<i, j>> of a text that it matches, by  *)
(* the structure of its tree alone.  This is the reference the compiled    *)
(* program is compared with.                                               *)
(***************************************************************************)
EXTENDS Ast

Identity(length) == {<<i, i>> : i \in 0 .. length}

Then(R, S) == {<<p[1][1], p[2][2]>> : p \in {p \in R \X S : p[1][2] = p[2][1]}}

\* R taken k times.
Power(R, k, length) ==
    LET power[n \in 0 .. k] ==
            IF n = 0 THEN Identity(length) ELSE Then(power[n - 1], R)
    IN  power[k]

\* A chain of spans longer than the text repeats an offset.
Closure(R, length) == UNION {Power(R, k, length) : k \in 0 .. length + 1}

Powers(R, minimum, maximum, length) ==
    IF maximum = UNBOUNDED
    THEN Then(Power(R, minimum, length), Closure(R, length))
    ELSE UNION {Power(R, k, length) : k \in minimum .. maximum}

Spans(ast, t) ==
    LET length == Len(t)
        spans[n \in 1 .. Len(ast)] ==
            LET node == ast[n]
            IN CASE node.type = "EMPTY" -> Identity(length)
                 [] node.type \in {"LITERAL", "CHARACTER_CLASS"} ->
                        {<<i, i + 1>> : i \in {i \in 0 .. length - 1 :
                                                  t[i + 1] \in node.chars}}
                 [] node.type = "DOT" -> {<<i, i + 1>> : i \in 0 .. length - 1}
                 [] node.type = "ASSERT_START" -> {<<0, 0>>}
                 [] node.type = "ASSERT_END" -> {<<length, length>>}
                 [] node.type = "CONCATENATION" ->
                        Then(spans[node.left], spans[node.right])
                 [] node.type = "ALTERNATION" ->
                        spans[node.left] \cup spans[node.right]
                 [] node.type = "STAR" ->
                        Powers(spans[node.left], 0, UNBOUNDED, length)
                 [] node.type = "PLUS" ->
                        Powers(spans[node.left], 1, UNBOUNDED, length)
                 [] node.type = "OPTIONAL" ->
                        Powers(spans[node.left], 0, 1, length)
                 [] OTHER ->
                        Powers(spans[node.left], node.minimum, node.maximum,
                               length)
    IN  spans[Len(ast)]
=============================================================================
