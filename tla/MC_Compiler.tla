----------------------------- MODULE MC_Compiler -----------------------------
(***************************************************************************)
(* Small trees over seven leaves, and deeper ones that nest what loops and *)
(* what matches nothing.  The array of states holds two states, then four, *)
(* and so on.                                                              *)
(***************************************************************************)
EXTENDS CompilerMeaning

MCChars == {"a", "b"}

MCTexts == UNION {[1 .. n -> MCChars] : n \in 0 .. 3}

N(type, chars, left, right, minimum, maximum) ==
    [type |-> type, chars |-> chars, left |-> left, right |-> right,
     minimum |-> minimum, maximum |-> maximum]

Leaf(type) == N(type, {}, 0, 0, 0, 0)
Literal(c) == N("LITERAL", {c}, 0, 0, 0, 0)
Class(chars) == N("CHARACTER_CLASS", chars, 0, 0, 0, 0)
Unary(type, child) == N(type, {}, child, 0, 0, 0)
Binary(type, left, right) == N(type, {}, left, right, 0, 0)
Counted(child, minimum, maximum) ==
    N("REPEAT", {}, child, 0, minimum, maximum)

a == Literal("a")
b == Literal("b")
Dot == Leaf("DOT")
Empty == Leaf("EMPTY")
AtStart == Leaf("ASSERT_START")
AtEnd == Leaf("ASSERT_END")

Cat(left, right) == Binary("CONCATENATION", left, right)
Alt(left, right) == Binary("ALTERNATION", left, right)
Star(child) == Unary("STAR", child)
Plus(child) == Unary("PLUS", child)
Opt(child) == Unary("OPTIONAL", child)

Leaves == {a, Dot, Class({}), Class(MCChars), Empty, AtStart, AtEnd}

Bounds == {<<0, 0>>, <<0, 1>>, <<0, 2>>, <<1, 1>>, <<1, 2>>, <<2, 2>>,
           <<0, UNBOUNDED>>, <<1, UNBOUNDED>>, <<2, UNBOUNDED>>,
           <<3, UNBOUNDED>>, <<2, 1>>, <<0, 3>>}

Repeats(child) == {Counted(child, bound[1], bound[2]) : bound \in Bounds}

SmallAsts ==
    {<<x>> : x \in Leaves} \cup
    {<<x, f>> : x \in {a, Empty, AtEnd},
                f \in {Star(1), Plus(1), Opt(1)} \cup Repeats(1)} \cup
    {<<x, y, f>> : x \in {a, Empty, AtStart}, y \in {b, AtEnd},
                   f \in {Cat(1, 2), Alt(1, 2)}}

\* Two loops of two leaves, one after or beside the other, in a loop.
NestedAsts ==
    {<<x, f, y, g, h>> :
        x \in {a, Empty, AtEnd}, f \in {Star(1), Opt(1), Counted(1, 1, 2)},
        y \in {b, AtStart},
        g \in {Cat(2, 3), Cat(3, 2), Alt(2, 3)},
        h \in {Star(4), Plus(4), Opt(4), Counted(4, 2, 2),
              Counted(4, 1, UNBOUNDED)}}

DeepAsts == {
    <<>>,
    <<a, Star(1), Star(2)>>,                               \* (a*)*
    <<a, Star(1), Plus(2)>>,                               \* (a*)+
    <<a, Plus(1), Opt(2)>>,                                \* (a+)?
    <<a, b, Alt(1, 2), Star(3), b, Cat(4, 5)>>,            \* (a|b)*b
    <<AtStart, a, Cat(1, 2), AtEnd, Cat(3, 4)>>,           \* ^a$
    <<a, Opt(1), Counted(2, 2, UNBOUNDED)>>,               \* (a?){2,}
    <<a, Counted(1, 0, 2), Counted(2, 2, 2)>>,             \* (a{0,2}){2}
    <<a, Counted(1, 2, 2), Star(2)>>                       \* (a{2})*
    }

MCAsts == SmallAsts \cup NestedAsts \cup DeepAsts
=============================================================================
