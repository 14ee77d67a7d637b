------------------------------ MODULE MC_Parser ------------------------------
(***************************************************************************)
(* Every sequence of up to two tokens of any kind, every one of up to four *)
(* of the kinds that need a stack, and longer patterns chosen so that the  *)
(* stack grows twice and is refused a third time.                          *)
(***************************************************************************)
EXTENDS Parser

Syntax == INSTANCE PatternSyntax

MCChars == {"a"}

Kinds == Terminals \ {"END"}
StackKinds == {"LITERAL", "LPAREN", "RPAREN", "PIPE", "STAR"}

Upto(n, kinds) == UNION {[1 .. k -> kinds] : k \in 0 .. n}

LongKinds == {
    <<"LPAREN", "LPAREN", "LPAREN", "CARET", "RPAREN", "PLUS", "RPAREN">>,
    <<"LPAREN", "LPAREN", "LPAREN", "DOT", "PIPE", "LITERAL", "RPAREN",
      "RPAREN", "STAR", "RPAREN", "QUESTION">>,
    <<"LITERAL", "LITERAL", "QUESTION", "PIPE", "CLASS", "PLUS", "DOLLAR">>}

T(kind) == [terminal |-> kind,
            chars    |-> IF kind \in {"LITERAL", "CLASS"} THEN MCChars ELSE {}]

Ended(kinds, last) == [i \in 1 .. Len(kinds) + 1 |->
                          IF i <= Len(kinds) THEN T(kinds[i]) ELSE T(last)]

\* Nothing is read behind the first wrong token, so that one is enough.
MCInputs == {w \in {Ended(kinds, last) :
                        kinds \in Upto(2, Kinds) \cup Upto(4, StackKinds)
                                  \cup LongKinds,
                        last \in {"END", "ERROR"}} :
                Syntax!IsViable(w, Len(w) - 2)}
=============================================================================
