---------------------------- MODULE PatternSyntax ----------------------------
(***************************************************************************)
(* Which sequences of tokens are patterns, and what is wrong with the      *)
(* others, with no grammar and no table: by the token before and by how    *)
(* many groups are open.  This is the reference the parser is compared     *)
(* with.                                                                   *)
(***************************************************************************)
EXTENDS Characters, Integers, Sequences, FiniteSets

\* The tokens an operand begins with, and those it can end with.
Atoms == {"LITERAL", "DOT", "CLASS", "CARET", "DOLLAR"}
Repeaters == {"STAR", "PLUS", "QUESTION"}
OperandEnds == Atoms \cup Repeaters \cup {"RPAREN"}

\* "ERROR" stands for a token the parser cannot get: see Scanner.
Kinds == OperandEnds \cup {"LPAREN", "PIPE", "END", "ERROR"}

\* A LITERAL or CLASS comes with the characters it matches.
Token == [terminal : Kinds, chars : SUBSET Chars]

Kind(w, k) == IF k = 0 THEN "BEGIN" ELSE w[k].terminal

\* What the parser is given ends with the first END or ERROR.
IsTokenSequence(w) ==
    /\ w \in Seq(Token)
    /\ w # <<>>
    /\ \A k \in DOMAIN w : Kind(w, k) \in {"END", "ERROR"} <=> k = Len(w)

\* How many groups are open behind the first k tokens.
Depth(w, k) == Cardinality({i \in 1 .. k : Kind(w, i) = "LPAREN"})
             - Cardinality({i \in 1 .. k : Kind(w, i) = "RPAREN"})

MayFollow(next, previous) ==
    \/ next \in Atoms \cup {"LPAREN"}
    \/ next \in Repeaters /\ previous \in Atoms \cup {"RPAREN"}
    \/ next \in {"PIPE", "RPAREN", "END"} /\ previous \in OperandEnds
    \/ next = "END" /\ previous = "BEGIN"

\* Some pattern goes on like w up to its k-th token.
IsViable(w, k) ==
    \A i \in 1 .. k :
        /\ MayFollow(Kind(w, i), Kind(w, i - 1))
        /\ Kind(w, i) = "RPAREN" => Depth(w, i) >= 0
        /\ Kind(w, i) = "END" => Depth(w, i) = 0

IsPattern(w) == IsViable(w, Len(w))

\* The first token at which w ceases to be a pattern.
FirstWrong(w) ==
    CHOOSE k \in DOMAIN w : ~IsViable(w, k) /\ IsViable(w, k - 1)

\* What is wrong there.
Complaint(w) ==
    LET kind == Kind(w, FirstWrong(w))
        previous == Kind(w, FirstWrong(w) - 1)
        wants_operand == previous \in {"LPAREN", "PIPE"}
    IN CASE kind = "ERROR" -> "lexical error"
         [] kind \in Repeaters ->
                IF previous \in Repeaters
                THEN "multiple consecutive quantifiers are not supported"
                ELSE "quantifier has no preceding expression"
         [] kind = "PIPE" -> "alternation operator is missing an operand"
         [] kind = "RPAREN" -> IF wants_operand
                               THEN "empty or incomplete group"
                               ELSE "unexpected closing parenthesis"
         [] kind = "END" -> IF wants_operand THEN "expected an expression"
                            ELSE "missing closing parenthesis"
=============================================================================
