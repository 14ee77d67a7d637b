--------------------------- MODULE LoweringMeaning ---------------------------
(***************************************************************************)
(* The tree that parser_parse returns means what the pattern means.        *)
(***************************************************************************)
EXTENDS Lowering

CONSTANT Texts               \* the texts to compare the two on

Meaning == INSTANCE SyntaxMeaning

(* The result of parser_parse is a tree as compiler_compile wants it, and  *)
(* has the matches that the tokens of the pattern have by the precedence   *)
(* of the operators: parsing by the table and lowering to left-leaning     *)
(* trees have not changed what the pattern says.                           *)
ParsedMeansPattern ==
    /\ ReturnsAst
    /\ parsed /\ left # NULL_NODE =>
          \A t \in Texts :
             Meaning!Spans(ast, t) = Meaning!TokenSpans(tokens, t)
=============================================================================
