--------------------------- MODULE CompilerMeaning ---------------------------
(***************************************************************************)
(* The compiled program means what the tree means.                         *)
(***************************************************************************)
EXTENDS Compiler, PatternMeaning

CONSTANT Texts               \* the texts to compare the two on

ASSUME TextsAssumption == \A t \in Texts : t \in Seq(Chars)

(* From every offset of every text the program of a finished compilation   *)
(* has the matches that the pattern has there.                             *)
CompiledMeansAst ==
    HasCompiled =>
        \A t \in Texts : LET spans == Spans(ast, t)
                         IN  \A from \in 0 .. Len(t) :
                                ReachedEnds(Compiled, t, from) =
                                    {p[2] : p \in {p \in spans : p[1] = from}}
=============================================================================
