--------------------------------- MODULE Ast ---------------------------------
(***************************************************************************)
(* The tree of include/cregex/ast.h as a sequence of nodes: a node names   *)
(* its children by their indices, which are smaller than its own, the root *)
(* is the last one, and 0 is the null pointer.                             *)
(***************************************************************************)
EXTENDS Characters, Integers, Sequences

CONSTANT MAX_REPEAT_COUNT    \* CREGEX_MAX_REPEAT_COUNT, 1000 in the code

NULL_NODE == 0

\* CREGEX_REPEAT_UNBOUNDED, (size_t) -1.
UNBOUNDED == -1

LeafType == {"EMPTY", "LITERAL", "DOT", "CHARACTER_CLASS", "ASSERT_START",
             "ASSERT_END"}
BinaryType == {"CONCATENATION", "ALTERNATION"}
UnaryType == {"STAR", "PLUS", "OPTIONAL"}

AstType == LeafType \cup BinaryType \cup UnaryType \cup {"REPEAT"}

\* `chars` is the character of a LITERAL or the members of a class; the child
\* of a node with one child is `left`.
AstNode == [type    : AstType,
            chars   : SUBSET Chars,
            left    : Nat,
            right   : Nat,
            minimum : Nat,
            maximum : Nat \cup {UNBOUNDED}]

\* ast_make_unary, ast_make_binary and ast_make_repeat refuse null children.
Children(node) == CASE node.type \in LeafType -> {}
                    [] node.type \in BinaryType -> {node.left, node.right}
                    [] OTHER -> {node.left}

IsAst(ast) == /\ ast \in Seq(AstNode)
              /\ \A n \in DOMAIN ast : Children(ast[n]) \subseteq 1 .. n - 1

\* The bounds that ast_make_repeat makes a node of and compile_repeat accepts.
HasBounds(node) ==
    /\ node.minimum <= MAX_REPEAT_COUNT
    /\ \/ node.maximum = UNBOUNDED
       \/ node.maximum \in node.minimum .. MAX_REPEAT_COUNT
=============================================================================
