------------------------------- MODULE Lowering -------------------------------
(***************************************************************************)
(* parser_parse of src/parser.c: the parse tree that parser_parse_tree     *)
(* built is lowered to the tree of Ast, and released.                      *)
(*                                                                         *)
(* Nodes of the result are created children first, so that the sequence    *)
(* `ast` is laid out as Ast wants it.  What is allocated at any time is    *)
(* held by the calls under way, the C stack `frames`.                      *)
(***************************************************************************)
EXTENDS Parser, Ast

ASSUME LoweringAssumption == MAX_REPEAT_COUNT \in Nat

VARIABLES
    mode,                    \* what the lower_ functions are doing:
    target,                  \* the parse tree node they are called with
    left,                    \* what is lowered already, to a tail; the result
    frames,                  \* the calls waiting for a result
    ast, positions,          \* the nodes of the result, the token of each
    owned,                   \* those that are allocated
    parsed                   \* parser_parse has returned

nodes    == <<ast, positions, owned>>
lowering == <<mode, target, left, frames, nodes>>
all      == <<vars, lowering, parsed>>

LoweringErrors == {"failed to allocate atom AST node",
                   "failed to allocate quantifier AST node",
                   "failed to allocate binary AST node",
                   "failed to allocate empty AST node"}

\* parser_parse promises what parser_parse_tree does.
AbsParse == INSTANCE ParserSpec WITH
    MemoryErrors <- ParserMemoryErrors \cup LoweringErrors,
    answer <- [success  |-> IF ~parsed THEN "pending"
                            ELSE IF left = NULL_NODE THEN "no" ELSE "yes",
               error    |-> IF parsed THEN error ELSE NoError,
               position |-> IF parsed THEN position ELSE 0]

\* A call of lower_repetition that waits for its atom, of lower_concatenation
\* or lower_alternation for the first operand, of one of their tails for the
\* next one, and of anyone that returns what its last call returns.
Frame == [waits : {"atom", "first", "next", "last"},
          node  : Nat,
          held  : Nat]

LoweringInit ==
    /\ Init
    /\ mode = "idle" /\ target = NULL_NODE /\ left = NULL_NODE
    /\ frames = <<>>
    /\ ast = <<>> /\ positions = <<>> /\ owned = {}
    /\ parsed = FALSE

ParseNode == tree[target]
Child(i) == ParseNode.children[i]
Caller == Last(frames)
-----------------------------------------------------------------------------
(* src/ast.c                                                               *)

\* The nodes of the tree with this root.  Children come before parents, so
\* that who is found by way of the nodes from n on follows from those behind n.
TreeOf(root) ==
    LET from[n \in 1 .. Len(ast) + 1] ==
            IF n = Len(ast) + 1 THEN {root}
            ELSE LET found == from[n + 1]
                 IN  IF n \in found THEN found \cup Children(ast[n])
                     ELSE found
    IN  from[1]

\* ast_free, which accepts a null pointer.
AstFree(roots) == owned' = owned \ UNION {TreeOf(root) : root \in roots}

\* ast_allocate and the constructors.
Make(type, chars, l, r, token) ==
    /\ ast' = Append(ast, [type |-> type, chars |-> chars, left |-> l,
                           right |-> r, minimum |-> 0, maximum |-> 0])
    /\ positions' = Append(positions, token)
    /\ owned' = owned \cup {Len(ast) + 1}

\* A lower_ function returns a node or, having failed, null.
Return(root) == mode' = "return" /\ left' = root

\* Mutant: sets no message.
LowerFailsSilently(where, why) ==
    /\ Return(NULL_NODE)
    /\ UNCHANGED <<fault, ast, positions>>

\* lower_set_error: the first message is kept, but no call goes on after one.
LowerFails(where, why) ==
    /\ Return(NULL_NODE)
    /\ error' = why /\ position' = where
    /\ UNCHANGED <<ast, positions>>
-----------------------------------------------------------------------------
(* parser_parse                                                            *)

Parse == /\ ~parsed
         /\ mode = "idle"
         /\ ParserNext
         /\ UNCHANGED <<lowering, parsed>>

ParseFailed == /\ pc = "done" /\ mode = "idle" /\ ~parsed
               /\ error # NoError
               /\ parsed' = TRUE
               /\ UNCHANGED <<vars, lowering>>

\* lower_parse_tree for the empty pattern.
LowerEmpty ==
    /\ pc = "done" /\ mode = "idle"
    /\ error = NoError
    /\ tree[ROOT].production = "REGEX_END"
    /\ \/ /\ Make("EMPTY", {}, NULL_NODE, NULL_NODE, 0)
          /\ Return(Len(ast) + 1)
          /\ UNCHANGED fault
       \/ LowerFails(0, "failed to allocate empty AST node") /\ UNCHANGED owned
    /\ UNCHANGED <<tokens, pc, read, memory, items, target, frames, parsed>>

LowerRoot ==
    /\ pc = "done" /\ mode = "idle"
    /\ error = NoError
    /\ tree[ROOT].production = "REGEX_ALTERNATION_END"
    /\ mode' = "call"
    /\ target' = tree[ROOT].children[1]
    /\ UNCHANGED <<vars, left, frames, nodes, parsed>>

\* parse_tree_free, and the return.
ParseReturns == /\ mode = "return" /\ frames = <<>>
                /\ mode' = "over"
                /\ parsed' = TRUE
                /\ live' = live \ Reached
                /\ UNCHANGED <<tokens, pc, read, tree, items, fault,
                               target, left, frames, nodes>>
-----------------------------------------------------------------------------
(* Calls.                                                                  *)

still == <<tokens, pc, read, memory, items, parsed>>

IsCall(productions) == mode = "call" /\ ParseNode.production \in productions

\* The call waits for one of child `i`.
Call(i, waits, held) ==
    /\ frames' = Append(frames, [waits |-> waits, node |-> target,
                                 held |-> held])
    /\ mode' = "call"
    /\ target' = Child(i)
    /\ UNCHANGED <<still, fault, left, nodes>>

\* lower_alternation, lower_concatenation
CallList == /\ IsCall({"ALTERNATION", "CONCATENATION"})
            /\ Call(1, "first", NULL_NODE)

\* lower_repetition
CallRepetition == IsCall({"REPETITION"}) /\ Call(1, "atom", NULL_NODE)

\* lower_atom: a group is what is in it.
CallGroup == IsCall({"ATOM_GROUP"}) /\ Call(2, "last", NULL_NODE)

AtomType(production) == CASE production = "ATOM_LITERAL" -> "LITERAL"
                          [] production = "ATOM_DOT" -> "DOT"
                          [] production = "ATOM_CLASS" -> "CHARACTER_CLASS"
                          [] production = "ATOM_CARET" -> "ASSERT_START"
                          [] production = "ATOM_DOLLAR" -> "ASSERT_END"

LowerLeaf ==
    /\ IsCall({"ATOM_LITERAL", "ATOM_DOT", "ATOM_CLASS", "ATOM_CARET",
               "ATOM_DOLLAR"})
    /\ LET token == tree[Child(1)].token
       IN  \/ /\ Make(AtomType(ParseNode.production), tokens[token].chars,
                      NULL_NODE, NULL_NODE, token)
              /\ Return(Len(ast) + 1)
              /\ UNCHANGED fault
           \/ /\ LowerFails(token, "failed to allocate atom AST node")
              /\ UNCHANGED owned
    /\ UNCHANGED <<still, target, frames>>

\* lower_concatenation_tail, lower_alternation_tail at the end of the list.
TailEnds == /\ mode = "tail"
            /\ ParseNode.production \in {"ALTERNATION_TAIL_EMPTY",
                                         "CONCATENATION_TAIL_EMPTY"}
            /\ mode' = "return"
            /\ UNCHANGED <<still, fault, target, left, frames, nodes>>

\* The operand is the last child but one, and the tail the last.
Operand == Len(ParseNode.children) - 1

TailGoesOn ==
    /\ mode = "tail"
    /\ ParseNode.production \in {"ALTERNATION_TAIL_PIPE",
                                 "CONCATENATION_TAIL_REPETITION"}
    /\ Call(Operand, "next", left)
-----------------------------------------------------------------------------
(* Returns.                                                                *)

IsReturn(waits) == mode = "return" /\ frames # <<>> /\ Caller.waits = waits

Leave == frames' = Front(frames)

\* A call that has failed: what its caller holds is released with it.
ReturnNull == /\ mode = "return" /\ frames # <<>>
              /\ left = NULL_NODE
              /\ AstFree({Caller.held} \ {NULL_NODE})
              /\ Leave
              /\ UNCHANGED <<still, fault, mode, target, left, ast, positions>>

ReturnLast == /\ IsReturn("last")
              /\ left # NULL_NODE
              /\ Leave
              /\ UNCHANGED <<still, fault, mode, target, left, nodes>>

\* Mutant: a tail goes on with itself.
GoOnWithSameTail(node) ==
    /\ mode' = "tail"
    /\ target' = IF Caller.waits = "next" THEN node
                 ELSE Last(tree[node].children)
    /\ frames' = Append(Front(frames), [waits |-> "last", node |-> node,
                                        held |-> NULL_NODE])

\* The tail of the list is lowered by a call that the return waits for.
GoOnWithTail(node) ==
    /\ mode' = "tail"
    /\ target' = Last(tree[node].children)
    /\ frames' = Append(Front(frames), [waits |-> "last", node |-> node,
                                        held |-> NULL_NODE])

ReturnFirst == /\ IsReturn("first")
               /\ left # NULL_NODE
               /\ GoOnWithTail(Caller.node)
               /\ UNCHANGED <<still, fault, left, nodes>>

\* The token a binary node takes its position from.
OperatorToken ==
    IF tree[Caller.node].production = "ALTERNATION_TAIL_PIPE"
    THEN tree[tree[Caller.node].children[1]].token
    ELSE positions[left]

BinaryTypeOf(production) ==
    IF production = "ALTERNATION_TAIL_PIPE" THEN "ALTERNATION"
    ELSE "CONCATENATION"

\* Mutants: the operands change places; the left one is not released.
CombineSwapped == Make(BinaryTypeOf(tree[Caller.node].production), {},
                       left, Caller.held, OperatorToken)
ReleaseRight == AstFree({left})

\* ast_make_binary, and what lower_make_binary does when it fails.
Combine == Make(BinaryTypeOf(tree[Caller.node].production), {},
                Caller.held, left, OperatorToken)
ReleaseBoth == AstFree({Caller.held, left})

ReturnNext ==
    /\ IsReturn("next")
    /\ left # NULL_NODE
    /\ \/ /\ Combine
          /\ left' = Len(ast) + 1
          /\ GoOnWithTail(Caller.node)
          /\ UNCHANGED fault
       \/ /\ LowerFails(OperatorToken, "failed to allocate binary AST node")
          /\ ReleaseBoth
          /\ Leave
          /\ UNCHANGED target
    /\ UNCHANGED still

Quantifier == tree[tree[Caller.node].children[2]]

UnaryTypeOf(production) == CASE production = "QUANTIFIER_STAR" -> "STAR"
                             [] production = "QUANTIFIER_PLUS" -> "PLUS"
                             [] production = "QUANTIFIER_QUESTION" -> "OPTIONAL"

\* lower_repetition, behind its atom.
ReturnAtom ==
    /\ IsReturn("atom")
    /\ left # NULL_NODE
    /\ Leave
    /\ LET type == UnaryTypeOf(Quantifier.production)
           operator == tree[Quantifier.children[1]].token
       IN  \/ /\ Quantifier.production = "QUANTIFIER_EMPTY"
              /\ UNCHANGED <<fault, mode, left, nodes>>
           \/ /\ Quantifier.production # "QUANTIFIER_EMPTY"
              /\ Make(type, {}, left, NULL_NODE, operator)
              /\ Return(Len(ast) + 1)
              /\ UNCHANGED fault
           \/ /\ Quantifier.production # "QUANTIFIER_EMPTY"
              /\ AstFree({left})
              /\ LowerFails(operator, "failed to allocate quantifier AST node")
    /\ UNCHANGED <<still, target>>

LoweringNext ==
    \/ Parse \/ ParseFailed \/ LowerEmpty \/ LowerRoot \/ ParseReturns
    \/ CallList \/ CallRepetition \/ CallGroup \/ LowerLeaf
    \/ TailEnds \/ TailGoesOn
    \/ ReturnNull \/ ReturnLast \/ ReturnFirst \/ ReturnNext \/ ReturnAtom

LoweringSpec == LoweringInit /\ [][LoweringNext]_all
-----------------------------------------------------------------------------
AtomProductions == {"ATOM_LITERAL", "ATOM_DOT", "ATOM_CLASS", "ATOM_CARET",
                    "ATOM_DOLLAR", "ATOM_GROUP"}

(* The type of the state, and each lower_ function is called with a node   *)
(* of the production it is for: the branches "invalid ... parse tree",     *)
(* "... production" and "... tail" are never taken.                        *)
LoweringTypeOK ==
    /\ StateOK
    /\ error \in {NoError} \cup ParserErrors \cup LoweringErrors
    /\ mode \in {"idle", "call", "tail", "return", "over"}
    /\ target \in 0 .. Len(tree)
    /\ left \in 0 .. Len(ast)
    /\ frames \in Seq(Frame)
    /\ ast \in Seq(AstNode)
    /\ positions \in [DOMAIN ast -> 0 .. Len(tokens)]
    /\ owned \subseteq DOMAIN ast
    /\ parsed \in BOOLEAN
    /\ mode = "call" => ParseNode.production \in
          {"ALTERNATION", "CONCATENATION", "REPETITION"} \cup AtomProductions
    /\ mode = "tail" => ParseNode.production \in
          {"ALTERNATION_TAIL_PIPE", "ALTERNATION_TAIL_EMPTY",
           "CONCATENATION_TAIL_REPETITION", "CONCATENATION_TAIL_EMPTY"}

\* What is on its way, and what the waiting calls hold.
Holders == [i \in 0 .. Len(frames) |->
               IF i > 0 THEN frames[i].held
               ELSE IF mode = "call" THEN NULL_NODE ELSE left]

(* Every allocated node of the result is the child of one node or is held  *)
(* by one call, and what they refer to is allocated: none leaks and none   *)
(* is released twice, whichever allocation fails.  At the end the parse    *)
(* tree is gone, and of the result what the caller gets is left.           *)
AstOwnedOnce ==
    /\ LoweringTypeOK
    /\ \A n \in owned :
          Cardinality({p \in owned : n \in Children(ast[p])})
            + Cardinality({i \in DOMAIN Holders : Holders[i] = n}) = 1
    /\ \A n \in owned : Children(ast[n]) \subseteq owned
    /\ \A i \in DOMAIN Holders : Holders[i] \in owned \cup {NULL_NODE}
    /\ parsed => live = {}

\* The nodes on the longest way down from the root.
HeightOf == LET height[n \in DOMAIN tree] ==
                    IF tree[n].children = <<>> THEN 1
                    ELSE 1 + Max({height[c] :
                                     c \in ToSet(tree[n].children)})
            IN  height[ROOT]

(* The recursion is never deeper than the parse tree is high, however long *)
(* its lists of operands are, each of which adds a call: it ends, and the  *)
(* C stack it takes is linear in the pattern.                              *)
NoDeeperThanParseTree == mode # "idle" => Len(frames) < HeightOf

\* The result of parser_parse is a tree as compiler_compile wants it.
ReturnsAst == parsed /\ left # NULL_NODE => IsAst(ast) /\ left = Len(ast)

(* The right answer, with the message that says why not.                   *)
ParseImplementsParserSpec == AbsParse!Spec
=============================================================================
