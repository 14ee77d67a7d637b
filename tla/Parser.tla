-------------------------------- MODULE Parser --------------------------------
(***************************************************************************)
(* parser_parse_tree of src/parser.c: predictive parsing with a stack.     *)
(*                                                                         *)
(* The tree of src/parse_tree.c is a sequence of nodes, in the order they  *)
(* are created; a node names its children by their indices, and 0 is the   *)
(* null pointer.  The stack holds nodes of the same tree, which alone owns *)
(* them.                                                                   *)
(*                                                                         *)
(* Scanning a token is one step here; Scanner has the steps.               *)
(***************************************************************************)
EXTENDS Grammar, Characters, Integers, SequencesExt

CONSTANTS Inputs,            \* the token sequences: see PatternSyntax
          STACK_CAPACITY,    \* 16 in the code
          MAXIMUM_SIZE,      \* (size_t) -1
          POINTER_SIZE       \* sizeof(ParseTreeNode *)

VARIABLES
    tokens,                  \* what the lexer gives
    pc,                      \* where the call is
    read,                    \* parser.current is tokens[read]; 0 before the first
    tree,                    \* the nodes created so far
    live,                    \* those that are allocated
    stack, capacity,         \* ParseStack
    error, position          \* parser.error

memory == <<tree, live>>
items  == <<stack, capacity>>
fault  == <<error, position>>
vars   == <<tokens, pc, read, memory, items, fault>>

NO_NODE == 0
ROOT == 1
NoError == "none"

ParserMemoryErrors == {"failed to allocate parse tree root",
                       "failed to allocate parser stack",
                       "failed to allocate parse tree children",
                       "failed to allocate parse tree node",
                       "failed to grow parser stack"}

\* parser_set_table_error, parser_set_terminal_error
SyntaxErrors == {"quantifier has no preceding expression",
                 "multiple consecutive quantifiers are not supported",
                 "alternation operator is missing an operand",
                 "empty or incomplete group",
                 "missing closing parenthesis",
                 "unexpected closing parenthesis",
                 "expected an expression"}

\* Scanner has the errors of the lexer.
ParserErrors == ParserMemoryErrors \cup SyntaxErrors \cup {"lexical error"}

Abs == INSTANCE ParserSpec WITH
    MemoryErrors <- ParserMemoryErrors,
    answer <- [success  |-> IF pc # "done" THEN "pending"
                            ELSE IF live = {} THEN "no" ELSE "yes",
               error    |-> IF pc = "done" THEN error ELSE NoError,
               position |-> IF pc = "done" THEN position ELSE 0]

ASSUME ParserAssumption ==
    /\ \A w \in Inputs : Abs!IsTokenSequence(w)
    /\ STACK_CAPACITY \in Nat \ {0}
    /\ MAXIMUM_SIZE \in Nat
    /\ POINTER_SIZE \in Nat \ {0}

\* parse_tree_node_create
NewNode(symbol) == [symbol     |-> symbol,
                    production |-> NONE,
                    children   |-> <<>>,
                    token      |-> 0]

ParseTreeNode == [symbol     : Terminals \cup Nonterminals \cup {EPSILON},
                  production : DOMAIN Productions \cup {NONE},
                  children   : Seq(Nat),
                  token      : Nat]

Init == /\ tokens \in Inputs
        /\ pc = "create" /\ read = 0
        /\ tree = <<>> /\ live = {}
        /\ stack = <<>> /\ capacity = 0
        /\ error = NoError /\ position = 0

\* parser_set_error, and the way out of the loop it opens.
FailAt(where, why) == pc' = "fail" /\ error' = why /\ position' = where
Fail(why) == FailAt(read, why)

\* parser_advance: the next token, or the error that the lexer reports.
Advance(next) ==
    /\ read' = read + 1
    /\ IF tokens[read'].terminal = "ERROR"
       THEN FailAt(read', "lexical error")
       ELSE pc' = next /\ UNCHANGED fault

Current == tokens[read].terminal
Top == Last(stack)
Node == tree[Top]
-----------------------------------------------------------------------------
(* The stack.                                                              *)

\* The capacity behind one growth, if there is one.
Doubled == IF capacity = 0 THEN STACK_CAPACITY ELSE capacity * 2

\* Neither the doubling nor the size in bytes overflows.
CanGrow == /\ capacity = 0 \/ capacity <= MAXIMUM_SIZE \div 2
           /\ Doubled <= MAXIMUM_SIZE \div POINTER_SIZE

Fits(pushed) == Len(pushed) <= capacity

\* parse_stack_push for each node, `pushed` being the stack it leads to.
PushAll(pushed) ==
    /\ stack' = pushed
    /\ \/ Fits(pushed) /\ UNCHANGED capacity
       \/ ~Fits(pushed) /\ CanGrow /\ capacity' = Doubled

\* The push that needs room fails; those before it were done.
PushFails(pushed) == /\ ~Fits(pushed)
                     /\ stack' = SubSeq(pushed, 1, capacity)
                     /\ UNCHANGED capacity
-----------------------------------------------------------------------------
(* parser_parse_tree, up to its loop.                                      *)

CreateRoot == /\ pc = "create"
              /\ \/ /\ tree' = <<NewNode("Regex")>>
                    /\ live' = {ROOT}
                    /\ pc' = "begin"
                    /\ UNCHANGED fault
                 \/ /\ FailAt(0, "failed to allocate parse tree root")
                    /\ UNCHANGED memory
              /\ UNCHANGED <<tokens, read, items>>

ScanFirst == /\ pc = "begin"
             /\ Advance("push")
             /\ UNCHANGED <<tokens, memory, items>>

PushRoot == /\ pc = "push"
            /\ \/ PushAll(<<ROOT>>) /\ pc' = "loop" /\ UNCHANGED fault
               \/ /\ PushFails(<<ROOT>>)
                  /\ FailAt(0, "failed to allocate parser stack")
            /\ UNCHANGED <<tokens, read, memory>>
-----------------------------------------------------------------------------
(* The loop.                                                               *)

AtTerminal == pc = "loop" /\ stack # <<>> /\ Node.symbol \in Terminals
AtNonterminal == pc = "loop" /\ stack # <<>> /\ Node.symbol \in Nonterminals

Pop == stack' = Front(stack) /\ UNCHANGED capacity

\* END stays the current token.
MatchTerminal == /\ AtTerminal
                 /\ Node.symbol = Current
                 /\ Pop
                 /\ tree' = [tree EXCEPT ![Top].token = read]
                 /\ \/ Current # "END" /\ Advance("loop")
                    \/ Current = "END" /\ UNCHANGED <<pc, read, fault>>
                 /\ UNCHANGED <<tokens, live>>

\* parser_set_terminal_error; its last branch is not reached.
TerminalError(expected) ==
    CASE expected = "RPAREN" /\ Current = "END" ->
            "missing closing parenthesis"
      [] expected = "END" /\ Current = "RPAREN" ->
            "unexpected closing parenthesis"

RefuseTerminal == /\ AtTerminal
                  /\ Node.symbol # Current
                  /\ Fail(TerminalError(Node.symbol))
                  /\ Pop
                  /\ UNCHANGED <<tokens, read, memory>>

\* Mutant: looks at the wrong tail only.
TableErrorOneTail(nonterminal) ==
    CASE Current \in Quantifiers ->
            IF nonterminal = "AlternationTail"
            THEN "multiple consecutive quantifiers are not supported"
            ELSE "quantifier has no preceding expression"
      [] Current = "PIPE" -> "alternation operator is missing an operand"
      [] Current = "RPAREN" ->
            IF nonterminal \in {"Alternation", "Concatenation"}
            THEN "empty or incomplete group"
            ELSE "unexpected closing parenthesis"
      [] Current = "END" -> "expected an expression"

\* parser_set_table_error; its last branch is not reached either.
TableError(nonterminal) ==
    CASE Current \in Quantifiers ->
            IF nonterminal \in {"ConcatenationTail", "AlternationTail"}
            THEN "multiple consecutive quantifiers are not supported"
            ELSE "quantifier has no preceding expression"
      [] Current = "PIPE" -> "alternation operator is missing an operand"
      [] Current = "RPAREN" ->
            IF nonterminal \in {"Alternation", "Concatenation"}
            THEN "empty or incomplete group"
            ELSE "unexpected closing parenthesis"
      [] Current = "END" -> "expected an expression"

Production == grammar_table_lookup(Node.symbol, Current)

RefuseNonterminal == /\ AtNonterminal
                     /\ Production = NONE
                     /\ Fail(TableError(Node.symbol))
                     /\ Pop
                     /\ UNCHANGED <<tokens, read, memory>>

\* Mutant: pushes the children from left to right.
FrontierInOrder(ids, symbols) == IF symbols = <<EPSILON>> THEN <<>> ELSE ids

\* The children to push, the last one first, and no epsilon: where there is
\* one, it is the only symbol.
Frontier(ids, symbols) ==
    IF symbols = <<EPSILON>> THEN <<>> ELSE Reverse(ids)

\* Mutant: a child is entered in the tree when all of them exist.
GrownLate(symbols, created) ==
    [tree EXCEPT ![Top].children =
        [i \in DOMAIN symbols |->
            IF created = Len(symbols) THEN Len(tree) + i ELSE NO_NODE]]
    \o [i \in 1 .. created |-> NewNode(symbols[i])]

\* The tree when the first `created` of the children exist; the places of the
\* others are null.
Grown(symbols, created) ==
    [tree EXCEPT ![Top].children =
        [i \in DOMAIN symbols |->
            IF i <= created THEN Len(tree) + i ELSE NO_NODE]]
    \o [i \in 1 .. created |-> NewNode(symbols[i])]

\* parse_tree_node_create for the first `created` of the children.
CreateChildren(symbols, created) ==
    /\ tree' = [Grown(symbols, created) EXCEPT ![Top].production = Production]
    /\ live' = live \cup Len(tree) + 1 .. Len(tree) + created

\* parser_expand_node
Expand ==
    /\ AtNonterminal
    /\ Production # NONE
    /\ LET symbols == grammar_production_symbols(Production)
           ids == [i \in DOMAIN symbols |-> Len(tree) + i]
           pushed == Front(stack) \o Frontier(ids, symbols)
       IN  \/ /\ Fail("failed to allocate parse tree children")
              /\ Pop
              /\ UNCHANGED memory
           \/ \E created \in 0 .. Len(symbols) - 1 :
                 /\ Fail("failed to allocate parse tree node")
                 /\ CreateChildren(symbols, created)
                 /\ Pop
           \/ /\ CreateChildren(symbols, Len(symbols))
              /\ \/ PushAll(pushed) /\ UNCHANGED <<pc, fault>>
                 \/ PushFails(pushed) /\ Fail("failed to grow parser stack")
    /\ UNCHANGED <<tokens, read>>
-----------------------------------------------------------------------------
(* The end.                                                                *)

\* Whom parse_tree_free(root) reaches.  Children are younger than parents, so
\* that who is reached by way of the first n nodes follows from the first n - 1.
Reached ==
    LET by[n \in 0 .. Len(tree)] ==
            IF n = 0 THEN {ROOT}
            ELSE LET found == by[n - 1]
                 IN  IF n \in found THEN found \cup ToSet(tree[n].children)
                     ELSE found
    IN  by[Len(tree)]

Finish == /\ pc = "loop"
          /\ stack = <<>>
          /\ pc' = "done"
          /\ capacity' = 0
          /\ UNCHANGED <<tokens, read, memory, stack, fault>>

FinishFailed == /\ pc = "fail"
                /\ pc' = "done"
                /\ live' = live \ Reached
                /\ stack' = <<>> /\ capacity' = 0
                /\ UNCHANGED <<tokens, read, tree, fault>>

ParserNext == \/ CreateRoot \/ ScanFirst \/ PushRoot
              \/ MatchTerminal \/ RefuseTerminal
              \/ RefuseNonterminal \/ Expand
              \/ Finish \/ FinishFailed

Spec == Init /\ [][ParserNext]_vars
-----------------------------------------------------------------------------
\* The type of the state but for the message.
StateOK ==
    /\ pc \in {"create", "begin", "push", "loop", "fail", "done"}
    /\ read \in 0 .. Len(tokens)
    /\ tree \in Seq(ParseTreeNode)
    /\ live \subseteq DOMAIN tree
    /\ stack \in Seq(DOMAIN tree) /\ capacity \in Nat
    /\ Len(stack) <= capacity
    /\ position \in 0 .. Len(tokens)

(* The type of the state.  The messages are those named above: the         *)
(* branches with "unexpected token" and "invalid grammar production" are    *)
(* not reached.                                                            *)
TypeOK == StateOK /\ error \in {NoError} \cup ParserErrors

\* The leaves below each node from left to right, empty ones left out.
Leaves == LET leaves[n \in DOMAIN tree] ==
                  IF tree[n].children # <<>>
                  THEN FlattenSeq([i \in DOMAIN tree[n].children |->
                                      leaves[tree[n].children[i]]])
                  ELSE IF tree[n].symbol = EPSILON THEN <<>> ELSE <<n>>
          IN  leaves

(* The leaves of the tree are the tokens read so far, each the terminal    *)
(* that was expected there, and then the stack from its top down: what is  *)
(* still to be parsed.  The stack fits its block (see TypeOK).             *)
StackIsFrontier ==
    LET leaves == Leaves[ROOT]
        matched == IF pc = "loop" /\ stack # <<>> THEN read - 1 ELSE read
    IN  /\ TypeOK
        /\ pc = "loop" \/ (pc = "done" /\ error = NoError) =>
            /\ Len(leaves) = matched + Len(stack)
            /\ \A k \in 1 .. matched : /\ tree[leaves[k]].token = k
                                       /\ tree[leaves[k]].symbol =
                                            tokens[k].terminal
            /\ \A k \in matched + 1 .. Len(leaves) :
                   /\ leaves[k] = stack[Len(leaves) + 1 - k]
                   /\ tree[leaves[k]].token = 0

(* Every allocated node but the root is the child of exactly one node, in  *)
(* one place: the tree is released whole by releasing its root, and if     *)
(* there is no result nothing is left of it.                               *)
NodesOwnedOnce ==
    /\ \A n \in live \ {ROOT} :
          Cardinality({e \in live \X (1 .. 3) :
                          /\ e[2] \in DOMAIN tree[e[1]].children
                          /\ tree[e[1]].children[e[2]] = n}) = 1
    /\ pc = "done" /\ error # NoError => live = {}
    /\ pc # "done" \/ error = NoError => live = DOMAIN tree

(* The stack is popped and grows without a token being read only a few     *)
(* times: the parser ends, in time and memory linear in the pattern.       *)
WorkIsLinear == Len(tree) <= 9 * read + 4

(* The answer is the right one: a tree, or the first token that is wrong   *)
(* and what is wrong with it.                                              *)
ImplementsParserSpec == Abs!Spec
=============================================================================
