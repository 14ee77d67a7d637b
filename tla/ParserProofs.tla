----------------------------- MODULE ParserProofs -----------------------------
(***************************************************************************)
(* For token sequences of any length and stacks of any capacity: the       *)
(* parser's stack is the frontier of its tree, every node is owned once,   *)
(* the work is linear, and the answer is the one that ParserSpec promises. *)
(***************************************************************************)
EXTENDS Parser, SequenceTheorems, FiniteSetTheorems, WellFoundedInduction,
        TLAPS

Symbols == Terminals \cup Nonterminals \cup {EPSILON}

\* What can be on the stack right below a symbol.
Below(symbol) ==
    CASE symbol \in {"Alternation", "AlternationTail"} -> {"END", "RPAREN"}
      [] symbol \in {"Concatenation", "ConcatenationTail"} ->
             {"AlternationTail"}
      [] symbol \in {"Repetition", "Quantifier"} \cup Quantifiers ->
             {"ConcatenationTail"}
      [] symbol \in {"Atom", "RPAREN"} \cup (AtomStarts \ {"LPAREN"}) ->
             {"Quantifier"}
      [] symbol = "LPAREN" -> {"Alternation"}
      [] symbol = "PIPE" -> {"Concatenation"}
      [] OTHER -> {}

\* What is at the bottom.
Bottom == {"Regex", "END"}

\* What the current token can be when a symbol is on top.
Fitting(symbol) ==
    CASE symbol \in {"END", "RPAREN"} -> {"END", "RPAREN"}
      [] symbol \in Terminals \ {"END", "RPAREN"} -> {symbol}
      [] symbol = "AlternationTail" -> {"PIPE", "END", "RPAREN"}
      [] OTHER -> Terminals

\* The nodes that a symbol on the stack may still cost, less the nine that
\* a token pays for.
Cost(symbol) == CASE symbol = "Regex" -> 3
                  [] symbol = "Concatenation" -> 0 - 2
                  [] symbol = "Repetition" -> 0 - 5
                  [] symbol = "Atom" -> 0 - 8
                  [] symbol \in {"Alternation", "AlternationTail",
                                 "ConcatenationTail", "Quantifier"} -> 1
                  [] symbol = "RPAREN" -> 0 - 3
                  [] symbol = "PIPE" -> 0 - 1
                  [] symbol \in AtomStarts -> 0 - 9
                  [] OTHER -> 0

\* The least that a stack with this symbol on top costs.
Least(symbol) == CASE symbol = "Regex" -> 3
                   [] symbol = "Quantifier" -> 3
                   [] symbol \in {"ConcatenationTail"} \cup Quantifiers -> 2
                   [] symbol \in {"Alternation", "AlternationTail"} -> 1
                   [] symbol = "Concatenation" -> 0 - 1
                   [] symbol = "Repetition" -> 0 - 3
                   [] symbol = "Atom" -> 0 - 5
                   [] symbol = "PIPE" -> 0 - 2
                   [] symbol = "LPAREN" -> 0 - 8
                   [] symbol \in AtomStarts \ {"LPAREN"} -> 0 - 6
                   [] OTHER -> 0
-----------------------------------------------------------------------------
(* The grammar.                                                            *)

\* A row of the table: by what it replaces a symbol on top of the stack when
\* `next` is the current token.
RowOK(symbol, next, symbols) ==
    /\ symbols \in Seq(Symbols) /\ Len(symbols) \in 1 .. 3
    /\ Len(symbols) = 1 => 1 + Cost(symbols[1]) <= Cost(symbol)
    /\ Len(symbols) = 2 =>
          2 + Cost(symbols[1]) + Cost(symbols[2]) <= Cost(symbol)
    /\ Len(symbols) = 3 =>
          3 + Cost(symbols[1]) + Cost(symbols[2]) + Cost(symbols[3])
            <= Cost(symbol)
    /\ \/ /\ symbols = <<EPSILON>>
          /\ symbol \notin Bottom
          /\ \A under \in Below(symbol) : next \in Fitting(under)
       \/ /\ \A i \in 1 .. Len(symbols) : symbols[i] # EPSILON
          /\ next \in Fitting(symbols[1])
          /\ \A i \in 1 .. Len(symbols) - 1 :
                symbols[i + 1] \in Below(symbols[i])
          /\ IF symbol = "Regex" THEN symbols[Len(symbols)] = "END"
             ELSE Below(symbol) \subseteq Below(symbols[Len(symbols)])

Endings == {"PIPE", "RPAREN", "END"}

\* The table, by its productions.
HeadOf == [
    REGEX_END |-> "Regex",
    REGEX_ALTERNATION_END |-> "Regex",
    ALTERNATION |-> "Alternation",
    ALTERNATION_TAIL_PIPE |-> "AlternationTail",
    ALTERNATION_TAIL_EMPTY |-> "AlternationTail",
    CONCATENATION |-> "Concatenation",
    CONCATENATION_TAIL_REPETITION |-> "ConcatenationTail",
    CONCATENATION_TAIL_EMPTY |-> "ConcatenationTail",
    REPETITION |-> "Repetition",
    QUANTIFIER_STAR |-> "Quantifier",
    QUANTIFIER_PLUS |-> "Quantifier",
    QUANTIFIER_QUESTION |-> "Quantifier",
    QUANTIFIER_EMPTY |-> "Quantifier",
    ATOM_LITERAL |-> "Atom",
    ATOM_DOT |-> "Atom",
    ATOM_CLASS |-> "Atom",
    ATOM_CARET |-> "Atom",
    ATOM_DOLLAR |-> "Atom",
    ATOM_GROUP |-> "Atom"]

FirstOf == [
    REGEX_END |-> {"END"},
    REGEX_ALTERNATION_END |-> AtomStarts,
    ALTERNATION |-> AtomStarts,
    ALTERNATION_TAIL_PIPE |-> {"PIPE"},
    ALTERNATION_TAIL_EMPTY |-> {"RPAREN", "END"},
    CONCATENATION |-> AtomStarts,
    CONCATENATION_TAIL_REPETITION |-> AtomStarts,
    CONCATENATION_TAIL_EMPTY |-> Endings,
    REPETITION |-> AtomStarts,
    QUANTIFIER_STAR |-> {"STAR"},
    QUANTIFIER_PLUS |-> {"PLUS"},
    QUANTIFIER_QUESTION |-> {"QUESTION"},
    QUANTIFIER_EMPTY |-> AtomStarts \cup Endings,
    ATOM_LITERAL |-> {"LITERAL"},
    ATOM_DOT |-> {"DOT"},
    ATOM_CLASS |-> {"CLASS"},
    ATOM_CARET |-> {"CARET"},
    ATOM_DOLLAR |-> {"DOLLAR"},
    ATOM_GROUP |-> {"LPAREN"}]

\* The table has a production for a symbol only where both maps say so.
LEMMA Table ==
    ASSUME NEW symbol \in Nonterminals, NEW next \in Terminals,
           NEW production, production = grammar_table_lookup(symbol, next),
           production # NONE
    PROVE  /\ production \in DOMAIN Productions
           /\ symbol = HeadOf[production] /\ next \in FirstOf[production]
<1> USE DEF grammar_table_lookup, HeadOf, FirstOf, NONE, Productions
<1>1. CASE symbol = "Regex"
  BY <1>1 DEF Endings, AtomStarts
<1>2. CASE symbol = "Alternation"
  BY <1>2 DEF Endings, AtomStarts
<1>3. CASE symbol = "AlternationTail"
  BY <1>3 DEF Endings, AtomStarts
<1>4. CASE symbol = "Concatenation"
  BY <1>4 DEF Endings, AtomStarts
<1>5. CASE symbol = "ConcatenationTail"
  BY <1>5 DEF Endings, AtomStarts
<1>6. CASE symbol = "Repetition"
  BY <1>6 DEF Endings, AtomStarts
<1>7. CASE symbol = "Quantifier"
  BY <1>7 DEF Endings, AtomStarts
<1>8. CASE symbol = "Atom"
  BY <1>8, SMTT(30) DEF Endings, AtomStarts
<1> QED
  BY <1>1, <1>2, <1>3, <1>4, <1>5, <1>6, <1>7, <1>8, Zenon DEF Nonterminals

\* What grammar_table_lookup answers is a row in the sense above.
LEMMA RowsOK ==
    ASSUME NEW production \in DOMAIN Productions,
           NEW next \in FirstOf[production]
    PROVE  RowOK(HeadOf[production], next, Productions[production])
<1> USE DEF RowOK, Cost, Below, Fitting, Bottom, Symbols, Terminals,
            Nonterminals, EPSILON, AtomStarts, Quantifiers, Endings
<1>1. CASE production = "REGEX_END"
  <2>1. /\ HeadOf[production] = "Regex"
        /\ Productions[production] = <<"END">>
        /\ next \in {"END"}
    BY <1>1 DEF HeadOf, FirstOf, Productions
  <2>2. RowOK("Regex", next, <<"END">>)
    BY <2>1
  <2> QED
    BY <2>1, <2>2
<1>2. CASE production = "REGEX_ALTERNATION_END"
  <2>1. /\ HeadOf[production] = "Regex"
        /\ Productions[production] = <<"Alternation", "END">>
        /\ next \in AtomStarts
    BY <1>2 DEF HeadOf, FirstOf, Productions
  <2>2. RowOK("Regex", next, <<"Alternation", "END">>)
    BY <2>1
  <2> QED
    BY <2>1, <2>2
<1>3. CASE production = "ALTERNATION"
  <2>1. /\ HeadOf[production] = "Alternation"
        /\ Productions[production] = <<"Concatenation", "AlternationTail">>
        /\ next \in AtomStarts
    BY <1>3 DEF HeadOf, FirstOf, Productions
  <2>2. RowOK("Alternation", next, <<"Concatenation", "AlternationTail">>)
    BY <2>1
  <2> QED
    BY <2>1, <2>2
<1>4. CASE production = "ALTERNATION_TAIL_PIPE"
  <2>1. /\ HeadOf[production] = "AlternationTail"
        /\ Productions[production]
           = <<"PIPE", "Concatenation", "AlternationTail">>
        /\ next \in {"PIPE"}
    BY <1>4 DEF HeadOf, FirstOf, Productions
  <2>2. RowOK("AlternationTail", next,
              <<"PIPE", "Concatenation", "AlternationTail">>)
    BY <2>1
  <2> QED
    BY <2>1, <2>2
<1>5. CASE production = "ALTERNATION_TAIL_EMPTY"
  <2>1. /\ HeadOf[production] = "AlternationTail"
        /\ Productions[production] = <<"epsilon">>
        /\ next \in {"RPAREN", "END"}
    BY <1>5 DEF HeadOf, FirstOf, Productions
  <2>2. RowOK("AlternationTail", next, <<"epsilon">>)
    BY <2>1
  <2> QED
    BY <2>1, <2>2
<1>6. CASE production = "CONCATENATION"
  <2>1. /\ HeadOf[production] = "Concatenation"
        /\ Productions[production] = <<"Repetition", "ConcatenationTail">>
        /\ next \in AtomStarts
    BY <1>6 DEF HeadOf, FirstOf, Productions
  <2>2. RowOK("Concatenation", next, <<"Repetition", "ConcatenationTail">>)
    BY <2>1
  <2> QED
    BY <2>1, <2>2
<1>7. CASE production = "CONCATENATION_TAIL_REPETITION"
  <2>1. /\ HeadOf[production] = "ConcatenationTail"
        /\ Productions[production] = <<"Repetition", "ConcatenationTail">>
        /\ next \in AtomStarts
    BY <1>7 DEF HeadOf, FirstOf, Productions
  <2>2. RowOK("ConcatenationTail", next, <<"Repetition", "ConcatenationTail">>)
    BY <2>1
  <2> QED
    BY <2>1, <2>2
<1>8. CASE production = "CONCATENATION_TAIL_EMPTY"
  <2>1. /\ HeadOf[production] = "ConcatenationTail"
        /\ Productions[production] = <<"epsilon">>
        /\ next \in Endings
    BY <1>8 DEF HeadOf, FirstOf, Productions
  <2>2. RowOK("ConcatenationTail", next, <<"epsilon">>)
    BY <2>1
  <2> QED
    BY <2>1, <2>2
<1>9. CASE production = "REPETITION"
  <2>1. /\ HeadOf[production] = "Repetition"
        /\ Productions[production] = <<"Atom", "Quantifier">>
        /\ next \in AtomStarts
    BY <1>9 DEF HeadOf, FirstOf, Productions
  <2>2. RowOK("Repetition", next, <<"Atom", "Quantifier">>)
    BY <2>1
  <2> QED
    BY <2>1, <2>2
<1>10. CASE production = "QUANTIFIER_STAR"
  <2>1. /\ HeadOf[production] = "Quantifier"
        /\ Productions[production] = <<"STAR">>
        /\ next \in {"STAR"}
    BY <1>10 DEF HeadOf, FirstOf, Productions
  <2>2. RowOK("Quantifier", next, <<"STAR">>)
    BY <2>1
  <2> QED
    BY <2>1, <2>2
<1>11. CASE production = "QUANTIFIER_PLUS"
  <2>1. /\ HeadOf[production] = "Quantifier"
        /\ Productions[production] = <<"PLUS">>
        /\ next \in {"PLUS"}
    BY <1>11 DEF HeadOf, FirstOf, Productions
  <2>2. RowOK("Quantifier", next, <<"PLUS">>)
    BY <2>1
  <2> QED
    BY <2>1, <2>2
<1>12. CASE production = "QUANTIFIER_QUESTION"
  <2>1. /\ HeadOf[production] = "Quantifier"
        /\ Productions[production] = <<"QUESTION">>
        /\ next \in {"QUESTION"}
    BY <1>12 DEF HeadOf, FirstOf, Productions
  <2>2. RowOK("Quantifier", next, <<"QUESTION">>)
    BY <2>1
  <2> QED
    BY <2>1, <2>2
<1>13. CASE production = "QUANTIFIER_EMPTY"
  <2>1. /\ HeadOf[production] = "Quantifier"
        /\ Productions[production] = <<"epsilon">>
        /\ next \in AtomStarts \cup Endings
    BY <1>13 DEF HeadOf, FirstOf, Productions
  <2>2. RowOK("Quantifier", next, <<"epsilon">>)
    BY <2>1
  <2> QED
    BY <2>1, <2>2
<1>14. CASE production = "ATOM_LITERAL"
  <2>1. /\ HeadOf[production] = "Atom"
        /\ Productions[production] = <<"LITERAL">>
        /\ next \in {"LITERAL"}
    BY <1>14 DEF HeadOf, FirstOf, Productions
  <2>2. RowOK("Atom", next, <<"LITERAL">>)
    BY <2>1
  <2> QED
    BY <2>1, <2>2
<1>15. CASE production = "ATOM_DOT"
  <2>1. /\ HeadOf[production] = "Atom"
        /\ Productions[production] = <<"DOT">>
        /\ next \in {"DOT"}
    BY <1>15 DEF HeadOf, FirstOf, Productions
  <2>2. RowOK("Atom", next, <<"DOT">>)
    BY <2>1
  <2> QED
    BY <2>1, <2>2
<1>16. CASE production = "ATOM_CLASS"
  <2>1. /\ HeadOf[production] = "Atom"
        /\ Productions[production] = <<"CLASS">>
        /\ next \in {"CLASS"}
    BY <1>16 DEF HeadOf, FirstOf, Productions
  <2>2. RowOK("Atom", next, <<"CLASS">>)
    BY <2>1
  <2> QED
    BY <2>1, <2>2
<1>17. CASE production = "ATOM_CARET"
  <2>1. /\ HeadOf[production] = "Atom"
        /\ Productions[production] = <<"CARET">>
        /\ next \in {"CARET"}
    BY <1>17 DEF HeadOf, FirstOf, Productions
  <2>2. RowOK("Atom", next, <<"CARET">>)
    BY <2>1
  <2> QED
    BY <2>1, <2>2
<1>18. CASE production = "ATOM_DOLLAR"
  <2>1. /\ HeadOf[production] = "Atom"
        /\ Productions[production] = <<"DOLLAR">>
        /\ next \in {"DOLLAR"}
    BY <1>18 DEF HeadOf, FirstOf, Productions
  <2>2. RowOK("Atom", next, <<"DOLLAR">>)
    BY <2>1
  <2> QED
    BY <2>1, <2>2
<1>19. CASE production = "ATOM_GROUP"
  <2>1. /\ HeadOf[production] = "Atom"
        /\ Productions[production] = <<"LPAREN", "Alternation", "RPAREN">>
        /\ next \in {"LPAREN"}
    BY <1>19 DEF HeadOf, FirstOf, Productions
  <2>2. RowOK("Atom", next, <<"LPAREN", "Alternation", "RPAREN">>)
    BY <2>1
  <2> QED
    BY <2>1, <2>2
<1>20. production \in {
          "REGEX_END", "REGEX_ALTERNATION_END", "ALTERNATION",
          "ALTERNATION_TAIL_PIPE", "ALTERNATION_TAIL_EMPTY", "CONCATENATION",
          "CONCATENATION_TAIL_REPETITION", "CONCATENATION_TAIL_EMPTY",
          "REPETITION", "QUANTIFIER_STAR", "QUANTIFIER_PLUS",
          "QUANTIFIER_QUESTION", "QUANTIFIER_EMPTY", "ATOM_LITERAL",
          "ATOM_DOT", "ATOM_CLASS", "ATOM_CARET", "ATOM_DOLLAR",
          "ATOM_GROUP"}
  BY ONLY production \in DOMAIN Productions, Zenon DEF Productions
<1> HIDE DEF RowOK
<1> QED
  BY ONLY <1>1, <1>2, <1>3, <1>4, <1>5, <1>6, <1>7, <1>8, <1>9, <1>10, <1>11,
          <1>12, <1>13, <1>14, <1>15, <1>16, <1>17, <1>18, <1>19, <1>20
-----------------------------------------------------------------------------
(* The invariant.                                                          *)

\* Children are younger than their parents, and every node but the root is
\* the child of one node, in one place.
TreeOK(tr) ==
    /\ tr \in Seq(ParseTreeNode) /\ tr # <<>>
    /\ \A p \in DOMAIN tr :
          /\ Len(tr[p].children) <= 3
          /\ \A i \in DOMAIN tr[p].children :
                tr[p].children[i] \in {NO_NODE} \cup p + 1 .. Len(tr)
    /\ \A p \in DOMAIN tr, q \in DOMAIN tr :
          \A i \in DOMAIN tr[p].children, j \in DOMAIN tr[q].children :
              tr[p].children[i] = tr[q].children[j]
                => tr[p].children[i] = NO_NODE \/ (p = q /\ i = j)
    /\ \A n \in 2 .. Len(tr) :
          \E p \in DOMAIN tr : \E i \in DOMAIN tr[p].children :
              tr[p].children[i] = n

\* A node is expanded whole, by a row of the table for its symbol, or not at
\* all.
ExpandedOK(tr) ==
    \A n \in DOMAIN tr :
        IF tr[n].production = NONE THEN tr[n].children = <<>>
        ELSE /\ tr[n].symbol = HeadOf[tr[n].production]
             /\ Len(tr[n].children) = Len(Productions[tr[n].production])
             /\ \A i \in DOMAIN tr[n].children :
                   /\ tr[n].children[i] # NO_NODE
                   /\ tr[tr[n].children[i]].symbol =
                        Productions[tr[n].production][i]

\* A node with a token is of the token's kind.
TokensOK(tr) ==
    \A n \in DOMAIN tr : tr[n].token # 0 =>
        tr[n].token <= read /\ tokens[tr[n].token].terminal = tr[n].symbol

\* The stack holds what is neither expanded nor matched.
PendingOK(tr, st) ==
    /\ \A i \in DOMAIN st, j \in DOMAIN st : st[i] = st[j] => i = j
    /\ \A i \in DOMAIN st : /\ tr[st[i]].symbol # EPSILON
                            /\ tr[st[i]].production = NONE
                            /\ tr[st[i]].token = 0
    /\ \A n \in DOMAIN tr :
          \/ tr[n].symbol = EPSILON
          \/ tr[n].production # NONE \/ tr[n].token # 0
          \/ \E i \in DOMAIN st : st[i] = n

\* Adjacent symbols of the stack fit.
OrderOK(tr, st) ==
    \A i \in DOMAIN st :
        IF i = 1 THEN tr[st[i]].symbol \in Bottom
        ELSE tr[st[i - 1]].symbol \in Below(tr[st[i]].symbol)

\* What the nodes of the stack up to each one may cost, and that the nodes
\* there are and may be are paid for.
CostOK(tr, st, budget) ==
    \E costs \in [0 .. Len(st) -> Int] :
        /\ costs[0] = 0
        /\ \A i \in DOMAIN st :
              /\ costs[i] = costs[i - 1] + Cost(tr[st[i]].symbol)
              /\ costs[i] >= Least(tr[st[i]].symbol)
        /\ Len(tr) + costs[Len(st)] <= budget

\* The leaves `at`: those that are matched and then the stack; and that the
\* leaves below a node n are those behind the first from[n], up to to[n].
SpansOK(tr, st, matched, at, from, to) ==
    /\ Len(at) = matched + Len(st)
    /\ \A k \in 1 .. matched : at[k] \in DOMAIN tr /\ tr[at[k]].token = k
    /\ \A k \in matched + 1 .. Len(at) : at[k] = st[Len(at) + 1 - k]
    /\ from[ROOT] = 0 /\ to[ROOT] = Len(at)
    /\ \A n \in DOMAIN tr :
          LET children == tr[n].children
          IN  /\ from[n] <= to[n] /\ to[n] <= Len(at)
              /\ children = <<>> =>
                    IF tr[n].symbol = EPSILON THEN to[n] = from[n]
                    ELSE to[n] = from[n] + 1 /\ at[to[n]] = n
              /\ children # <<>> =>
                    /\ from[children[1]] = from[n]
                    /\ to[children[Len(children)]] = to[n]
                    /\ \A i \in 1 .. Len(children) - 1 :
                          from[children[i + 1]] = to[children[i]]

FrontierOK(tr, st, matched) ==
    \E at \in Seq(Nat), from \in [DOMAIN tr -> Nat],
       to \in [DOMAIN tr -> Nat] : SpansOK(tr, st, matched, at, from, to)

PhaseOK ==
    /\ pc = "create" => /\ tree = <<>> /\ read = 0 /\ live = {}
    /\ pc \in {"begin", "push"} => /\ tree = <<NewNode("Regex")>>
                                   /\ live = {ROOT}
    /\ pc \in {"create", "begin", "push"} => stack = <<>> /\ capacity = 0
    /\ pc = "begin" => read = 0
    /\ pc = "push" => read = 1
    /\ pc \in {"push", "loop"} => /\ read \in DOMAIN tokens
                                  /\ Current \in Terminals
    /\ pc \notin {"fail", "done"} => error = NoError
    /\ pc \in {"loop", "fail"} => live = DOMAIN tree
    /\ pc = "fail" => error # NoError
    /\ pc = "done" => /\ stack = <<>>
                      /\ live = IF error = NoError THEN DOMAIN tree ELSE {}

LoopOK ==
    /\ tree # <<>> /\ ExpandedOK(tree) /\ PendingOK(tree, stack)
    /\ FrontierOK(tree, stack, IF stack = <<>> THEN read ELSE read - 1)
    /\ OrderOK(tree, stack)
    /\ CostOK(tree, stack, 9 * read - 5)
    /\ stack # <<>> => Current \in Fitting(tree[Top].symbol)

IInv ==
    /\ TypeOK
    /\ tokens \in Inputs
    /\ PhaseOK
    /\ tree # <<>> => TreeOK(tree) /\ tree[ROOT].symbol = "Regex"
    /\ TokensOK(tree)
    /\ WorkIsLinear
    /\ pc = "loop" \/ (pc = "done" /\ error = NoError) => LoopOK
-----------------------------------------------------------------------------
(* Trees.                                                                  *)

\* parse_tree_node_create returns an empty node.
LEMMA NewNodeType ==
    ASSUME NEW symbol \in Symbols
    PROVE  /\ NewNode(symbol) \in ParseTreeNode
           /\ NewNode(symbol).symbol = symbol
           /\ NewNode(symbol).production = NONE
           /\ NewNode(symbol).children = <<>>
           /\ NewNode(symbol).token = 0
BY DEF NewNode, ParseTreeNode, Symbols

\* The tree with children for `top`, of which `created` exist.
With(tr, top, production, symbols, created) ==
    [[tr EXCEPT ![top].children =
          [i \in DOMAIN symbols |->
              IF i <= created THEN Len(tr) + i ELSE NO_NODE]]
     \o [i \in 1 .. created |-> NewNode(symbols[i])]
        EXCEPT ![top].production = production]

\* What it is.
Grows(new, tr, top, production, symbols, created) ==
    /\ new \in Seq(ParseTreeNode) /\ Len(new) = Len(tr) + created
    /\ DOMAIN new = 1 .. Len(tr) + created
    /\ \A n \in DOMAIN tr : n # top => new[n] = tr[n]
    /\ new[top].symbol = tr[top].symbol
    /\ new[top].token = tr[top].token
    /\ new[top].production = production
    /\ DOMAIN new[top].children = 1 .. Len(symbols)
    /\ Len(new[top].children) = Len(symbols)
    /\ \A i \in 1 .. Len(symbols) :
          new[top].children[i] = IF i <= created THEN Len(tr) + i ELSE NO_NODE
    /\ \A i \in 1 .. created : new[Len(tr) + i] = NewNode(symbols[i])

\* Expanding a node changes that node and appends its children.
LEMMA WithFacts ==
    ASSUME NEW tr \in Seq(ParseTreeNode), NEW top \in DOMAIN tr,
           NEW production \in DOMAIN Productions,
           NEW symbols \in Seq(Symbols),
           NEW created \in 0 .. Len(symbols)
    PROVE  Grows(With(tr, top, production, symbols, created),
                 tr, top, production, symbols, created)
<1> DEFINE new == With(tr, top, production, symbols, created)
<1> DEFINE children == [i \in DOMAIN symbols |->
                           IF i <= created THEN Len(tr) + i ELSE NO_NODE]
           changed == [tr EXCEPT ![top].children = children]
           added == [i \in 1 .. created |-> NewNode(symbols[i])]
           joined == changed \o added
<1>1. /\ DOMAIN tr = 1 .. Len(tr) /\ Len(tr) \in Nat
      /\ DOMAIN symbols = 1 .. Len(symbols) /\ Len(symbols) \in Nat
      /\ \A i \in 1 .. Len(symbols) : symbols[i] \in Symbols
      /\ tr[top] \in ParseTreeNode
  OBVIOUS
<1>2. children \in Seq(Nat)
  BY <1>1 DEF NO_NODE
<1>3. /\ changed \in Seq(ParseTreeNode) /\ Len(changed) = Len(tr)
      /\ \A n \in DOMAIN tr : n # top => changed[n] = tr[n]
      /\ changed[top] = [tr[top] EXCEPT !.children = children]
  <2>1. [tr[top] EXCEPT !.children = children] \in ParseTreeNode
    BY <1>1, <1>2 DEF ParseTreeNode
  <2> QED
    BY <1>1, <2>1
<1>4. /\ added \in Seq(ParseTreeNode) /\ Len(added) = created
      /\ \A i \in 1 .. created : added[i] = NewNode(symbols[i])
  BY <1>1, NewNodeType
<1> HIDE DEF changed, added
<1>5. /\ joined \in Seq(ParseTreeNode) /\ Len(joined) = Len(tr) + created
      /\ DOMAIN joined = 1 .. Len(tr) + created
      /\ \A n \in DOMAIN tr : joined[n] = changed[n]
      /\ \A i \in 1 .. created : joined[Len(tr) + i] = added[i]
  <2>1. /\ joined \in Seq(ParseTreeNode)
        /\ Len(joined) = Len(changed) + Len(added)
        /\ \A i \in 1 .. Len(changed) + Len(added) :
              joined[i] = IF i <= Len(changed) THEN changed[i]
                          ELSE added[i - Len(changed)]
    <3>1. changed \in Seq(ParseTreeNode) /\ added \in Seq(ParseTreeNode)
      BY <1>3, <1>4
    <3> QED
      BY <3>1, ConcatProperties
  <2> QED
    BY <2>1, <1>1, <1>3, <1>4, SMTT(30)
<1>6. new = [joined EXCEPT ![top].production = production]
  BY DEF With, changed, added
<1> HIDE DEF joined, new
<1>7. [joined[top] EXCEPT !.production = production] \in ParseTreeNode
  <2>1. joined[top] \in ParseTreeNode
    BY <1>1, <1>5
  <2> QED
    BY <2>1 DEF ParseTreeNode
<1>8. /\ new \in Seq(ParseTreeNode) /\ Len(new) = Len(tr) + created
      /\ DOMAIN new = 1 .. Len(tr) + created
      /\ \A n \in DOMAIN joined : n # top => new[n] = joined[n]
      /\ new[top] = [joined[top] EXCEPT !.production = production]
  BY <1>1, <1>5, <1>6, <1>7
<1>9. joined[top] = [tr[top] EXCEPT !.children = children]
  BY <1>1, <1>3, <1>5
<1>10. new[top] = [[tr[top] EXCEPT !.children = children]
                       EXCEPT !.production = production]
  BY <1>8, <1>9
<1>11. /\ new[top].symbol = tr[top].symbol /\ new[top].token = tr[top].token
       /\ new[top].production = production
       /\ new[top].children = children
  BY <1>10, <1>1 DEF ParseTreeNode
<1>12. \A n \in DOMAIN tr : n # top => new[n] = tr[n]
  BY <1>1, <1>3, <1>5, <1>8
<1>13. \A i \in 1 .. created : new[Len(tr) + i] = NewNode(symbols[i])
  <2> TAKE i \in 1 .. created
  <2>1. Len(tr) + i \in DOMAIN joined /\ Len(tr) + i # top
    BY <1>1, <1>5
  <2> QED
    BY <2>1, <1>4, <1>5, <1>8
<1> QED
  BY <1>1, <1>8, <1>11, <1>12, <1>13 DEF new, Grows

\* parser_expand_node keeps the tree a tree, wherever it stops.
LEMMA GrownIsTree ==
    ASSUME NEW tr, TreeOK(tr), NEW top \in DOMAIN tr,
           tr[top].children = <<>>,
           NEW production, NEW symbols \in Seq(Symbols), Len(symbols) <= 3,
           NEW created \in 0 .. Len(symbols),
           NEW new, Grows(new, tr, top, production, symbols, created)
    PROVE  TreeOK(new)
<1>1. /\ tr \in Seq(ParseTreeNode) /\ DOMAIN tr = 1 .. Len(tr)
      /\ Len(tr) \in Nat \ {0}
      /\ DOMAIN symbols = 1 .. Len(symbols) /\ Len(symbols) \in Nat
      /\ \A i \in 1 .. Len(symbols) : symbols[i] \in Symbols
  BY DEF TreeOK
<1>2. /\ new \in Seq(ParseTreeNode) /\ Len(new) = Len(tr) + created
      /\ DOMAIN new = 1 .. Len(tr) + created
      /\ \A n \in DOMAIN tr : n # top => new[n] = tr[n]
      /\ DOMAIN new[top].children = 1 .. Len(symbols)
      /\ Len(new[top].children) = Len(symbols)
      /\ \A i \in 1 .. Len(symbols) :
            new[top].children[i] =
                IF i <= created THEN Len(tr) + i ELSE NO_NODE
      /\ \A i \in 1 .. created : new[Len(tr) + i] = NewNode(symbols[i])
  BY DEF Grows
<1>3. \A n \in DOMAIN new :
         \/ n \in DOMAIN tr /\ n # top /\ new[n].children = tr[n].children
         \/ n = top
         \/ n \notin DOMAIN tr /\ new[n].children = <<>>
  <2> TAKE n \in DOMAIN new
  <2>1. CASE n \in DOMAIN tr
    BY <2>1, <1>2
  <2>2. CASE n \notin DOMAIN tr
    <3>1. n - Len(tr) \in 1 .. created /\ n = Len(tr) + (n - Len(tr))
      <4>1. n \in 1 .. Len(tr) + created /\ n \notin 1 .. Len(tr)
        BY <2>2, <1>1, <1>2
      <4> QED
        BY ONLY <4>1, Len(tr) \in Nat \ {0}, created \in Nat, <1>1
    <3>2. new[n] = NewNode(symbols[n - Len(tr)])
      BY <3>1, <1>2
    <3>3. symbols[n - Len(tr)] \in Symbols
      BY <3>1, <1>1
    <3> QED
      BY <2>2, <3>2, <3>3, NewNodeType
  <2> QED
    BY <2>1, <2>2
<1>4. \A p \in DOMAIN new : \A i \in DOMAIN new[p].children :
         \/ /\ p \in DOMAIN tr /\ p # top /\ i \in DOMAIN tr[p].children
            /\ new[p].children[i] = tr[p].children[i]
         \/ /\ p = top /\ i \in 1 .. Len(symbols)
            /\ new[p].children[i] =
                 IF i <= created THEN Len(tr) + i ELSE NO_NODE
  BY <1>2, <1>3
<1>5. \A p \in DOMAIN tr : \A i \in DOMAIN tr[p].children :
         /\ p # top
         /\ tr[p].children[i] \in {NO_NODE} \cup p + 1 .. Len(tr)
         /\ p \in DOMAIN new /\ i \in DOMAIN new[p].children
         /\ new[p].children[i] = tr[p].children[i]
  BY <1>1, <1>2 DEF TreeOK
<1>6. \A p \in DOMAIN new :
         /\ Len(new[p].children) <= 3
         /\ \A i \in DOMAIN new[p].children :
               new[p].children[i] \in {NO_NODE} \cup p + 1 .. Len(new)
  <2> TAKE p \in DOMAIN new
  <2>1. Len(new[p].children) <= 3
    BY <1>1, <1>2, <1>3 DEF TreeOK
  <2>2. ASSUME NEW i \in DOMAIN new[p].children
        PROVE  new[p].children[i] \in {NO_NODE} \cup p + 1 .. Len(new)
    BY <1>1, <1>2, <1>4, <1>5, SMTT(30) DEF NO_NODE
  <2> QED
    BY <2>1, <2>2
<1>7. ASSUME NEW p \in DOMAIN new, NEW q \in DOMAIN new,
             NEW i \in DOMAIN new[p].children,
             NEW j \in DOMAIN new[q].children,
             new[p].children[i] = new[q].children[j],
             new[p].children[i] # NO_NODE
      PROVE  p = q /\ i = j
  <2>1. CASE p # top /\ q # top
    BY <2>1, <1>4, <1>7, SMTT(30) DEF TreeOK
  <2>2. CASE p = top /\ q = top
    BY <2>2, <1>1, <1>4, <1>7 DEF NO_NODE
  <2>3. CASE p = top /\ q # top
    BY <2>3, <1>1, <1>4, <1>5, <1>7 DEF NO_NODE
  <2>4. CASE p # top /\ q = top
    BY <2>4, <1>1, <1>4, <1>5, <1>7 DEF NO_NODE
  <2> QED
    BY <2>1, <2>2, <2>3, <2>4
<1>8. ASSUME NEW n \in 2 .. Len(new)
      PROVE  \E p \in DOMAIN new : \E i \in DOMAIN new[p].children :
                new[p].children[i] = n
  <2>1. CASE n \in 2 .. Len(tr)
    <3>1. PICK p \in DOMAIN tr : \E i \in DOMAIN tr[p].children :
                                    tr[p].children[i] = n
      BY <2>1 DEF TreeOK
    <3> QED
      BY <3>1, <1>5, SMTT(30)
  <2>2. CASE n \notin 2 .. Len(tr)
    <3>1. /\ n - Len(tr) \in 1 .. created /\ n - Len(tr) \in 1 .. Len(symbols)
          /\ n = Len(tr) + (n - Len(tr))
      BY <2>2, <1>1, <1>2
    <3>2. top \in DOMAIN new /\ n - Len(tr) \in DOMAIN new[top].children
          /\ new[top].children[n - Len(tr)] = n
      BY <3>1, <1>1, <1>2
    <3> QED
      BY <3>2
  <2> QED
    BY <2>1, <2>2
<1>9. new # <<>>
  BY <1>1, <1>2
<1>10. \A p \in DOMAIN new, q \in DOMAIN new :
          \A i \in DOMAIN new[p].children, j \in DOMAIN new[q].children :
              new[p].children[i] = new[q].children[j]
                => new[p].children[i] = NO_NODE \/ (p = q /\ i = j)
  BY <1>7
<1>11. \A n \in 2 .. Len(new) :
          \E p \in DOMAIN new : \E i \in DOMAIN new[p].children :
              new[p].children[i] = n
  BY <1>8
<1>12. new \in Seq(ParseTreeNode) /\ new # <<>>
  BY <1>2, <1>9
<1> QED
  BY ONLY <1>6, <1>10, <1>11, <1>12 DEF TreeOK
-----------------------------------------------------------------------------
(* Induction and recursion, over sets and functions.                       *)

\* A set of numbers that is not empty has a least one.
LEMMA LeastNatural ==
    ASSUME NEW S \in SUBSET Nat, S # {}
    PROVE  \E n \in S : \A m \in S : n <= m
<1> DEFINE Less == {pair \in Nat \X Nat : pair[1] < pair[2]}
<1>1. IsWellFoundedOn(Less, Nat)
  BY NatLessThanWellFounded DEF OpToRel
<1>2. PICK n \in S : \A m \in S : ~ (<<m, n>> \in Less)
  <2> HIDE DEF Less
  <2> QED
    BY <1>1, WFMin
<1>3. ASSUME NEW m \in S PROVE n <= m
  <2>1. <<m, n>> \in Nat \X Nat /\ <<m, n>>[1] = m /\ <<m, n>>[2] = n
    OBVIOUS
  <2> QED
    BY <1>2, <2>1
<1> QED
  BY <1>3

\* Counting up: what holds of 0 and is passed on holds of all up to N.
LEMMA Upwards ==
    ASSUME NEW N \in Nat, NEW G, 0 \in G,
           \A n \in 1 .. N : n - 1 \in G => n \in G
    PROVE  0 .. N \subseteq G
<1> DEFINE Bad == {n \in 0 .. N : n \notin G}
<1>1. SUFFICES ASSUME Bad # {} PROVE FALSE
  OBVIOUS
<1>2. PICK n \in Bad : \A m \in Bad : n <= m
  <2>1. Bad \in SUBSET Nat
    OBVIOUS
  <2> HIDE DEF Bad
  <2> QED
    BY <1>1, <2>1, LeastNatural
<1>3. n \in 1 .. N /\ n - 1 \in 0 .. N /\ n \notin G
  BY <1>2
<1>4. n - 1 \in G
  BY <1>2, <1>3
<1> QED
  BY <1>3, <1>4

\* Counting down: what follows from all greater numbers holds of all.
LEMMA Downwards ==
    ASSUME NEW N \in Nat, NEW G,
           \A n \in 1 .. N : n + 1 .. N \subseteq G => n \in G
    PROVE  1 .. N \subseteq G
<1> DEFINE Far == {k \in 0 .. N : N - k + 1 .. N \subseteq G}
<1>1. 0 \in Far
  OBVIOUS
<1>2. ASSUME NEW k \in 1 .. N, k - 1 \in Far PROVE k \in Far
  <2>1. /\ N - k + 1 \in 1 .. N /\ N - (k - 1) + 1 = (N - k + 1) + 1
        /\ N - k + 1 .. N = {N - k + 1} \cup (N - k + 1) + 1 .. N
    OBVIOUS
  <2>2. (N - k + 1) + 1 .. N \subseteq G
    BY <1>2, <2>1
  <2>3. N - k + 1 \in G
    BY <2>1, <2>2
  <2> QED
    BY <2>1, <2>2, <2>3
<1>3. 0 .. N \subseteq Far
  <2> HIDE DEF Far
  <2> QED
    BY <1>1, <1>2, Upwards
<1>4. N \in Far
  BY <1>3
<1> QED
  BY <1>4

\* A function whose values follow from the ones before.
StepsUp(step, N, S) == step \in [1 .. N -> [S -> S]]

\* A recursive function over 0 .. N whose value follows from the one before
\* exists.
LEMMA UpwardFunction ==
    ASSUME NEW N \in Nat, NEW S, NEW first \in S,
           NEW step, StepsUp(step, N, S)
    PROVE  \E f \in [0 .. N -> S] :
              /\ f[0] = first
              /\ \A n \in 1 .. N : f[n] = step[n][f[n - 1]]
<1> USE DEF StepsUp
<1> DEFINE G == {k \in 0 .. N :
                   \E f \in [0 .. N -> S] :
                      /\ f[0] = first
                      /\ \A n \in 1 .. k : f[n] = step[n][f[n - 1]]}
<1>1. 0 \in G
  <2>1. [n \in 0 .. N |-> first] \in [0 .. N -> S]
        /\ [n \in 0 .. N |-> first][0] = first
    OBVIOUS
  <2>2. 0 \in 0 .. N /\ 1 .. 0 = {}
    OBVIOUS
  <2> DEFINE f == [n \in 0 .. N |-> first]
  <2>3. \A n \in 1 .. 0 : f[n] = step[n][f[n - 1]]
    BY <2>2
  <2> HIDE DEF f
  <2>4. \E g \in [0 .. N -> S] :
           g[0] = first /\ \A n \in 1 .. 0 : g[n] = step[n][g[n - 1]]
    BY <2>1, <2>3 DEF f
  <2> QED
    BY <2>2, <2>4
<1>2. ASSUME NEW k \in 1 .. N, k - 1 \in G PROVE k \in G
  <2>1. PICK f \in [0 .. N -> S] :
              /\ f[0] = first
              /\ \A n \in 1 .. k - 1 : f[n] = step[n][f[n - 1]]
    BY <1>2
  <2> DEFINE g == [f EXCEPT ![k] = step[k][f[k - 1]]]
  <2>2. k - 1 \in 0 .. N /\ k \in 0 .. N /\ f[k - 1] \in S
    OBVIOUS
  <2>3. g \in [0 .. N -> S] /\ g[k] = step[k][f[k - 1]]
        /\ \A n \in 0 .. N : n # k => g[n] = f[n]
    BY <2>2
  <2> HIDE DEF g
  <2>4. g[0] = first
    BY <2>1, <2>3
  <2>5. ASSUME NEW n \in 1 .. k PROVE g[n] = step[n][g[n - 1]]
    <3>1. g[n - 1] = f[n - 1]
      BY <2>3
    <3>2. CASE n = k
      BY <3>1, <3>2, <2>3
    <3>3. CASE n # k
      BY <3>1, <3>3, <2>1, <2>3
    <3> QED
      BY <3>2, <3>3
  <2> QED
    BY <2>3, <2>4, <2>5
<1>3. N \in G
  <2> HIDE DEF G
  <2>1. 0 .. N \subseteq G
    BY <1>1, <1>2, Upwards
  <2> QED
    BY <2>1
<1> QED
  BY <1>3

\* A function whose values follow from the ones behind.
StepsDown(step, N, V) ==
    /\ V # {}
    /\ step \in [1 .. N -> [[1 .. N -> V] -> V]]
    /\ \A n \in 1 .. N : \A g \in [1 .. N -> V], h \in [1 .. N -> V] :
          (\A m \in n + 1 .. N : g[m] = h[m]) => step[n][g] = step[n][h]

\* A recursive function over 1 .. N whose value follows from the ones behind
\* exists.
LEMMA DownwardFunction ==
    ASSUME NEW N \in Nat, NEW V, NEW step, StepsDown(step, N, V)
    PROVE  \E f \in [1 .. N -> V] : \A n \in 1 .. N : f[n] = step[n][f]
<1> USE DEF StepsDown
<1> DEFINE G == {k \in 0 .. N :
                   \E f \in [1 .. N -> V] :
                      \A n \in N - k + 1 .. N : f[n] = step[n][f]}
<1>1. 0 \in G
  <2>1. PICK v \in V : TRUE
    OBVIOUS
  <2>2. [n \in 1 .. N |-> v] \in [1 .. N -> V]
    OBVIOUS
  <2>3. N - 0 + 1 .. N = {} /\ 0 \in 0 .. N
    OBVIOUS
  <2>4. \E f \in [1 .. N -> V] :
           \A n \in N - 0 + 1 .. N : f[n] = step[n][f]
    BY <2>2, <2>3
  <2> QED
    BY <2>3, <2>4
<1>2. ASSUME NEW k \in 1 .. N, k - 1 \in G PROVE k \in G
  <2> DEFINE c == N - k + 1
  <2>1. PICK f \in [1 .. N -> V] :
              \A n \in N - (k - 1) + 1 .. N : f[n] = step[n][f]
    BY <1>2
  <2>2. /\ c \in 1 .. N /\ \A n \in c .. N : n = c \/ n \in c + 1 .. N
        /\ N - (k - 1) + 1 = c + 1
    OBVIOUS
  <2> HIDE DEF c
  <2> DEFINE g == [f EXCEPT ![c] = step[c][f]]
  <2>3. step[c][f] \in V
    BY <2>2
  <2>4. g \in [1 .. N -> V] /\ g[c] = step[c][f]
        /\ \A n \in 1 .. N : n # c => g[n] = f[n]
    BY <2>2, <2>3
  <2> HIDE DEF g
  <2>5. ASSUME NEW n \in c .. N PROVE g[n] = step[n][g]
    <3>1. n \in 1 .. N /\ \A m \in n + 1 .. N : g[m] = f[m]
      BY <2>2, <2>4
    <3>2. step[n][g] = step[n][f]
      BY <3>1, <2>4
    <3>3. CASE n = c
      BY <3>2, <3>3, <2>4
    <3>4. CASE n # c
      BY <3>1, <3>2, <3>4, <2>1, <2>2, <2>4
    <3> QED
      BY <3>3, <3>4
  <2> QED
    BY <2>4, <2>5, SMTT(30) DEF c
<1>3. N \in G
  <2> HIDE DEF G
  <2>1. 0 .. N \subseteq G
    BY <1>1, <1>2, Upwards
  <2> QED
    BY <2>1
<1> QED
  BY <1>3
-----------------------------------------------------------------------------
(* Whom parse_tree_free reaches.                                           *)

\* parse_tree_free, called on the root, reaches every node of the tree.
LEMMA AllAreReached ==
    ASSUME TreeOK(tree) PROVE DOMAIN tree \subseteq Reached
<1> DEFINE N == Len(tree)
           Via(n, found) ==
              IF n \in found THEN found \cup ToSet(tree[n].children)
                            ELSE found
           By == CHOOSE by : by = [n \in 0 .. N |->
                                      IF n = 0 THEN {ROOT}
                                      ELSE Via(n, by[n - 1])]
           step == [n \in 1 .. N |-> [found \in SUBSET Nat |-> Via(n, found)]]
<1>1. N \in Nat \ {0} /\ DOMAIN tree = 1 .. N /\ tree \in Seq(ParseTreeNode)
  BY DEF TreeOK
<1>2. Reached = By[N]
  BY DEF Reached
<1>3. \A n \in 1 .. N : \A found \in SUBSET Nat : Via(n, found) \in SUBSET Nat
  <2> TAKE n \in 1 .. N
  <2> TAKE found \in SUBSET Nat
  <2>1. tree[n] \in ParseTreeNode
    BY <1>1
  <2>2. ToSet(tree[n].children) \in SUBSET Nat
    BY <2>1 DEF ToSet, ParseTreeNode
  <2> QED
    BY <2>2
<1> HIDE DEF N, Via
<1>4. step \in [1 .. N -> [SUBSET Nat -> SUBSET Nat]]
  BY <1>3
<1>5. \A n \in 1 .. N : \A found \in SUBSET Nat :
         step[n][found] = Via(n, found)
  OBVIOUS
<1> HIDE DEF step
<1>6. \E by \in [0 .. N -> SUBSET Nat] :
         by = [n \in 0 .. N |-> IF n = 0 THEN {ROOT} ELSE Via(n, by[n - 1])]
  <2> DEFINE first == {ROOT}
             S == SUBSET Nat
  <2>1. first \in S /\ N \in Nat /\ StepsUp(step, N, S)
    BY <1>1, <1>4 DEF ROOT, StepsUp
  <2> HIDE DEF first, S
  <2>2. PICK by \in [0 .. N -> S] :
              /\ by[0] = first
              /\ \A n \in 1 .. N : by[n] = step[n][by[n - 1]]
    BY <2>1, UpwardFunction
  <2> USE DEF S
  <2>3. \A n \in 1 .. N : by[n] = Via(n, by[n - 1])
    BY <1>5, <2>1, <2>2
  <2>4. by = [n \in 0 .. N |-> IF n = 0 THEN {ROOT} ELSE Via(n, by[n - 1])]
    BY <2>2, <2>3 DEF first
  <2> QED
    BY <2>4
<1>7. By = [n \in 0 .. N |-> IF n = 0 THEN {ROOT} ELSE Via(n, By[n - 1])]
  BY <1>6
<1> HIDE DEF By
<1>8. /\ By[0] = {ROOT}
      /\ \A n \in 1 .. N : By[n] = Via(n, By[n - 1])
  BY <1>1, <1>7, SMTT(30)
<1>9. \A n \in 1 .. N : /\ By[n - 1] \subseteq By[n]
                        /\ n \in By[n - 1] =>
                              ToSet(tree[n].children) \subseteq By[n]
  BY <1>8 DEF Via
<1> DEFINE G == {n \in 0 .. N : \A j \in 0 .. n :
                   /\ By[j] \subseteq By[n]
                   /\ \A m \in 1 .. N : m <= j + 1 => m \in By[j]}
<1>10. 0 \in G
  BY <1>1, <1>8 DEF ROOT
<1>11. ASSUME NEW n \in 1 .. N, n - 1 \in G PROVE n \in G
  <2>1. \A j \in 0 .. n - 1 : /\ By[j] \subseteq By[n - 1]
                              /\ \A m \in 1 .. N : m <= j + 1 => m \in By[j]
    BY <1>11
  <2>2. n - 1 \in 0 .. n - 1 /\ By[n - 1] \subseteq By[n]
    BY <1>9
  <2>3. \A j \in 0 .. n : By[j] \subseteq By[n]
    <3>1. \A j \in 0 .. n : j = n \/ j \in 0 .. n - 1
      OBVIOUS
    <3> QED
      BY <2>1, <2>2, <3>1
  <2>4. ASSUME NEW m \in 1 .. N, m <= n + 1 PROVE m \in By[n]
    <3>1. CASE m <= n
      BY <3>1, <2>1, <2>2
    <3>2. CASE m = n + 1
      <4>1. m \in 2 .. N
        BY <3>2
      <4>2. PICK p \in DOMAIN tree : \E i \in DOMAIN tree[p].children :
                                        tree[p].children[i] = m
        BY <4>1 DEF TreeOK, N
      <4>3. m \in ToSet(tree[p].children)
        BY <4>2 DEF ToSet
      <4>4. p \in 1 .. n /\ p \in 1 .. N /\ p - 1 \in 0 .. n - 1
        <5>1. m # NO_NODE
          BY DEF NO_NODE
        <5>2. m \in p + 1 .. N
          BY <4>2, <5>1 DEF TreeOK, N
        <5> QED
          BY <1>1, <3>2, <5>2
      <4>5. p \in By[p - 1]
        BY <4>4, <2>1
      <4>6. m \in By[p]
        BY <4>3, <4>4, <4>5, <1>9
      <4> QED
        BY <4>4, <4>6, <2>3
    <3> QED
      BY <3>1, <3>2, <2>4
  <2>5. \A j \in 0 .. n : \A m \in 1 .. N : m <= j + 1 => m \in By[j]
    <3>1. \A j \in 0 .. n : j = n \/ j \in 0 .. n - 1
      OBVIOUS
    <3> QED
      BY <2>1, <2>4, <3>1
  <2> QED
    BY <2>3, <2>5
<1>12. N \in G
  <2> HIDE DEF G
  <2> QED
    BY <1>1, <1>10, <1>11, Upwards, SMTT(30)
<1>13. \A m \in 1 .. N : m \in By[N]
  BY <1>1, <1>12
<1> QED
  BY <1>1, <1>2, <1>13
-----------------------------------------------------------------------------
(* The leaves.                                                             *)

\* A sequence of nodes.
Ids(at) == at \in Seq(Nat)

\* What is between two places.
Part(at, a, b) == SubSeq(at, a + 1, b)

\* Sequences that are parts of one, each behind the one before.
PartsOf(at, k, from, to, parts) ==
    /\ k \in 1 .. 3 /\ DOMAIN parts = 1 .. k /\ Len(parts) = k
    /\ \A i \in 1 .. k : /\ from[i] \in Nat /\ to[i] \in Nat
                         /\ from[i] <= to[i] /\ to[i] <= Len(at)
                         /\ parts[i] = Part(at, from[i], to[i])
    /\ \A i \in 1 .. k - 1 : from[i + 1] = to[i]

\* Adjoining parts of a sequence, flattened, are the part they cover.
LEMMA PartsJoined ==
    ASSUME NEW at, Ids(at), NEW k, NEW from, NEW to, NEW parts,
           PartsOf(at, k, from, to, parts)
    PROVE  FlattenSeq(parts) = Part(at, from[1], to[k])
<1> USE DEF PartsOf
<1> DEFINE Next(i, g) == IF i = 1 THEN parts[i] ELSE g[i - 1] \o parts[i]
           Flat == CHOOSE flatten :
                      flatten = [i \in 1 .. k |-> Next(i, flatten)]
           whole == [i \in 1 .. k |-> Part(at, from[1], to[i])]
<1>1. FlattenSeq(parts) = Flat[k]
  BY DEF FlattenSeq
<1>2. \A i \in 2 .. k : Part(at, from[1], to[i])
                         = Part(at, from[1], to[i - 1]) \o parts[i]
  <2> TAKE i \in 2 .. k
  <2>1. /\ from[1] + 1 \in 1 .. Len(at) + 1
        /\ to[i - 1] \in (from[1] + 1) - 1 .. Len(at)
        /\ to[i] \in to[i - 1] .. Len(at)
        /\ parts[i] = Part(at, to[i - 1], to[i])
    <3>1. /\ from[1] <= to[1] /\ to[1] <= Len(at) /\ from[1] \in Nat
          /\ \A j \in 1 .. k : to[j] \in Nat /\ from[j] \in Nat
          /\ Len(at) \in Nat
      BY DEF Ids
    <3>2. i - 1 \in 1 .. k - 1 /\ (i - 1) + 1 = i /\ i \in 1 .. k
          /\ i - 1 \in 1 .. k
      OBVIOUS
    <3>3. from[i] = to[i - 1] /\ from[i] <= to[i] /\ to[i] <= Len(at)
          /\ from[i - 1] <= to[i - 1] /\ parts[i] = Part(at, from[i], to[i])
      BY <3>2
    <3>4. from[1] <= to[i - 1]
      <4>1. CASE i = 2
        BY <4>1, <3>1
      <4>2. CASE i = 3
        <5>1. from[2] = to[1] /\ from[2] <= to[2]
          BY <4>2
        <5> QED
          BY <4>2, <5>1, <3>1
      <4> QED
        BY <4>1, <4>2
    <3> QED
      BY <3>1, <3>2, <3>3, <3>4, SMTT(30)
  <2> QED
    BY <2>1, ConcatAdjacentSubSeq, ZenonT(60) DEF Part, Ids
<1>3. \A i \in 1 .. k : whole[i] = Part(at, from[1], to[i])
  OBVIOUS
<1>4. \A i \in 1 .. k : Next(i, whole) = whole[i]
  <2> TAKE i \in 1 .. k
  <2>1. CASE i = 1
    BY <2>1, <1>3
  <2>2. CASE i # 1
    <3>1. i \in 2 .. k /\ i - 1 \in 1 .. k
      BY <2>2
    <3> HIDE DEF whole
    <3> QED
      BY <3>1, <2>2, <1>2, <1>3
  <2> QED
    BY <2>1, <2>2
<1>5. whole = [i \in 1 .. k |-> Next(i, whole)]
  <2> HIDE DEF Next
  <2>1. \A i \in 1 .. k : Next(i, whole) = Part(at, from[1], to[i])
    BY <1>3, <1>4
  <2> DEFINE stepped == [i \in 1 .. k |-> Next(i, whole)]
  <2>2. stepped = [i \in 1 .. k |-> Part(at, from[1], to[i])]
    <3> HIDE DEF whole
    <3> QED
      BY <2>1
  <2> QED
    BY <2>2
<1>6. Flat = [i \in 1 .. k |-> Next(i, Flat)]
  <2> HIDE DEF whole, Next
  <2> QED
    BY <1>5
<1>7. \A i \in 1 .. k : Flat[i] = Next(i, Flat)
  <2> HIDE DEF Flat, Next
  <2> QED
    BY <1>6
<1> HIDE DEF Flat, whole
<1> DEFINE G == {i \in 0 .. k : i # 0 => Flat[i] = Part(at, from[1], to[i])}
<1>8. 0 .. k \subseteq G
  <2>1. 0 \in G
    OBVIOUS
  <2>2. ASSUME NEW i \in 1 .. k, i - 1 \in G PROVE i \in G
    <3>1. CASE i = 1
      BY <3>1, <1>7
    <3>2. CASE i # 1
      <4>1. i \in 2 .. k /\ i - 1 # 0
        BY <3>2
      <4>2. Flat[i - 1] = Part(at, from[1], to[i - 1])
        BY <4>1, <2>2
      <4>3. Flat[i] = Flat[i - 1] \o parts[i]
        BY <3>2, <1>7
      <4>4. Part(at, from[1], to[i]) = Part(at, from[1], to[i - 1]) \o parts[i]
        BY <4>1, <1>2
      <4>5. Flat[i] = Part(at, from[1], to[i])
        BY ONLY <4>2, <4>3, <4>4, Zenon
      <4> QED
        BY <4>5
    <3> QED
      BY <3>1, <3>2
  <2> HIDE DEF G
  <2> QED
    BY <2>1, <2>2, Upwards
<1>9. Flat[k] = Part(at, from[1], to[k])
  <2>1. k \in 0 .. k /\ k # 0
    OBVIOUS
  <2> QED
    BY <2>1, <1>8
<1> QED
  BY <1>1, <1>9

\* A part of one element.
LEMMA PartOfOne ==
    ASSUME NEW at, Ids(at), NEW k \in 1 .. Len(at)
    PROVE  Part(at, k - 1, k) = <<at[k]>>
<1>1. /\ at \in Seq(Nat) /\ Len(at) \in Nat /\ k \in k .. Len(at)
      /\ (k - 1) + 1 = k /\ k + 1 \in Int /\ k \in Int /\ k < k + 1
  BY DEF Ids
<1>2. SubSeq(at, k, k) = <<at[k]>> \o SubSeq(at, k + 1, k)
  BY <1>1, SubSeqRecursiveFirst
<1>3. SubSeq(at, k + 1, k) = <<>>
  BY <1>1, SubSeqEmpty
<1>4. at[k] \in Nat
  BY <1>1
<1>5. <<at[k]>> \o <<>> = <<at[k]>>
  BY <1>4
<1> QED
  BY <1>1, <1>2, <1>3, <1>5 DEF Part

\* A sequence of nodes, without its length in the way.
LEMMA FewIds ==
    ASSUME NEW s, Ids(s)
    PROVE  /\ Len(s) \in Nat /\ DOMAIN s = 1 .. Len(s)
           /\ \A i \in 1 .. Len(s) : s[i] \in Nat
           /\ s # <<>> => Len(s) # 0
BY DEF Ids

\* Where every node's leaves are an interval of a sequence, that is the
\* sequence of the leaves of the root.
LEMMA LeavesAre ==
    ASSUME TreeOK(tree), ExpandedOK(tree), NEW st, NEW matched,
           NEW at, Ids(at), NEW from \in [DOMAIN tree -> Nat],
           NEW to \in [DOMAIN tree -> Nat],
           SpansOK(tree, st, matched, at, from, to)
    PROVE  Leaves[ROOT] = at
<1> DEFINE N == Len(tree)
           Step(n, g) ==
              IF tree[n].children # <<>>
              THEN FlattenSeq([i \in DOMAIN tree[n].children |->
                                  g[tree[n].children[i]]])
              ELSE IF tree[n].symbol = EPSILON THEN <<>> ELSE <<n>>
           Of(n) == Part(at, from[n], to[n])
           Found == CHOOSE leaves :
                       leaves = [n \in 1 .. N |-> Step(n, leaves)]
<1>1. /\ N \in Nat \ {0} /\ DOMAIN tree = 1 .. N
      /\ \A n \in 1 .. N : from[n] \in Nat /\ to[n] \in Nat
                           /\ from[n] <= to[n] /\ to[n] <= Len(at)
      /\ Len(at) \in Nat
  BY DEF TreeOK, SpansOK, Ids
<1>2. ASSUME NEW n \in 1 .. N, NEW g, \A m \in n + 1 .. N : g[m] = Of(m)
      PROVE  Step(n, g) = Of(n)
  <2>1. CASE tree[n].children = <<>> /\ tree[n].symbol = EPSILON
    <3>1. to[n] = from[n]
      BY <1>1, <2>1 DEF SpansOK
    <3>2. Of(n) = <<>>
      BY <1>1, <3>1, SubSeqEmpty DEF Part
    <3> QED
      BY <2>1, <3>2
  <2>2. CASE tree[n].children = <<>> /\ tree[n].symbol # EPSILON
    <3>1. to[n] = from[n] + 1 /\ at[to[n]] = n
      BY <1>1, <2>2 DEF SpansOK
    <3>2. to[n] \in 1 .. Len(at) /\ to[n] - 1 = from[n]
      BY <1>1, <3>1
    <3>3. Of(n) = <<n>>
      BY <3>1, <3>2, PartOfOne
    <3> QED
      BY <2>2, <3>3
  <2>3. CASE tree[n].children # <<>>
    <3> DEFINE children == tree[n].children
               k == Len(children)
               parts == [i \in DOMAIN children |-> g[children[i]]]
               starts == [i \in 1 .. k |-> from[children[i]]]
               ends == [i \in 1 .. k |-> to[children[i]]]
    <3>1. k \in 1 .. 3 /\ DOMAIN children = 1 .. k
      <4>1. Len(tree[n].children) <= 3
        BY <1>1 DEF TreeOK
      <4>2. tree[n] \in ParseTreeNode
        BY <1>1 DEF TreeOK
      <4>3. Ids(tree[n].children)
        BY <4>2 DEF ParseTreeNode, Ids
      <4>4. Len(tree[n].children) # 0
        BY <4>3, <2>3, FewIds
      <4>5. Len(children) \in Nat /\ DOMAIN children = 1 .. Len(children)
        BY <4>3, FewIds
      <4>6. \A number \in Nat : number # 0 /\ number <= 3 => number \in 1 .. 3
        OBVIOUS
      <4>7. Len(children) \in 1 .. 3
        BY ONLY <4>1, <4>4, <4>5, <4>6, Zenon
      <4> QED
        BY ONLY <4>5, <4>7, Zenon
    <3>2. \A i \in 1 .. k : children[i] \in n + 1 .. N
      <4> TAKE i \in 1 .. k
      <4>1. tree[n].production # NONE
        BY <1>1, <2>3 DEF ExpandedOK
      <4>2. children[i] # NO_NODE
        BY <1>1, <3>1, <4>1 DEF ExpandedOK
      <4>3. children[i] \in {NO_NODE} \cup n + 1 .. Len(tree)
        BY <1>1, <3>1 DEF TreeOK
      <4> QED
        BY <4>2, <4>3
    <3>3. \A i \in 1 .. k : children[i] \in 1 .. N
      BY <3>2
    <3>4. /\ from[children[1]] = from[n] /\ to[children[k]] = to[n]
          /\ \A i \in 1 .. k - 1 : from[children[i + 1]] = to[children[i]]
      <4>1. n \in DOMAIN tree
        BY <1>1
      <4> HIDE DEF N, Step, Of, Found
      <4> QED
        BY ONLY <4>1, <2>3, SpansOK(tree, st, matched, at, from, to)
           DEF SpansOK
    <3> HIDE DEF k, children
    <3>5. /\ DOMAIN parts = 1 .. k /\ Len(parts) = k
          /\ \A i \in 1 .. k : parts[i] = Part(at, from[children[i]],
                                                   to[children[i]])
      <4>1. DOMAIN parts = 1 .. k
            /\ \A i \in 1 .. k : parts[i] = g[children[i]]
        BY <3>1
      <4>2. Len(parts) = k
        BY <3>1
      <4> HIDE DEF parts
      <4> QED
        BY <4>1, <4>2, <1>2, <3>2
    <3> HIDE DEF parts
    <3>6. /\ \A i \in 1 .. k : starts[i] \in Nat /\ ends[i] \in Nat
          /\ starts[1] = from[n] /\ ends[k] = to[n]
          /\ \A i \in 1 .. k : /\ starts[i] <= ends[i] /\ ends[i] <= Len(at)
                               /\ parts[i] = Part(at, starts[i], ends[i])
          /\ \A i \in 1 .. k - 1 : starts[i + 1] = ends[i]
      BY <1>1, <3>1, <3>3, <3>4, <3>5, SMTT(30)
    <3> HIDE DEF starts, ends
    <3>7. PartsOf(at, k, starts, ends, parts)
      BY <3>1, <3>5, <3>6 DEF PartsOf
    <3>8. FlattenSeq(parts) = Part(at, starts[1], ends[k])
      BY <3>7, PartsJoined
    <3> QED
      BY <2>3, <3>6, <3>8 DEF parts, children
  <2> QED
    BY <2>1, <2>2, <2>3
<1> HIDE DEF Step, Of, N
<1>3. Found = [n \in 1 .. N |-> Step(n, Found)]
  <2> DEFINE f == [n \in 1 .. N |-> Of(n)]
  <2>1. \A n \in 1 .. N : \A m \in n + 1 .. N : f[m] = Of(m)
    BY <1>1
  <2> HIDE DEF f
  <2>2. \A n \in 1 .. N : Step(n, f) = Of(n)
    BY <1>2, <2>1
  <2>3. f = [n \in 1 .. N |-> Step(n, f)]
    BY <2>2 DEF f
  <2> QED
    BY <2>3
<1>4. Leaves = Found
  BY <1>1 DEF Leaves, Step
<1> HIDE DEF Found
<1> DEFINE G == {n \in 1 .. N : Found[n] = Of(n)}
<1>5. ASSUME NEW n \in 1 .. N, n + 1 .. N \subseteq G PROVE n \in G
  <2>1. \A m \in n + 1 .. N : Found[m] = Of(m)
    BY <1>5
  <2>2. Step(n, Found) = Of(n)
    BY <1>2, <2>1
  <2> QED
    BY <1>3, <2>2
<1>6. 1 .. N \subseteq G
  <2> HIDE DEF G
  <2> QED
    BY <1>1, <1>5, Downwards
<1>7. Leaves[ROOT] = Part(at, from[ROOT], to[ROOT])
  BY <1>1, <1>4, <1>6 DEF ROOT, Of
<1>8. from[ROOT] = 0 /\ to[ROOT] = Len(at)
  BY DEF SpansOK
<1> QED
  BY <1>7, <1>8, SubSeqFull DEF Part, Ids
-----------------------------------------------------------------------------
(* What a node is replaced by on the stack.                                *)

\* The top of a stack of H of the N nodes has become the parent of K new
\* ones, and `fresh` of them have come in its place, the first one on top.
\* The lengths have names because the provers lose their way among them.
Expands(tr, N, st, H, production, symbols, K, fresh, new, st2) ==
    /\ N \in Nat \ {0} /\ DOMAIN tr = 1 .. N
    /\ H \in Nat \ {0} /\ DOMAIN st = 1 .. H
    /\ \A i \in 1 .. H : st[i] \in 1 .. N
    /\ K \in 1 .. 3 /\ \A i \in 1 .. K : symbols[i] \in Symbols
    /\ \/ fresh = 0 /\ K = 1 /\ symbols[1] = EPSILON
       \/ fresh = K /\ \A i \in 1 .. K : symbols[i] # EPSILON
    /\ DOMAIN new = 1 .. N + K
    /\ \A n \in 1 .. N : n # st[H] => new[n] = tr[n]
    /\ new[st[H]].symbol = tr[st[H]].symbol
    /\ new[st[H]].production = production
    /\ DOMAIN new[st[H]].children = 1 .. K
    /\ \A i \in 1 .. K : /\ new[st[H]].children[i] = N + i
                         /\ new[N + i].symbol = symbols[i]
                         /\ new[N + i].production = NONE
                         /\ new[N + i].children = <<>>
                         /\ new[N + i].token = 0
    /\ DOMAIN st2 = 1 .. H - 1 + fresh
    /\ \A i \in 1 .. H - 1 : st2[i] = st[i]
    /\ \A i \in 1 .. fresh : st2[H - 1 + i] = N + (fresh + 1 - i)

\* The named lengths.
Sizes(tr, N, st, H, symbols, K, fresh, new, st2) ==
    /\ Len(tr) = N /\ Len(st) = H /\ Len(symbols) = K
    /\ Len(new) = N + K /\ Len(st2) = H - 1 + fresh

\* An expansion leaves the nodes on the stack those still to be parsed.
LEMMA PendingGrows ==
    ASSUME NEW tr, NEW N, NEW st, NEW H, NEW production, NEW symbols, NEW K,
           NEW fresh, NEW new, NEW st2,
           Expands(tr, N, st, H, production, symbols, K, fresh, new, st2),
           PendingOK(tr, st), production # NONE
    PROVE  PendingOK(new, st2)
<1> DEFINE top == st[H]
<1>1. /\ N \in Nat \ {0} /\ DOMAIN tr = 1 .. N /\ K \in 1 .. 3
      /\ H \in Nat \ {0} /\ top \in 1 .. N /\ DOMAIN st = 1 .. H
      /\ \A i \in 1 .. H : st[i] \in 1 .. N
      /\ fresh \in 0 .. 3
  BY DEF Expands
<1>2. /\ \A n \in 1 .. N : n # top => new[n] = tr[n]
      /\ DOMAIN new = 1 .. N + K
      /\ new[top].production = production
  BY DEF Expands
<1>3. \A i \in 1 .. K : /\ new[N + i].symbol = symbols[i]
                        /\ new[N + i].production = NONE
                        /\ new[N + i].token = 0
  BY DEF Expands
<1>4. /\ DOMAIN st2 = 1 .. H - 1 + fresh
      /\ \A i \in 1 .. H - 1 : st2[i] = st[i]
      /\ \A i \in 1 .. fresh : st2[H - 1 + i] = N + (fresh + 1 - i)
  BY DEF Expands
<1>5. \/ fresh = 0 /\ K = 1 /\ symbols[1] = EPSILON
      \/ fresh = K /\ \A i \in 1 .. K : symbols[i] # EPSILON
  BY DEF Expands
<1>6. /\ \A i \in 1 .. H, j \in 1 .. H : st[i] = st[j] => i = j
      /\ \A i \in 1 .. H : /\ tr[st[i]].symbol # EPSILON
                           /\ tr[st[i]].production = NONE
                           /\ tr[st[i]].token = 0
      /\ \A n \in 1 .. N : \/ tr[n].symbol = EPSILON
                           \/ tr[n].production # NONE \/ tr[n].token # 0
                           \/ \E i \in 1 .. H : st[i] = n
  BY <1>1 DEF PendingOK
<1>7. ASSUME NEW i \in DOMAIN st2
      PROVE  \/ i \in 1 .. H - 1 /\ st2[i] = st[i] /\ st[i] # top
                /\ st[i] \in 1 .. N
             \/ \E j \in 1 .. K : /\ fresh = K /\ i = H + K - j
                                  /\ st2[i] = N + j
  <2>1. CASE i \in 1 .. H - 1
    <3>1. st[i] # top
      BY <2>1, <1>1, <1>6 
    <3> QED
      BY <2>1, <3>1, <1>1, <1>4
  <2>2. CASE i \notin 1 .. H - 1
    <3>1. i - (H - 1) \in 1 .. fresh /\ i = H - 1 + (i - (H - 1))
      BY <2>2, <1>1, <1>4
    <3>2. fresh = K /\ K + 1 - (i - (H - 1)) \in 1 .. K
          /\ N + (fresh + 1 - (i - (H - 1))) = N + (K + 1 - (i - (H - 1)))
          /\ i = H + K - (K + 1 - (i - (H - 1)))
      BY <3>1, <1>1, <1>5, SMTT(30)
    <3> QED
      BY <3>1, <3>2, <1>4
  <2> QED
    BY <2>1, <2>2
<1>8. \A i \in DOMAIN st2 : /\ new[st2[i]].symbol # EPSILON
                            /\ new[st2[i]].production = NONE
                            /\ new[st2[i]].token = 0
  <2> TAKE i \in DOMAIN st2
  <2>1. CASE i \in 1 .. H - 1 /\ st2[i] = st[i] /\ st[i] # top
             /\ st[i] \in 1 .. N
    <3>1. i \in 1 .. H /\ new[st[i]] = tr[st[i]]
      BY <2>1, <1>1, <1>2
    <3> QED
      BY <2>1, <3>1, <1>6
  <2>2. CASE \E j \in 1 .. K : fresh = K /\ i = H + K - j /\ st2[i] = N + j
    <3>1. PICK j \in 1 .. K : fresh = K /\ st2[i] = N + j
      BY <2>2
    <3>2. symbols[j] # EPSILON
      BY <3>1, <1>1, <1>5
    <3> QED
      BY <3>1, <3>2, <1>3
  <2> QED
    BY <2>1, <2>2, <1>7
<1>9. \A i \in DOMAIN st2, j \in DOMAIN st2 : st2[i] = st2[j] => i = j
  <2> TAKE i \in DOMAIN st2, j \in DOMAIN st2
  <2>1. \/ i \in 1 .. H - 1 /\ st2[i] = st[i] /\ st[i] \in 1 .. N
        \/ \E k \in 1 .. K : i = H + K - k /\ st2[i] = N + k
    BY <1>7
  <2>2. \/ j \in 1 .. H - 1 /\ st2[j] = st[j] /\ st[j] \in 1 .. N
        \/ \E k \in 1 .. K : j = H + K - k /\ st2[j] = N + k
    BY <1>7
  <2>3. \A k \in 1 .. H - 1 : k \in 1 .. H
    BY <1>1
  <2>4. ASSUME NEW k \in 1 .. K, NEW n \in 1 .. N PROVE N + k # n
    BY <1>1
  <2>5. ASSUME NEW k \in 1 .. K, NEW l \in 1 .. K, N + k = N + l PROVE k = l
    BY <1>1, <2>5
  <2>6. CASE i \in 1 .. H - 1 /\ j \in 1 .. H - 1
             /\ st2[i] = st[i] /\ st2[j] = st[j]
    BY <2>3, <2>6, <1>6, ZenonT(60)
  <2>7. CASE \E k \in 1 .. K, l \in 1 .. K :
                /\ i = H + K - k /\ st2[i] = N + k
                /\ j = H + K - l /\ st2[j] = N + l
    BY <2>5, <2>7
  <2> QED
    BY <2>1, <2>2, <2>4, <2>6, <2>7
<1>10. ASSUME NEW n \in DOMAIN new
       PROVE  \/ new[n].symbol = EPSILON
              \/ new[n].production # NONE \/ new[n].token # 0
              \/ \E i \in DOMAIN st2 : st2[i] = n
  <2>1. CASE n = top
    BY <2>1, <1>1, <1>2
  <2>2. CASE n \in 1 .. N /\ n # top
    <3>1. ASSUME NEW i \in 1 .. H, st[i] = n
          PROVE  \E j \in DOMAIN st2 : st2[j] = n
      <4>1. i \in 1 .. H - 1
        BY <3>1, <2>2, <1>1
      <4>2. i \in 1 .. H - 1 + fresh
        BY <4>1, <1>1
      <4> QED
        BY <4>1, <4>2, <3>1, <1>4
    <3> QED
      BY <3>1, <2>2, <1>2, <1>6
  <2>3. CASE n \notin 1 .. N
    <3>1. n - N \in 1 .. K /\ n = N + (n - N)
      <4>1. n \in 1 .. N + K
        BY <1>2
      <4> QED
        BY <4>1, <2>3, <1>1
    <3>2. CASE K = 1 /\ symbols[1] = EPSILON
      <4>1. n - N = 1
        BY <3>1, <3>2
      <4> QED
        BY <3>1, <3>2, <4>1, <1>3
    <3>3. CASE fresh = K
      <4>1. fresh = K
        BY <3>3
      <4> DEFINE i == K + 1 - (n - N)
      <4>2. i \in 1 .. fresh /\ fresh + 1 - i = n - N
        BY <3>1, <4>1, <1>1
      <4> HIDE DEF i
      <4>3. H - 1 + i \in 1 .. H - 1 + fresh
        BY <4>2, <1>1
      <4>4. st2[H - 1 + i] = n
        BY <3>1, <4>2, <1>4
      <4> QED
        BY <4>3, <4>4, <1>4
    <3> QED
      BY <3>2, <3>3, <1>5
  <2> QED
    BY <2>1, <2>2, <2>3
<1> QED
  BY <1>8, <1>9, <1>10 DEF PendingOK

\* Nodes are numbered from one, and each has at most three children.
LEMMA TreeDomain ==
    ASSUME NEW tr, TreeOK(tr)
    PROVE  /\ DOMAIN tr = 1 .. Len(tr) /\ Len(tr) \in Nat \ {0}
           /\ \A n \in DOMAIN tr : n + 1 .. Len(tr) \subseteq DOMAIN tr
           /\ \A n \in DOMAIN tr : /\ tr[n] \in ParseTreeNode
                                   /\ Ids(tr[n].children)
                                   /\ Len(tr[n].children) <= 3
<1>1. DOMAIN tr = 1 .. Len(tr) /\ Len(tr) \in Nat \ {0}
  BY DEF TreeOK
<1>2. ASSUME NEW n \in DOMAIN tr
      PROVE  /\ tr[n] \in ParseTreeNode
             /\ Ids(tr[n].children) /\ Len(tr[n].children) <= 3
  <2>1. tr[n] \in ParseTreeNode
    BY DEF TreeOK
  <2>2. Len(tr[n].children) <= 3
    BY DEF TreeOK
  <2> QED
    BY <2>1, <2>2 DEF ParseTreeNode, Ids
<1> QED
  BY <1>1, <1>2

\* After an expansion the children of a node are still what its production
\* says.
LEMMA ExpandedGrows ==
    ASSUME NEW tr, NEW N, NEW st, NEW H, NEW production, NEW symbols, NEW K,
           NEW fresh, NEW new, NEW st2,
           Expands(tr, N, st, H, production, symbols, K, fresh, new, st2),
           TreeOK(tr), ExpandedOK(tr), production \in DOMAIN Productions,
           tr[st[H]].symbol = HeadOf[production],
           symbols = Productions[production], Len(symbols) = K,
           Len(new[st[H]].children) = K
    PROVE  ExpandedOK(new)
<1> DEFINE top == st[H]
<1>1. N \in Nat \ {0} /\ DOMAIN tr = 1 .. N /\ K \in 1 .. 3 /\ top \in 1 .. N
  BY DEF Expands
<1>2. /\ \A n \in 1 .. N : n # top => new[n] = tr[n]
      /\ DOMAIN new = 1 .. N + K
      /\ new[top].symbol = tr[top].symbol
      /\ new[top].production = production
      /\ DOMAIN new[top].children = 1 .. K
      /\ \A i \in 1 .. K : new[top].children[i] = N + i
  BY DEF Expands
<1>3. \A i \in 1 .. K : /\ new[N + i].symbol = symbols[i]
                        /\ new[N + i].children = <<>>
                        /\ new[N + i].production = NONE
  BY DEF Expands
<1>4. \A n \in 1 .. N : new[n].symbol = tr[n].symbol
  BY <1>2
<1>5. production # NONE
  BY DEF Productions, NONE
<1>6. ASSUME NEW n \in DOMAIN new
      PROVE  IF new[n].production = NONE THEN new[n].children = <<>>
             ELSE /\ new[n].symbol = HeadOf[new[n].production]
                  /\ Len(new[n].children)
                       = Len(Productions[new[n].production])
                  /\ \A i \in DOMAIN new[n].children :
                        /\ new[n].children[i] # NO_NODE
                        /\ new[new[n].children[i]].symbol =
                              Productions[new[n].production][i]
  <2>1. CASE n \in 1 .. N /\ n # top
    <3>1. new[n] = tr[n]
      BY <2>1, <1>2
    <3>2. CASE tr[n].production = NONE
      BY <2>1, <3>1, <3>2, <1>1 DEF ExpandedOK
    <3>3. CASE tr[n].production # NONE
      <4>1. /\ tr[n].symbol = HeadOf[tr[n].production]
            /\ Len(tr[n].children) = Len(Productions[tr[n].production])
            /\ \A i \in DOMAIN tr[n].children :
                  /\ tr[n].children[i] # NO_NODE
                  /\ tr[tr[n].children[i]].symbol =
                        Productions[tr[n].production][i]
        BY <2>1, <3>3, <1>1 DEF ExpandedOK
      <4>2. \A i \in DOMAIN tr[n].children : tr[n].children[i] \in 1 .. N
        <5> TAKE i \in DOMAIN tr[n].children
        <5>1. tr[n].children[i] \in n + 1 .. Len(tr)
          BY <2>1, <4>1, <1>1 DEF TreeOK
        <5>2. n + 1 .. Len(tr) \subseteq DOMAIN tr
          BY <2>1, <1>1, TreeDomain
        <5>3. tr[n].children[i] \in DOMAIN tr
          BY <5>1, <5>2
        <5> QED
          BY <5>3, <1>1
      <4> QED
        BY <3>1, <3>3, <4>1, <4>2, <1>4
    <3> QED
      BY <3>2, <3>3
  <2>2. CASE n = top
    <3>1. \A i \in 1 .. K : N + i # NO_NODE /\ new[N + i].symbol = symbols[i]
      BY <1>1, <1>3 DEF NO_NODE
    <3> QED
      BY <2>2, <3>1, <1>2, <1>5
  <2>3. CASE n \notin 1 .. N
    <3>1. n - N \in 1 .. K /\ n = N + (n - N)
      <4>1. n \in 1 .. N + K
        BY <1>2
      <4> QED
        BY <4>1, <2>3, <1>1
    <3> QED
      BY <3>1, <1>3
  <2> QED
    BY <2>1, <2>2, <2>3
<1> QED
  BY <1>6 DEF ExpandedOK

\* Each symbol of the new stack, from the bottom.
SymbolsOnto(tr, st, H, symbols, K, fresh, new, st2) ==
    /\ H \in Nat \ {0} /\ K \in 1 .. 3
    /\ \/ fresh = 0 /\ K = 1 /\ symbols[1] = EPSILON
       \/ fresh = K /\ \A i \in 1 .. K : symbols[i] # EPSILON
    /\ DOMAIN st = 1 .. H /\ DOMAIN st2 = 1 .. H - 1 + fresh
    /\ \A i \in 1 .. H - 1 : new[st2[i]].symbol = tr[st[i]].symbol
    /\ \A j \in 1 .. fresh :
          new[st2[H - 1 + j]].symbol = symbols[fresh + 1 - j]

\* What an expansion does to the stack, in terms of symbols alone.
LEMMA AreOnto ==
    ASSUME NEW tr, NEW N, NEW st, NEW H, NEW production, NEW symbols, NEW K,
           NEW fresh, NEW new, NEW st2,
           Expands(tr, N, st, H, production, symbols, K, fresh, new, st2),
           PendingOK(tr, st)
    PROVE  SymbolsOnto(tr, st, H, symbols, K, fresh, new, st2)
<1> DEFINE top == st[H]
<1>1. /\ N \in Nat \ {0} /\ K \in 1 .. 3
      /\ H \in Nat \ {0} /\ top \in 1 .. N /\ DOMAIN st = 1 .. H
      /\ \A i \in 1 .. H : st[i] \in 1 .. N
  BY DEF Expands
<1>2. \A n \in 1 .. N : n # top => new[n] = tr[n]
  BY DEF Expands
<1>3. \A i \in 1 .. K : new[N + i].symbol = symbols[i]
  BY DEF Expands
<1>4. /\ DOMAIN st2 = 1 .. H - 1 + fresh
      /\ \A i \in 1 .. H - 1 : st2[i] = st[i]
      /\ \A i \in 1 .. fresh : st2[H - 1 + i] = N + (fresh + 1 - i)
  BY DEF Expands
<1>5. \A i \in 1 .. H - 1 : i \in 1 .. H /\ st[i] # top
  BY <1>1 DEF PendingOK
<1>6. \/ fresh = 0 /\ K = 1 /\ symbols[1] = EPSILON
      \/ fresh = K /\ \A i \in 1 .. K : symbols[i] # EPSILON
  BY DEF Expands
<1>7. \A i \in 1 .. H - 1 : new[st2[i]].symbol = tr[st[i]].symbol
  BY <1>1, <1>2, <1>4, <1>5
<1>8. \A j \in 1 .. fresh :
         new[st2[H - 1 + j]].symbol = symbols[fresh + 1 - j]
  <2> TAKE j \in 1 .. fresh
  <2>1. fresh + 1 - j \in 1 .. K
    BY <1>1, <1>6
  <2> QED
    BY <2>1, <1>3, <1>4
<1> QED
  BY <1>1, <1>4, <1>6, <1>7, <1>8 DEF SymbolsOnto

\* An expansion keeps what is on the stack in the order of the grammar, and
\* what is on top fits the current token.
LEMMA OrderGrows ==
    ASSUME NEW tr, NEW st, NEW H, NEW symbols, NEW K, NEW fresh,
           NEW new, NEW st2,
           SymbolsOnto(tr, st, H, symbols, K, fresh, new, st2),
           OrderOK(tr, st), NEW next,
           RowOK(tr[st[H]].symbol, next, symbols), Len(symbols) = K,
           tr[st[H]].symbol \in Nonterminals
    PROVE  /\ OrderOK(new, st2)
           /\ H - 1 + fresh >= 1
           /\ next \in Fitting(new[st2[H - 1 + fresh]].symbol)
<1> DEFINE symbol == tr[st[H]].symbol
<1>1. /\ H \in Nat \ {0} /\ DOMAIN st = 1 .. H /\ K \in 1 .. 3
      /\ DOMAIN st2 = 1 .. H - 1 + fresh
      /\ \A i \in 1 .. H - 1 : new[st2[i]].symbol = tr[st[i]].symbol
      /\ \A j \in 1 .. fresh :
            new[st2[H - 1 + j]].symbol = symbols[fresh + 1 - j]
  BY DEF SymbolsOnto
<1>2. \A i \in 2 .. H : tr[st[i - 1]].symbol \in Below(tr[st[i]].symbol)
  BY <1>1 DEF OrderOK
<1>3. tr[st[1]].symbol \in Bottom
  BY <1>1 DEF OrderOK
<1>4. symbol = "Regex" => H = 1
  BY <1>1, <1>2 DEF Below, AtomStarts, Quantifiers
<1>5. H = 1 => symbol = "Regex"
  BY <1>3 DEF Bottom, Nonterminals
<1>6. CASE fresh = 0
  <2>1. /\ fresh = 0 /\ symbol \notin Bottom
        /\ \A under \in Below(symbol) : next \in Fitting(under)
    <3>1. symbols[1] = EPSILON /\ K = 1
      BY <1>6, <1>1 DEF SymbolsOnto
    <3> QED
      BY <3>1, <1>6 DEF RowOK
  <2>2. H >= 2 /\ H - 1 \in 1 .. H - 1
    BY <2>1, <1>1, <1>3
  <2>3. next \in Fitting(tr[st[H - 1]].symbol)
    BY <2>1, <2>2, <1>1, <1>2
  <2>4. OrderOK(new, st2)
    <3>1. \A i \in 1 .. H - 1 : i # 1 => i - 1 \in 1 .. H - 1
      BY <1>1
    <3> QED
      BY <2>1, <3>1, <1>1, <1>2, <1>3 DEF OrderOK
  <2>5. H - 1 + fresh = H - 1 /\ new[st2[H - 1]].symbol = tr[st[H - 1]].symbol
    BY <2>1, <2>2, <1>1
  <2> QED
    BY <2>2, <2>3, <2>4, <2>5
<1>7. CASE fresh # 0
  <2>1. /\ fresh = K
        /\ next \in Fitting(symbols[1])
        /\ \A i \in 1 .. K - 1 : symbols[i + 1] \in Below(symbols[i])
        /\ IF symbol = "Regex" THEN symbols[K] = "END"
           ELSE Below(symbol) \subseteq Below(symbols[K])
    <3>1. fresh = K /\ symbols[1] # EPSILON
      BY <1>1, <1>7 DEF SymbolsOnto
    <3>2. symbols # <<EPSILON>>
      BY <3>1
    <3> QED
      BY <3>1, <3>2 DEF RowOK
  <2>2. /\ new[st2[H - 1 + K]].symbol = symbols[1]
        /\ new[st2[H]].symbol = symbols[K]
        /\ \A j \in 1 .. K - 1 :
              /\ new[st2[H - 1 + j]].symbol = symbols[K + 1 - j]
              /\ new[st2[H - 1 + (j + 1)]].symbol = symbols[K - j]
    <3>1. /\ 1 \in 1 .. fresh /\ K \in 1 .. fresh
          /\ K + 1 - K = 1 /\ K + 1 - 1 = K /\ H - 1 + 1 = H
          /\ \A j \in 1 .. K - 1 : /\ j \in 1 .. fresh /\ j + 1 \in 1 .. fresh
                                   /\ K + 1 - (j + 1) = K - j
      BY <2>1, <1>1, SMTT(30)
    <3> QED
      BY <3>1, <2>1, <1>1, ZenonT(60)
  <2>3. ASSUME NEW i \in 1 .. H - 1 + K
        PROVE  IF i = 1 THEN new[st2[i]].symbol \in Bottom
               ELSE new[st2[i - 1]].symbol \in Below(new[st2[i]].symbol)
    <3>1. CASE i <= H - 1
      <4>1. i \in 1 .. H - 1
        BY <3>1, <1>1
      <4>2. CASE i = 1
        BY <4>1, <4>2, <1>1, <1>3
      <4>3. CASE i # 1
        <5>1. i - 1 \in 1 .. H - 1 /\ i \in 2 .. H
          BY <4>1, <4>3, <1>1
        <5> QED
          BY <4>1, <4>3, <5>1, <1>1, <1>2
      <4> QED
        BY <4>2, <4>3
    <3>2. CASE i = H
      <4>1. CASE i = 1
        BY <4>1, <3>2, <2>1, <2>2, <1>5 DEF Bottom
      <4>2. CASE i # 1
        <5>1. i - 1 \in 1 .. H - 1 /\ H \in 2 .. H
          BY <3>2, <4>2, <1>1
        <5>2. symbol # "Regex"
          BY <3>2, <4>2, <1>4
        <5>3. tr[st[H - 1]].symbol \in Below(symbol)
          BY <5>1, <1>2
        <5>4. new[st2[H - 1]].symbol = tr[st[H - 1]].symbol
          BY <3>2, <5>1, <1>1
        <5>5. new[st2[H - 1]].symbol \in Below(symbols[K])
          BY <5>2, <5>3, <5>4, <2>1
        <5> QED
          BY <3>2, <4>2, <5>5, <2>2
      <4> QED
        BY <4>1, <4>2
    <3>3. CASE i > H
      <4>1. PICK j \in 1 .. K - 1 : i - 1 = H - 1 + j /\ i = H - 1 + (j + 1)
        <5>1. /\ i - H \in 1 .. K - 1 /\ i - 1 = H - 1 + (i - H)
              /\ i = H - 1 + ((i - H) + 1)
          BY <3>3, <1>1
        <5> QED
          BY <5>1
      <4>2. K - j \in 1 .. K - 1 /\ (K - j) + 1 = K + 1 - j /\ i # 1
        BY <3>3, <1>1, SMTT(30)
      <4>3. symbols[K + 1 - j] \in Below(symbols[K - j])
        BY <4>2, <2>1
      <4> QED
        BY <4>1, <4>2, <4>3, <2>2
    <3> QED
      BY <3>1, <3>2, <3>3, <1>1
  <2>4. OrderOK(new, st2)
    BY <2>1, <2>3, <1>1 DEF OrderOK
  <2>5. H - 1 + fresh >= 1 /\ H - 1 + fresh = H - 1 + K
    BY <2>1, <1>1
  <2> QED
    BY <2>1, <2>2, <2>4, <2>5
<1> QED
  BY <1>6, <1>7
-----------------------------------------------------------------------------
(* The work.                                                               *)

\* Least is a lower bound of what a stack costs, one symbol at a time.
LEMMA LeastStep ==
    ASSUME NEW symbol
    PROVE  /\ Cost(symbol) \in Int /\ Least(symbol) \in Int
           /\ Least(symbol) >= 0 - 8
           /\ symbol \in Nonterminals => Least(symbol) >= 0 - 5
           /\ symbol \in Bottom => Least(symbol) <= Cost(symbol)
           /\ \A under \in Below(symbol) :
                 Least(symbol) <= Least(under) + Cost(symbol)
<1> USE DEF Cost, Least, AtomStarts, Quantifiers
<1>1. Cost(symbol) \in Int /\ Least(symbol) \in Int
  OBVIOUS
<1>2. Least(symbol) >= 0 - 8
  OBVIOUS
<1>3. symbol \in Nonterminals => Least(symbol) >= 0 - 5
  BY DEF Nonterminals
<1>4. symbol \in Bottom => Least(symbol) <= Cost(symbol)
  BY DEF Bottom
<1>5. ASSUME NEW under \in Below(symbol)
      PROVE  Least(symbol) <= Least(under) + Cost(symbol)
  <2>1. CASE symbol \in {"Alternation", "AlternationTail"}
    BY <2>1, <1>5 DEF Below
  <2>2. CASE symbol \in {"Concatenation", "ConcatenationTail"}
    BY <2>2, <1>5 DEF Below
  <2>3. CASE symbol \in {"Repetition", "Quantifier"} \cup Quantifiers
    BY <2>3, <1>5 DEF Below
  <2>4. CASE symbol \in {"Atom", "RPAREN"} \cup (AtomStarts \ {"LPAREN"})
    BY <2>4, <1>5 DEF Below
  <2>5. CASE symbol = "LPAREN"
    BY <2>5, <1>5 DEF Below
  <2>6. CASE symbol = "PIPE"
    BY <2>6, <1>5 DEF Below
  <2> QED
    BY <2>1, <2>2, <2>3, <2>4, <2>5, <2>6, <1>5 DEF Below
<1> QED
  BY <1>1, <1>2, <1>3, <1>4, <1>5

\* What the nodes of a stack cost, from the bottom up to each one.
HasCosts(tr, st, H, costs) ==
    /\ H \in Nat /\ DOMAIN st = 1 .. H
    /\ costs \in [0 .. H -> Int] /\ costs[0] = 0
    /\ \A i \in 1 .. H : costs[i] = costs[i - 1] + Cost(tr[st[i]].symbol)

\* No part of the stack costs less than the symbol on top of it says.
LEMMA PrefixCosts ==
    ASSUME NEW tr, NEW st, NEW H, NEW costs, HasCosts(tr, st, H, costs),
           OrderOK(tr, st)
    PROVE  \A i \in 1 .. H : costs[i] >= Least(tr[st[i]].symbol)
<1> USE DEF HasCosts
<1> DEFINE Is(i) == tr[st[i]].symbol
           G == {i \in 0 .. H : i # 0 => costs[i] >= Least(Is(i))}
<1>1. 0 \in G
  OBVIOUS
<1>2. ASSUME NEW i \in 1 .. H, i - 1 \in G PROVE i \in G
  <2>1. costs[i] = costs[i - 1] + Cost(Is(i)) /\ costs[i] \in Int
        /\ costs[i - 1] \in Int
    OBVIOUS
  <2>2. CASE i = 1
    <3>1. Is(i) \in Bottom
      BY <2>2 DEF OrderOK
    <3> QED
      BY <2>1, <2>2, <3>1, LeastStep
  <2>3. CASE i # 1
    <3>1. Is(i - 1) \in Below(Is(i))
      BY <2>3 DEF OrderOK
    <3>2. costs[i - 1] >= Least(Is(i - 1))
      BY <2>3, <1>2
    <3> HIDE DEF Is
    <3>3. Least(Is(i)) <= Least(Is(i - 1)) + Cost(Is(i))
      BY <3>1, LeastStep
    <3>4. /\ Least(Is(i)) \in Int /\ Least(Is(i - 1)) \in Int
          /\ Cost(Is(i)) \in Int
      BY LeastStep
    <3> QED
      <4>1. costs[i] >= Least(Is(i))
        BY ONLY <2>1, <3>2, <3>3, <3>4
      <4> QED
        BY <4>1 DEF Is
  <2> QED
    BY <2>2, <2>3
<1>3. 0 .. H \subseteq G
  <2> HIDE DEF G
  <2> QED
    BY <1>1, <1>2, Upwards
<1> QED
  BY <1>3

\* An expansion pays for the nodes it creates.
LEMMA CostGrows ==
    ASSUME NEW tr, NEW st, NEW H, NEW symbols, NEW K, NEW fresh,
           NEW new, NEW st2, NEW N,
           SymbolsOnto(tr, st, H, symbols, K, fresh, new, st2),
           Sizes(tr, N, st, H, symbols, K, fresh, new, st2), N \in Nat,
           NEW budget \in Int, CostOK(tr, st, budget),
           NEW next, RowOK(tr[st[H]].symbol, next, symbols),
           OrderOK(new, st2)
    PROVE  CostOK(new, st2, budget)
<1> DEFINE symbol == tr[st[H]].symbol
           C(j) == Cost(symbols[j])
<1>1. /\ H \in Nat \ {0} /\ DOMAIN st = 1 .. H /\ K \in 1 .. 3
      /\ DOMAIN st2 = 1 .. H - 1 + fresh
      /\ \A i \in 1 .. H - 1 : new[st2[i]].symbol = tr[st[i]].symbol
      /\ \A j \in 1 .. fresh :
            new[st2[H - 1 + j]].symbol = symbols[fresh + 1 - j]
  BY DEF SymbolsOnto
<1>2. \/ fresh = 0 /\ K = 1 /\ symbols[1] = EPSILON
      \/ fresh = K
  BY DEF SymbolsOnto
<1>3. PICK costs \in [0 .. H -> Int] :
         /\ costs[0] = 0
         /\ \A i \in DOMAIN st :
               costs[i] = costs[i - 1] + Cost(tr[st[i]].symbol)
         /\ N + costs[H] <= budget
  BY DEF CostOK, Sizes
<1>4. /\ K = 1 => 1 + C(1) <= Cost(symbol)
      /\ K = 2 => 2 + C(1) + C(2) <= Cost(symbol)
      /\ K = 3 => 3 + C(1) + C(2) + C(3) <= Cost(symbol)
  BY DEF RowOK, Sizes
<1>5. /\ \A j \in 1 .. 3 : C(j) \in Int
      /\ symbols[1] = EPSILON => C(1) = 0
  BY LeastStep DEF Cost, EPSILON, AtomStarts
<1>6. /\ costs[H - 1] \in Int /\ Cost(symbol) \in Int
      /\ costs[H] = costs[H - 1] + Cost(symbol)
      /\ \A i \in 0 .. H - 1 : costs[i] \in Int
  <2>1. Cost(symbol) \in Int
    BY LeastStep
  <2>2. \A i \in 0 .. H - 1 : i \in 0 .. H
    BY <1>1
  <2>3. H - 1 \in 0 .. H - 1 /\ H \in 1 .. H
    BY <1>1
  <2>4. costs[H] = costs[H - 1] + Cost(symbol)
    BY <2>3, <1>1, <1>3
  <2> QED
    BY <2>1, <2>2, <2>3, <2>4
<1> DEFINE rest == costs[H - 1]
           upto == [j \in 1 .. 3 |->
                       IF j = 1 THEN C(fresh)
                       ELSE IF j = 2 THEN C(fresh) + C(fresh - 1)
                       ELSE C(fresh) + C(fresh - 1) + C(fresh - 2)]
           F == H - 1 + fresh
           costs2 == [i \in 0 .. F |-> IF i <= H - 1 THEN costs[i]
                                       ELSE rest + upto[i - (H - 1)]]
<1> HIDE DEF C
<1>7. fresh \in 0 .. 3
  BY <1>1, <1>2
<1>8. /\ upto[1] = C(fresh) /\ upto[2] = C(fresh) + C(fresh - 1)
      /\ upto[3] = C(fresh) + C(fresh - 1) + C(fresh - 2)
  OBVIOUS
<1> HIDE DEF upto
<1>9. /\ \A j \in 1 .. fresh : upto[j] \in Int
      /\ fresh # 0 => upto[1] = C(fresh)
      /\ \A j \in 2 .. fresh : upto[j] = upto[j - 1] + C(fresh + 1 - j)
  <2>1. CASE fresh = 0
    BY <2>1
  <2>2. CASE fresh = 1
    BY <2>2, <1>5, <1>8
  <2>3. CASE fresh = 2
    BY <2>3, <1>5, <1>8
  <2>4. CASE fresh = 3
    <3>1. \A j \in 1 .. 3 : j = 1 \/ j = 2 \/ j = 3
      OBVIOUS
    <3>2. upto[1] \in Int /\ upto[2] \in Int /\ upto[3] \in Int
      BY <2>4, <1>5, <1>8
    <3>3. upto[2] = upto[1] + C(2) /\ upto[3] = upto[2] + C(1)
      BY <2>4, <1>5, <1>8
    <3> QED
      BY <2>4, <3>1, <3>2, <3>3, <1>8
  <2> QED
    BY <2>1, <2>2, <2>3, <2>4, <1>7
<1>10. K + (IF fresh = 0 THEN 0 ELSE upto[fresh]) <= Cost(symbol)
  <2>1. CASE fresh = 0
    BY <2>1, <1>1, <1>2, <1>4, <1>5, SMTT(30)
  <2>2. CASE fresh = 1
    BY <2>2, <1>2, <1>4, <1>5, <1>8
  <2>3. CASE fresh = 2
    BY <2>3, <1>2, <1>4, <1>5, <1>6, <1>8
  <2>4. CASE fresh = 3
    BY <2>4, <1>2, <1>4, <1>5, <1>6, <1>8
  <2> QED
    BY <2>1, <2>2, <2>3, <2>4, <1>7
<1>11. /\ \A i \in 0 .. H - 1 : costs2[i] = costs[i]
       /\ \A j \in 1 .. fresh : costs2[H - 1 + j] = rest + upto[j]
  <2>1. \A i \in 0 .. H - 1 : i \in 0 .. F /\ i <= H - 1
    BY <1>1, <1>7
  <2>2. \A j \in 1 .. fresh : /\ H - 1 + j \in 0 .. F
                              /\ ~ (H - 1 + j <= H - 1)
                              /\ (H - 1 + j) - (H - 1) = j
    BY <1>1, <1>7
  <2> QED
    BY <2>1, <2>2
<1>12. \A i \in 0 .. F : \/ i \in 0 .. H - 1
                         \/ \E j \in 1 .. fresh : i = H - 1 + j
  <2> TAKE i \in 0 .. F
  <2>1. CASE i > H - 1
    <3>1. i - (H - 1) \in 1 .. fresh /\ i = H - 1 + (i - (H - 1))
      BY <2>1, <1>1, <1>7
    <3> QED
      BY <3>1
  <2> QED
    BY <2>1, <1>1
<1>13. costs2 \in [0 .. F -> Int]
  <2>1. \A i \in 0 .. F : costs2[i] \in Int
    <3> TAKE i \in 0 .. F
    <3> HIDE DEF costs2
    <3>1. CASE i \in 0 .. H - 1
      BY <3>1, <1>6, <1>11
    <3>2. CASE \E j \in 1 .. fresh : i = H - 1 + j
      BY <3>2, <1>6, <1>9, <1>11, SMTT(30)
    <3> QED
      BY <3>1, <3>2, <1>12
  <2> QED
    BY <2>1
<1> HIDE DEF costs2
<1>14. costs2[0] = 0
  BY <1>1, <1>3, <1>11
<1>15. ASSUME NEW i \in 1 .. F
       PROVE  costs2[i] = costs2[i - 1] + Cost(new[st2[i]].symbol)
  <2>1. CASE i \in 0 .. H - 1
    <3>1. i \in 1 .. H - 1 /\ i - 1 \in 0 .. H - 1 /\ i \in 1 .. H
      BY <2>1, <1>1
    <3>2. new[st2[i]].symbol = tr[st[i]].symbol
      BY <3>1, <1>1
    <3>3. costs2[i] = costs[i] /\ costs2[i - 1] = costs[i - 1]
      BY <2>1, <3>1, <1>11
    <3> QED
      BY <3>1, <3>2, <3>3, <1>1, <1>3
  <2>2. CASE \E j \in 1 .. fresh : i = H - 1 + j
    <3>1. PICK j \in 1 .. fresh : i = H - 1 + j
      BY <2>2
    <3>2. Cost(new[st2[i]].symbol) = C(fresh + 1 - j)
      BY <3>1, <1>1 DEF C
    <3>3. costs2[i] = rest + upto[j]
      BY <3>1, <1>11
    <3>4. C(fresh + 1 - j) \in Int
      <4>1. fresh + 1 - j \in 1 .. 3
        BY <1>7
      <4> QED
        BY <4>1, <1>5
    <3>5. CASE j = 1
      <4>1. i - 1 = H - 1 /\ H - 1 \in 0 .. H - 1 /\ fresh # 0
            /\ fresh + 1 - j = fresh
        BY <3>1, <3>5, <1>1, <1>7
      <4>2. costs2[i - 1] = rest
        BY <4>1, <1>11
      <4> QED
        BY <3>2, <3>3, <3>5, <4>1, <4>2, <1>9
    <3>6. CASE j # 1
      <4>1. j - 1 \in 1 .. fresh /\ i - 1 = H - 1 + (j - 1) /\ j \in 2 .. fresh
        BY <3>1, <3>6, <1>1, <1>7, SMTT(30)
      <4>2. costs2[i - 1] = rest + upto[j - 1] /\ upto[j - 1] \in Int
        BY <4>1, <1>9, <1>11
      <4>3. upto[j] = upto[j - 1] + C(fresh + 1 - j)
        BY <4>1, <1>9
      <4> QED
        BY <3>2, <3>3, <3>4, <4>2, <4>3, <1>6, SMTT(30)
    <3> QED
      BY <3>5, <3>6
  <2>3. i \in 0 .. F
    BY <1>1, <1>7
  <2> QED
    BY <2>1, <2>2, <2>3, <1>12
<1>16. N + K + costs2[F] <= budget
  <2>1. CASE fresh = 0
    <3>1. F = H - 1 /\ H - 1 \in 0 .. H - 1
      BY <2>1, <1>1
    <3>2. costs2[F] = rest
      BY <3>1, <1>11
    <3> QED
      BY <2>1, <3>2, <1>1, <1>3, <1>6, <1>10, SMTT(30)
  <2>2. CASE fresh # 0
    <3>1. fresh \in 1 .. fresh
      BY <2>2, <1>7
    <3>2. costs2[F] = rest + upto[fresh] /\ upto[fresh] \in Int
      BY <3>1, <1>9, <1>11
    <3> QED
      BY <2>2, <3>2, <1>1, <1>3, <1>6, <1>10, SMTT(30)
  <2> QED
    BY <2>1, <2>2
<1>17. Len(st2) = F /\ Len(new) = N + K
  BY DEF Sizes
<1>18. F \in Nat
  BY <1>1, <1>7
<1> HIDE DEF F
<1>19. \A i \in 1 .. F : costs2[i] >= Least(new[st2[i]].symbol)
  <2>1. DOMAIN st2 = 1 .. F
    BY <1>1 DEF F
  <2>2. HasCosts(new, st2, F, costs2)
    BY <1>13, <1>14, <1>15, <1>18, <2>1 DEF HasCosts
  <2> QED
    BY <2>2, PrefixCosts
<1>20. DOMAIN st2 = 1 .. F
  BY <1>1 DEF F
<1> QED
  BY <1>13, <1>14, <1>15, <1>16, <1>17, <1>19, <1>20 DEF CostOK
-----------------------------------------------------------------------------
(* The leaves of a tree that grows.                                        *)

\* What SpansOK says, the number of leaves being M.
Spans(tr, N, st, H, matched, at, M, from, to) ==
    /\ matched \in Nat /\ M = matched + H
    /\ \A k \in 1 .. M : at[k] \in Nat
    /\ \A n \in 1 .. N : /\ from[n] \in Nat /\ to[n] \in Nat
                         /\ from[n] <= to[n] /\ to[n] <= M
    /\ \A k \in 1 .. matched : at[k] \in 1 .. N /\ tr[at[k]].token = k
    /\ \A k \in matched + 1 .. M : at[k] = st[M + 1 - k]
    /\ from[ROOT] = 0 /\ to[ROOT] = M
    /\ \A n \in 1 .. N :
          /\ tr[n].children = <<>> =>
                IF tr[n].symbol = EPSILON THEN to[n] = from[n]
                ELSE to[n] = from[n] + 1 /\ at[to[n]] = n
          /\ tr[n].children # <<>> =>
                /\ from[tr[n].children[1]] = from[n]
                /\ to[tr[n].children[Len(tr[n].children)]] = to[n]
                /\ \A i \in 1 .. Len(tr[n].children) - 1 :
                      from[tr[n].children[i + 1]] = to[tr[n].children[i]]

\* Where the children are.
Inside(tr, N) ==
    \A n \in 1 .. N : LET children == tr[n].children
                      IN  /\ Len(children) \in Nat
                          /\ DOMAIN children = 1 .. Len(children)
                          /\ \A i \in 1 .. Len(children) :
                                children[i] \in 1 .. N
                          /\ children # <<>> => Len(children) # 0

\* The children of a node are nodes.
LEMMA AreInside ==
    ASSUME NEW tr, TreeOK(tr), ExpandedOK(tr), NEW N, DOMAIN tr = 1 .. N
    PROVE  Inside(tr, N)
<1>1. ASSUME NEW n \in 1 .. N
      PROVE  /\ Len(tr[n].children) \in Nat
             /\ DOMAIN tr[n].children = 1 .. Len(tr[n].children)
             /\ \A i \in 1 .. Len(tr[n].children) :
                   tr[n].children[i] \in 1 .. N
             /\ tr[n].children # <<>> => Len(tr[n].children) # 0
  <2>1. n \in DOMAIN tr
    OBVIOUS
  <2>2. Ids(tr[n].children)
    BY <2>1, TreeDomain
  <2>3. /\ Len(tr[n].children) \in Nat
        /\ DOMAIN tr[n].children = 1 .. Len(tr[n].children)
        /\ tr[n].children # <<>> => Len(tr[n].children) # 0
    BY <2>2, FewIds
  <2>4. ASSUME NEW i \in DOMAIN tr[n].children
        PROVE  tr[n].children[i] \in 1 .. N
    <3>1. tr[n].children # <<>>
      BY <2>4
    <3>2. tr[n].production # NONE
      BY <2>1, <3>1 DEF ExpandedOK
    <3>3. tr[n].children[i] # NO_NODE
      BY <2>1, <3>2 DEF ExpandedOK
    <3>4. tr[n].children[i] \in {NO_NODE} \cup n + 1 .. Len(tr)
      BY <2>1 DEF TreeOK
    <3>5. n + 1 .. Len(tr) \subseteq DOMAIN tr
      BY <2>1, TreeDomain
    <3> QED
      BY <3>3, <3>4, <3>5
  <2> QED
    BY <2>3, <2>4
<1> QED
  BY <1>1 DEF Inside

\* An expansion puts the children's leaves where the leaf of the node was.
LEMMA SpansGrow ==
    ASSUME NEW tr, NEW N, NEW st, NEW H, NEW production, NEW symbols, NEW K,
           NEW fresh, NEW new, NEW st2,
           Expands(tr, N, st, H, production, symbols, K, fresh, new, st2),
           PendingOK(tr, st), tr[st[H]].children = <<>>, Inside(tr, N),
           Len(new[st[H]].children) = K, new[st[H]].children # <<>>,
           new[st[H]].token = tr[st[H]].token,
           NEW matched, NEW at, NEW M, NEW from, NEW to,
           Spans(tr, N, st, H, matched, at, M, from, to)
    PROVE  \E at2, M2, from2, to2 :
              /\ Spans(new, N + K, st2, H - 1 + fresh, matched, at2, M2,
                       from2, to2)
              /\ at2 \in [1 .. M2 -> Nat]
              /\ from2 \in [1 .. N + K -> Nat] /\ to2 \in [1 .. N + K -> Nat]
<1> DEFINE top == st[H]
<1>1. /\ N \in Nat \ {0} /\ DOMAIN tr = 1 .. N /\ K \in 1 .. 3
      /\ H \in Nat \ {0} /\ top \in 1 .. N /\ DOMAIN st = 1 .. H
      /\ \A i \in 1 .. H : st[i] \in 1 .. N
      /\ fresh \in 0 .. 3
  BY DEF Expands
<1>2. /\ \A n \in 1 .. N : n # top => new[n] = tr[n]
      /\ DOMAIN new = 1 .. N + K
      /\ new[top].symbol = tr[top].symbol
      /\ \A i \in 1 .. K : /\ new[top].children[i] = N + i
                           /\ new[N + i].symbol = symbols[i]
                           /\ new[N + i].children = <<>>
  BY DEF Expands
<1>3. /\ \A i \in 1 .. H - 1 : st2[i] = st[i]
      /\ \A i \in 1 .. fresh : st2[H - 1 + i] = N + (fresh + 1 - i)
  BY DEF Expands
<1>4. \/ fresh = 0 /\ K = 1 /\ symbols[1] = EPSILON
      \/ fresh = K /\ \A i \in 1 .. K : symbols[i] # EPSILON
  BY DEF Expands
<1>5. /\ matched \in Nat /\ M = matched + H
      /\ \A k \in 1 .. M : at[k] \in Nat
      /\ \A n \in 1 .. N : /\ from[n] \in Nat /\ to[n] \in Nat
                           /\ from[n] <= to[n] /\ to[n] <= M
  BY DEF Spans
<1>6. /\ \A k \in 1 .. matched : at[k] \in 1 .. N /\ tr[at[k]].token = k
      /\ \A k \in matched + 1 .. M : at[k] = st[M + 1 - k]
  BY DEF Spans
<1>7. \A n \in 1 .. N : tr[n].children = <<>> =>
         IF tr[n].symbol = EPSILON THEN to[n] = from[n]
         ELSE to[n] = from[n] + 1 /\ at[to[n]] = n
  BY DEF Spans
<1>8. M \in Nat
  BY <1>1, <1>5
<1>9. tr[top].symbol # EPSILON /\ tr[top].token = 0
      /\ \A i \in 1 .. H : st[i] = top => i = H
  BY <1>1 DEF PendingOK
<1>10. to[top] = matched + 1 /\ from[top] = matched /\ at[matched + 1] = top
  <2>1. to[top] = from[top] + 1 /\ at[to[top]] = top
    BY <1>1, <1>7, <1>9
  <2>2. to[top] \in 1 .. M
    BY <2>1, <1>1, <1>5
  <2>3. to[top] \notin 1 .. matched
    <3>1. ASSUME to[top] \in 1 .. matched PROVE FALSE
      <4>1. tr[at[to[top]]].token = to[top]
        BY <3>1, <1>6
      <4> QED
        BY <4>1, <2>1, <2>2, <1>9
    <3> QED
      BY <3>1
  <2>4. to[top] \in matched + 1 .. M /\ M + 1 - to[top] \in 1 .. H
    BY <2>2, <2>3, <1>1, <1>5, <1>8, SMTT(30)
  <2>5. M + 1 - to[top] = H
    BY <2>1, <2>4, <1>6, <1>9
  <2>6. to[top] = matched + 1
    BY <2>4, <2>5, <1>1, <1>5, SMTT(30)
  <2> QED
    BY <2>1, <2>6, <1>1, <1>5, SMTT(30)
<1> DEFINE M2 == M - 1 + fresh
           Shift(k) == IF k <= matched THEN k ELSE k - 1 + fresh
           at2 == [k \in 1 .. M2 |-> IF k <= matched THEN at[k]
                                     ELSE IF k <= matched + fresh
                                     THEN N + (k - matched)
                                     ELSE at[k - fresh + 1]]
           from2 == [n \in 1 .. N + K |->
                       IF n <= N THEN Shift(from[n])
                       ELSE IF fresh = 0 THEN matched
                       ELSE matched + (n - N) - 1]
           to2 == [n \in 1 .. N + K |->
                       IF n <= N THEN Shift(to[n])
                       ELSE IF fresh = 0 THEN matched
                       ELSE matched + (n - N)]
<1>11. M2 \in Nat /\ M2 = matched + (H - 1 + fresh)
  BY <1>1, <1>5, SMTT(30)
<1>12. /\ \A n \in 1 .. N : from2[n] = Shift(from[n]) /\ to2[n] = Shift(to[n])
       /\ \A i \in 1 .. K :
             /\ from2[N + i] = IF fresh = 0 THEN matched ELSE matched + i - 1
             /\ to2[N + i] = IF fresh = 0 THEN matched ELSE matched + i
  <2>1. \A n \in 1 .. N : n \in 1 .. N + K /\ n <= N
    BY <1>1
  <2>2. \A i \in 1 .. K : /\ N + i \in 1 .. N + K /\ ~ (N + i <= N)
                          /\ (N + i) - N = i
    BY <1>1
  <2> HIDE DEF Shift
  <2> QED
    BY <2>1, <2>2
<1>13. \A k \in 1 .. M2 : at2[k] = IF k <= matched THEN at[k]
                                   ELSE IF k <= matched + fresh
                                   THEN N + (k - matched)
                                   ELSE at[k - fresh + 1]
  BY <1>11
<1>14. at2 \in [1 .. M2 -> Nat]
  <2>1. ASSUME NEW k \in 1 .. M2 PROVE at2[k] \in Nat
    <3>1. k <= matched => k \in 1 .. M
      BY <1>1, <1>5
    <3>2. k > matched + fresh => k - fresh + 1 \in 1 .. M
      BY <1>1, <1>5, <1>11
    <3>3. k > matched => N + (k - matched) \in Nat
      BY <1>1, <1>5
    <3>4. k \in Nat /\ matched + fresh \in Nat
      BY <1>1, <1>5
    <3> HIDE DEF at2, M2
    <3>5. CASE k <= matched
      BY <3>1, <3>5, <1>5, <1>13
    <3>6. CASE k > matched /\ k <= matched + fresh
      BY <3>3, <3>6, <1>5, <1>13
    <3>7. CASE k > matched + fresh
      <4>1. ~ (k <= matched) /\ ~ (k <= matched + fresh)
        BY <3>4, <3>7, <1>1, <1>5
      <4> QED
        BY <3>2, <3>7, <4>1, <1>5, <1>13
    <3> QED
      BY <3>4, <3>5, <3>6, <3>7, <1>5
  <2> QED
    BY <2>1
<1>15. \A k \in 0 .. M : /\ Shift(k) \in Nat /\ Shift(k) <= M2
                         /\ \A l \in k .. M : Shift(k) <= Shift(l)
  BY <1>1, <1>5, <1>8
<1>16. \A n \in 1 .. N : /\ from[n] \in 0 .. M /\ to[n] \in from[n] .. M
                         /\ to[n] \in 0 .. M
  BY <1>5, <1>8
<1>17. \A n \in 1 .. N + K : \/ n \in 1 .. N
                             \/ \E i \in 1 .. K : n = N + i
  <2> TAKE n \in 1 .. N + K
  <2>1. CASE n > N
    <3>1. n - N \in 1 .. K /\ n = N + (n - N)
      BY <2>1, <1>1
    <3> QED
      BY <3>1
  <2> QED
    BY <2>1, <1>1
<1> HIDE DEF at2, from2, to2
<1>18. \A n \in 1 .. N + K : /\ from2[n] \in Nat /\ to2[n] \in Nat
                             /\ from2[n] <= to2[n] /\ to2[n] <= M2
  <2>1. ASSUME NEW n \in 1 .. N
        PROVE  /\ from2[n] \in Nat /\ to2[n] \in Nat
               /\ from2[n] <= to2[n] /\ to2[n] <= M2
    <3> HIDE DEF Shift
    <3> QED
      BY <1>12, <1>15, <1>16
  <2>2. ASSUME NEW i \in 1 .. K
        PROVE  /\ from2[N + i] \in Nat /\ to2[N + i] \in Nat
               /\ from2[N + i] <= to2[N + i] /\ to2[N + i] <= M2
    <3>1. CASE fresh = 0
      <4>1. from2[N + i] = matched /\ to2[N + i] = matched
        BY <3>1, <1>12
      <4> QED
        BY <3>1, <4>1, <1>1, <1>5, <1>11
    <3>2. CASE fresh # 0
      <4>1. from2[N + i] = matched + i - 1 /\ to2[N + i] = matched + i
            /\ fresh = K
        BY <3>2, <1>4, <1>12
      <4> QED
        BY <3>2, <4>1, <1>1, <1>5, <1>11
    <3> QED
      BY <3>1, <3>2
  <2> QED
    BY <2>1, <2>2, <1>17
<1>19. from2 \in [1 .. N + K -> Nat] /\ to2 \in [1 .. N + K -> Nat]
  BY <1>18 DEF from2, to2
<1>20. \A k \in 1 .. M2 : at2[k] \in Nat
  BY <1>14
<1>21. ASSUME NEW k \in 1 .. matched
       PROVE  at2[k] \in 1 .. N + K /\ new[at2[k]].token = k
  <2>1. at[k] \in 1 .. N /\ tr[at[k]].token = k
    BY <1>6
  <2>2. k \in 1 .. M2 /\ k <= matched
    BY <1>1, <1>5, <1>11
  <2>3. at2[k] = at[k]
    BY <2>2, <1>13
  <2>4. at[k] # top
    BY <2>1, <1>5, <1>9
  <2> QED
    BY <2>1, <2>3, <2>4, <1>1, <1>2
<1>22. ASSUME NEW k \in matched + 1 .. M2 PROVE at2[k] = st2[M2 + 1 - k]
  <2>1. k \in 1 .. M2 /\ ~ (k <= matched) /\ k \in Nat
    BY <1>5, <1>11
  <2>2. CASE k <= matched + fresh
    <3>1. matched + fresh + 1 - k \in 1 .. fresh
          /\ M2 + 1 - k = H - 1 + (matched + fresh + 1 - k)
          /\ fresh + 1 - (matched + fresh + 1 - k) = k - matched
      BY <2>1, <2>2, <1>1, <1>5, <1>11
    <3>2. st2[M2 + 1 - k] = N + (k - matched)
      BY <3>1, <1>3
    <3> QED
      BY <2>1, <2>2, <3>2, <1>13
  <2>3. CASE ~ (k <= matched + fresh)
    <3>1. /\ k - fresh + 1 \in matched + 1 .. M
          /\ M + 1 - (k - fresh + 1) = M2 + 1 - k
          /\ M2 + 1 - k \in 1 .. H - 1
      BY <2>1, <2>3, <1>1, <1>5, <1>8, <1>11
    <3>2. at[k - fresh + 1] = st[M2 + 1 - k]
      BY <3>1, <1>6
    <3>3. st2[M2 + 1 - k] = st[M2 + 1 - k]
      BY <3>1, <1>3
    <3> QED
      BY <3>2, <3>3, <2>1, <2>3, <1>13
  <2> QED
    BY <2>2, <2>3
<1>23. from2[ROOT] = 0 /\ to2[ROOT] = M2
  <2>1. from[ROOT] = 0 /\ to[ROOT] = M
    BY DEF Spans
  <2>2. ROOT \in 1 .. N
    BY <1>1 DEF ROOT
  <2>3. from2[ROOT] = Shift(0) /\ to2[ROOT] = Shift(M)
    BY <2>1, <2>2, <1>12
  <2>4. Shift(0) = 0 /\ Shift(M) = M2
    BY <1>1, <1>5
  <2> QED
    BY <2>3, <2>4
<1>24. ASSUME NEW n \in 1 .. N, n # top, new[n].children = <<>>
       PROVE  IF new[n].symbol = EPSILON THEN to2[n] = from2[n]
              ELSE to2[n] = from2[n] + 1 /\ at2[to2[n]] = n
  <2>1. new[n] = tr[n]
    BY <1>2, <1>24
  <2>2. CASE new[n].symbol = EPSILON
    <3>1. to[n] = from[n]
      BY <2>1, <2>2, <1>7, <1>24
    <3> HIDE DEF Shift
    <3> QED
      BY <2>2, <3>1, <1>12
  <2>3. CASE new[n].symbol # EPSILON
    <3>1. to[n] = from[n] + 1 /\ at[to[n]] = n
      BY <2>1, <2>3, <1>7, <1>24
    <3>2. to[n] # matched + 1
      BY <3>1, <1>10, <1>24
    <3>3. from[n] \in Nat /\ to[n] \in Nat /\ to[n] <= M
      BY <1>5
    <3>4. CASE to[n] <= matched
      <4>1. Shift(to[n]) = to[n] /\ Shift(from[n]) = from[n]
        BY <3>1, <3>3, <3>4, <1>5
      <4>2. to2[n] = to[n] /\ from2[n] = from[n]
        BY <4>1, <1>12
      <4>3. to[n] \in 1 .. M2
        BY <3>1, <3>3, <3>4, <1>1, <1>5, <1>11, SMTT(30)
      <4>4. at2[to[n]] = at[to[n]]
        BY <3>4, <4>3, <1>13
      <4> QED
        BY <2>3, <3>1, <4>2, <4>4
    <3>5. CASE to[n] > matched + 1
      <4>1. Shift(to[n]) = to[n] - 1 + fresh
            /\ Shift(from[n]) = from[n] - 1 + fresh
        BY <3>1, <3>3, <3>5, <1>5
      <4>2. to2[n] = to[n] - 1 + fresh /\ from2[n] = from[n] - 1 + fresh
        BY <4>1, <1>12
      <4>3. /\ to2[n] \in 1 .. M2 /\ ~ (to2[n] <= matched)
            /\ ~ (to2[n] <= matched + fresh)
            /\ to2[n] - fresh + 1 = to[n]
        <5>1. fresh \in Nat /\ matched \in Nat /\ M \in Nat
          BY <1>1, <1>5, <1>8
        <5>2. M2 = M - 1 + fresh
          OBVIOUS
        <5> HIDE DEF M2
        <5> QED
          BY ONLY <5>1, <5>2, <3>3, <3>5, <4>2
      <4>4. at2[to2[n]] = at[to[n]]
        BY <4>3, <1>13
      <4>5. to2[n] = from2[n] + 1
        BY <3>1, <3>3, <4>2, <1>1, SMTT(30)
      <4> QED
        BY <2>3, <3>1, <4>4, <4>5
    <3> QED
      BY <3>2, <3>3, <3>4, <3>5, <1>5
  <2> QED
    BY <2>2, <2>3
<1>25. ASSUME NEW n \in 1 .. N, n # top, new[n].children # <<>>
       PROVE  LET children == new[n].children
              IN  /\ from2[children[1]] = from2[n]
                  /\ to2[children[Len(children)]] = to2[n]
                  /\ \A i \in 1 .. Len(children) - 1 :
                        from2[children[i + 1]] = to2[children[i]]
  <2>1. PICK children, k : children = tr[n].children /\ k = Len(tr[n].children)
    OBVIOUS
  <2>2. new[n].children = children /\ k = Len(children) /\ children # <<>>
    BY <2>1, <1>2, <1>25
  <2>3. k \in Nat \ {0} /\ \A i \in 1 .. k : children[i] \in 1 .. N
    BY <2>1, <2>2 DEF Inside
  <2>4. /\ from[children[1]] = from[n] /\ to[children[k]] = to[n]
        /\ \A i \in 1 .. k - 1 : from[children[i + 1]] = to[children[i]]
    <3>1. tr[n].children # <<>>
      BY <2>1, <2>2
    <3>2. /\ from[tr[n].children[1]] = from[n]
          /\ to[tr[n].children[Len(tr[n].children)]] = to[n]
          /\ \A i \in 1 .. Len(tr[n].children) - 1 :
                from[tr[n].children[i + 1]] = to[tr[n].children[i]]
      BY <3>1 DEF Spans
    <3> QED
      BY <2>1, <3>2
  <2>5. /\ 1 \in 1 .. k /\ k \in 1 .. k
        /\ \A i \in 1 .. k - 1 : i \in 1 .. k /\ i + 1 \in 1 .. k
    BY <2>3
  <2> HIDE DEF Shift
  <2>6. \A i \in 1 .. k : /\ from2[children[i]] = Shift(from[children[i]])
                          /\ to2[children[i]] = Shift(to[children[i]])
    BY <2>3, <1>12
  <2>7. from2[n] = Shift(from[n]) /\ to2[n] = Shift(to[n])
    BY <1>12
  <2>8. /\ from2[children[1]] = from2[n] /\ to2[children[k]] = to2[n]
        /\ \A i \in 1 .. k - 1 : from2[children[i + 1]] = to2[children[i]]
    BY <2>4, <2>5, <2>6, <2>7
  <2> QED
    BY <2>2, <2>8
<1>26. /\ from2[top] = matched /\ to2[top] = matched + fresh
  <2>1. Shift(matched) = matched /\ Shift(matched + 1) = matched + fresh
    BY <1>1, <1>5
  <2> HIDE DEF Shift
  <2> QED
    BY <2>1, <1>1, <1>10, <1>12
<1>27. /\ from2[new[top].children[1]] = from2[top]
       /\ to2[new[top].children[K]] = to2[top]
       /\ \A i \in 1 .. K - 1 :
             from2[new[top].children[i + 1]] = to2[new[top].children[i]]
  <2>1. /\ 1 \in 1 .. K /\ K \in 1 .. K
        /\ \A i \in 1 .. K - 1 : i \in 1 .. K /\ i + 1 \in 1 .. K
    BY <1>1
  <2>2. /\ from2[N + 1] = matched /\ to2[N + K] = matched + fresh
    <3>1. CASE fresh = 0
      BY <2>1, <3>1, <1>4, <1>5, <1>12
    <3>2. CASE fresh # 0
      <4>1. from2[N + 1] = matched + 1 - 1 /\ to2[N + K] = matched + K
        BY <2>1, <3>2, <1>12
      <4> QED
        BY <3>2, <4>1, <1>4, <1>5
    <3> QED
      BY <3>1, <3>2
  <2>3. ASSUME NEW i \in 1 .. K - 1 PROVE from2[N + (i + 1)] = to2[N + i]
    <3>1. fresh # 0
      BY <1>1, <1>4
    <3>2. from2[N + (i + 1)] = matched + (i + 1) - 1
          /\ to2[N + i] = matched + i
      BY <2>1, <3>1, <1>12
    <3> QED
      BY <3>2, <1>5
  <2> QED
    BY <2>1, <2>2, <2>3, <1>2, <1>26, ZenonT(60)
<1>28. ASSUME NEW i \in 1 .. K
       PROVE  IF new[N + i].symbol = EPSILON THEN to2[N + i] = from2[N + i]
              ELSE to2[N + i] = from2[N + i] + 1 /\ at2[to2[N + i]] = N + i
  <2>1. CASE fresh = 0 /\ K = 1 /\ symbols[1] = EPSILON
    <3>1. i = 1
      BY <2>1
    <3>2. new[N + i].symbol = EPSILON
      BY <2>1, <3>1, <1>2
    <3>3. to2[N + i] = from2[N + i]
      BY <2>1, <1>12
    <3> QED
      BY <3>2, <3>3
  <2>2. CASE fresh = K /\ \A j \in 1 .. K : symbols[j] # EPSILON
    <3>1. fresh # 0
      BY <2>2, <1>1
    <3>2. to2[N + i] = matched + i /\ from2[N + i] = matched + i - 1
      BY <3>1, <1>12
    <3>3. matched + i \in 1 .. M2 /\ ~ (matched + i <= matched)
          /\ matched + i <= matched + fresh /\ (matched + i) - matched = i
      BY <2>2, <1>1, <1>5, <1>11
    <3>4. at2[matched + i] = N + i
      BY <3>3, <1>13
    <3>5. new[N + i].symbol # EPSILON
      BY <2>2, <1>2
    <3>6. to2[N + i] = from2[N + i] + 1
      BY <3>2, <1>5
    <3> QED
      BY <3>2, <3>4, <3>5, <3>6
  <2> QED
    BY <2>1, <2>2, <1>4
<1> HIDE DEF M2, Shift
<1>29. ASSUME NEW n \in 1 .. N + K
       PROVE  /\ new[n].children = <<>> =>
                    IF new[n].symbol = EPSILON THEN to2[n] = from2[n]
                    ELSE to2[n] = from2[n] + 1 /\ at2[to2[n]] = n
              /\ new[n].children # <<>> =>
                    /\ from2[new[n].children[1]] = from2[n]
                    /\ to2[new[n].children[Len(new[n].children)]] = to2[n]
                    /\ \A i \in 1 .. Len(new[n].children) - 1 :
                          from2[new[n].children[i + 1]]
                             = to2[new[n].children[i]]
  <2>1. CASE n \in 1 .. N /\ n # top
    BY <2>1, <1>24, <1>25, SMTT(30)
  <2>2. CASE n = top
    BY <2>2, <1>27
  <2>3. CASE \E i \in 1 .. K : n = N + i
    BY <2>3, <1>2, <1>28
  <2> QED
    BY <2>1, <2>2, <2>3, <1>17
<1>30. Spans(new, N + K, st2, H - 1 + fresh, matched, at2, M2, from2, to2)
  BY <1>5, <1>11, <1>18, <1>20, <1>21, <1>22, <1>23, <1>29 DEF Spans
<1> QED
  BY <1>14, <1>19, <1>30

\* The intervals of FrontierOK, named.
LEMMA FrontierHasSpans ==
    ASSUME NEW tr, NEW N, N \in Nat \ {0}, DOMAIN tr = 1 .. N,
           NEW st, NEW H, H \in Nat, Len(st) = H, NEW matched \in Nat,
           FrontierOK(tr, st, matched)
    PROVE  \E at, M, from, to :
              /\ Spans(tr, N, st, H, matched, at, M, from, to)
              /\ at \in [1 .. M -> Nat]
              /\ from \in [1 .. N -> Nat] /\ to \in [1 .. N -> Nat]
<1>1. PICK at : /\ Ids(at)
                /\ \E from \in [1 .. N -> Nat], to \in [1 .. N -> Nat] :
                      SpansOK(tr, st, matched, at, from, to)
  BY DEF FrontierOK, Ids
<1>2. PICK from \in [1 .. N -> Nat], to \in [1 .. N -> Nat] :
         SpansOK(tr, st, matched, at, from, to)
  BY <1>1
<1>3. PICK M : M = Len(at)
  OBVIOUS
<1>4. M \in Nat /\ \A k \in 1 .. M : at[k] \in Nat
  BY <1>1, <1>3, FewIds
<1>5. M = matched + H
  BY <1>2, <1>3 DEF SpansOK
<1>6. \A n \in 1 .. N : /\ from[n] \in Nat /\ to[n] \in Nat
                        /\ from[n] <= to[n] /\ to[n] <= M
  BY <1>2, <1>3, ZenonT(60) DEF SpansOK
<1>7. \A k \in 1 .. matched : at[k] \in 1 .. N /\ tr[at[k]].token = k
  BY <1>2 DEF SpansOK
<1>8. \A k \in matched + 1 .. M : at[k] = st[M + 1 - k]
  BY <1>2, <1>3 DEF SpansOK
<1>9. from[ROOT] = 0 /\ to[ROOT] = M
  BY <1>2, <1>3 DEF SpansOK
<1>10. ASSUME NEW n \in 1 .. N
       PROVE  /\ tr[n].children = <<>> =>
                    IF tr[n].symbol = EPSILON THEN to[n] = from[n]
                    ELSE to[n] = from[n] + 1 /\ at[to[n]] = n
              /\ tr[n].children # <<>> =>
                    /\ from[tr[n].children[1]] = from[n]
                    /\ to[tr[n].children[Len(tr[n].children)]] = to[n]
                    /\ \A i \in 1 .. Len(tr[n].children) - 1 :
                          from[tr[n].children[i + 1]]
                             = to[tr[n].children[i]]
  <2>1. n \in DOMAIN tr
    OBVIOUS
  <2> QED
    BY ONLY <2>1, <1>2 DEF SpansOK
<1>11. Spans(tr, N, st, H, matched, at, M, from, to)
  BY ONLY <1>4, <1>5, <1>6, <1>7, <1>8, <1>9, <1>10, matched \in Nat DEF Spans
<1>12. at \in [1 .. M -> Nat]
  BY ONLY <1>1, <1>3 DEF Ids
<1> QED
  BY <1>2, <1>11, <1>12

\* The named intervals are those of FrontierOK.
LEMMA SpansAreFrontier ==
    ASSUME NEW tr, NEW N, DOMAIN tr = 1 .. N,
           NEW st, NEW H, H \in Nat, Len(st) = H,
           NEW matched, NEW at, NEW M, NEW from, NEW to,
           Spans(tr, N, st, H, matched, at, M, from, to),
           at \in [1 .. M -> Nat],
           from \in [1 .. N -> Nat], to \in [1 .. N -> Nat]
    PROVE  FrontierOK(tr, st, matched)
<1>1. matched \in Nat /\ M = matched + H /\ M \in Nat
  BY DEF Spans
<1>2. at \in Seq(Nat) /\ Len(at) = M
  BY <1>1, SMTT(30)
<1>3. /\ Len(at) = matched + Len(st)
      /\ \A k \in 1 .. matched : at[k] \in DOMAIN tr /\ tr[at[k]].token = k
      /\ \A k \in matched + 1 .. Len(at) : at[k] = st[Len(at) + 1 - k]
      /\ from[ROOT] = 0 /\ to[ROOT] = Len(at)
  BY <1>1, <1>2 DEF Spans
<1>4. ASSUME NEW n \in DOMAIN tr
      PROVE  LET children == tr[n].children
             IN  /\ from[n] <= to[n] /\ to[n] <= Len(at)
                 /\ children = <<>> =>
                       IF tr[n].symbol = EPSILON THEN to[n] = from[n]
                       ELSE to[n] = from[n] + 1 /\ at[to[n]] = n
                 /\ children # <<>> =>
                       /\ from[children[1]] = from[n]
                       /\ to[children[Len(children)]] = to[n]
                       /\ \A i \in 1 .. Len(children) - 1 :
                             from[children[i + 1]] = to[children[i]]
  <2>1. n \in 1 .. N
    OBVIOUS
  <2>2. Spans(tr, N, st, H, matched, at, M, from, to)
    OBVIOUS
  <2> QED
    BY ONLY <2>1, <2>2, <1>2, ZenonT(60) DEF Spans
<1>5. SpansOK(tr, st, matched, at, from, to)
  BY ONLY <1>3, <1>4 DEF SpansOK
<1>6. from \in [DOMAIN tr -> Nat] /\ to \in [DOMAIN tr -> Nat]
  OBVIOUS
<1> QED
  BY ONLY <1>2, <1>5, <1>6 DEF FrontierOK

\* An expansion keeps the stack the frontier of the tree.
LEMMA FrontierGrows ==
    ASSUME NEW tr, NEW N, NEW st, NEW H, NEW production, NEW symbols, NEW K,
           NEW fresh, NEW new, NEW st2,
           Expands(tr, N, st, H, production, symbols, K, fresh, new, st2),
           Sizes(tr, N, st, H, symbols, K, fresh, new, st2),
           PendingOK(tr, st), tr[st[H]].children = <<>>, Inside(tr, N),
           Len(new[st[H]].children) = K, new[st[H]].children # <<>>,
           new[st[H]].token = tr[st[H]].token,
           NEW matched \in Nat, FrontierOK(tr, st, matched)
    PROVE  FrontierOK(new, st2, matched)
<1>1. /\ N \in Nat \ {0} /\ DOMAIN tr = 1 .. N /\ H \in Nat \ {0}
      /\ DOMAIN new = 1 .. N + K /\ fresh \in 0 .. 3
  BY DEF Expands
<1>2. Len(st) = H /\ Len(st2) = H - 1 + fresh
  BY DEF Sizes
<1>3. PICK at, M, from, to : Spans(tr, N, st, H, matched, at, M, from, to)
  BY <1>1, <1>2, FrontierHasSpans
<1>4. PICK at2, M2, from2, to2 :
         /\ Spans(new, N + K, st2, H - 1 + fresh, matched, at2, M2,
                  from2, to2)
         /\ at2 \in [1 .. M2 -> Nat]
         /\ from2 \in [1 .. N + K -> Nat] /\ to2 \in [1 .. N + K -> Nat]
  BY <1>3, SpansGrow
<1>5. H - 1 + fresh \in Nat
  BY <1>1
<1> QED
  BY <1>1, <1>2, <1>4, <1>5, SpansAreFrontier
-----------------------------------------------------------------------------
(* What a match changes.                                                   *)

\* The node on top has the token k and is popped.
Matches(tr, N, st, H, k, new, st2) ==
    /\ N \in Nat \ {0} /\ DOMAIN tr = 1 .. N /\ DOMAIN new = 1 .. N
    /\ H \in Nat \ {0} /\ DOMAIN st = 1 .. H /\ DOMAIN st2 = 1 .. H - 1
    /\ \A i \in 1 .. H : st[i] \in 1 .. N
    /\ \A i \in 1 .. H - 1 : st2[i] = st[i]
    /\ \A n \in 1 .. N : /\ new[n].symbol = tr[n].symbol
                         /\ new[n].production = tr[n].production
                         /\ new[n].children = tr[n].children
                         /\ n # st[H] => new[n].token = tr[n].token
    /\ new[st[H]].token = k /\ k \in Nat \ {0}

\* Matching a token leaves productions and children alone.
LEMMA ExpandedMatches ==
    ASSUME NEW tr, NEW N, NEW st, NEW H, NEW k, NEW new, NEW st2,
           Matches(tr, N, st, H, k, new, st2), ExpandedOK(tr), Inside(tr, N)
    PROVE  ExpandedOK(new)
<1>1. /\ DOMAIN tr = 1 .. N /\ DOMAIN new = 1 .. N
      /\ \A n \in 1 .. N : /\ new[n].symbol = tr[n].symbol
                           /\ new[n].production = tr[n].production
                           /\ new[n].children = tr[n].children
  BY DEF Matches
<1>2. ASSUME NEW n \in 1 .. N
      PROVE  IF new[n].production = NONE THEN new[n].children = <<>>
             ELSE /\ new[n].symbol = HeadOf[new[n].production]
                  /\ Len(new[n].children)
                       = Len(Productions[new[n].production])
                  /\ \A i \in DOMAIN new[n].children :
                        /\ new[n].children[i] # NO_NODE
                        /\ new[new[n].children[i]].symbol =
                              Productions[new[n].production][i]
  <2>1. CASE tr[n].production = NONE
    BY <2>1, <1>1 DEF ExpandedOK
  <2>2. CASE tr[n].production # NONE
    <3>1. /\ tr[n].symbol = HeadOf[tr[n].production]
          /\ Len(tr[n].children) = Len(Productions[tr[n].production])
          /\ \A i \in DOMAIN tr[n].children :
                /\ tr[n].children[i] # NO_NODE
                /\ tr[tr[n].children[i]].symbol =
                      Productions[tr[n].production][i]
      BY <2>2, <1>1 DEF ExpandedOK
    <3>2. \A i \in DOMAIN tr[n].children : tr[n].children[i] \in 1 .. N
      BY DEF Inside
    <3> QED
      BY <2>2, <3>1, <3>2, <1>1
  <2> QED
    BY <2>1, <2>2
<1> QED
  BY <1>1, <1>2 DEF ExpandedOK

\* Matching a token takes a node off those still to be parsed.
LEMMA PendingMatches ==
    ASSUME NEW tr, NEW N, NEW st, NEW H, NEW k, NEW new, NEW st2,
           Matches(tr, N, st, H, k, new, st2), PendingOK(tr, st)
    PROVE  PendingOK(new, st2)
<1>1. /\ N \in Nat \ {0} /\ DOMAIN tr = 1 .. N /\ DOMAIN new = 1 .. N
      /\ H \in Nat \ {0} /\ DOMAIN st = 1 .. H /\ DOMAIN st2 = 1 .. H - 1
      /\ \A i \in 1 .. H : st[i] \in 1 .. N
      /\ \A i \in 1 .. H - 1 : st2[i] = st[i]
  BY DEF Matches
<1>2. /\ \A n \in 1 .. N : /\ new[n].symbol = tr[n].symbol
                           /\ new[n].production = tr[n].production
                           /\ n # st[H] => new[n].token = tr[n].token
      /\ new[st[H]].token # 0
  BY DEF Matches
<1>3. /\ \A i \in 1 .. H, j \in 1 .. H : st[i] = st[j] => i = j
      /\ \A i \in 1 .. H : /\ tr[st[i]].symbol # EPSILON
                           /\ tr[st[i]].production = NONE
                           /\ tr[st[i]].token = 0
      /\ \A n \in 1 .. N : \/ tr[n].symbol = EPSILON
                           \/ tr[n].production # NONE \/ tr[n].token # 0
                           \/ \E i \in 1 .. H : st[i] = n
  BY <1>1 DEF PendingOK
<1>4. \A i \in 1 .. H - 1 : i \in 1 .. H /\ i # H
  BY <1>1
<1>5. \A i \in 1 .. H - 1, j \in 1 .. H - 1 : st2[i] = st2[j] => i = j
  BY <1>1, <1>3, <1>4
<1>6. \A i \in 1 .. H - 1 : /\ new[st2[i]].symbol # EPSILON
                            /\ new[st2[i]].production = NONE
                            /\ new[st2[i]].token = 0
  <2> TAKE i \in 1 .. H - 1
  <2>1. st2[i] = st[i] /\ st[i] \in 1 .. N /\ st[i] # st[H] /\ i \in 1 .. H
    <3>1. H \in 1 .. H
      BY <1>1
    <3> QED
      BY <3>1, <1>1, <1>3, <1>4
  <2> QED
    BY <2>1, <1>2, <1>3
<1>7. ASSUME NEW n \in 1 .. N
      PROVE  \/ new[n].symbol = EPSILON
             \/ new[n].production # NONE \/ new[n].token # 0
             \/ \E i \in 1 .. H - 1 : st2[i] = n
  <2>1. CASE n = st[H]
    BY <2>1, <1>2
  <2>2. CASE n # st[H]
    <3>1. \A i \in 1 .. H : st[i] = n => i \in 1 .. H - 1
      BY <2>2, <1>1
    <3> QED
      BY <2>2, <3>1, <1>1, <1>2, <1>3, ZenonT(60)
  <2> QED
    BY <2>1, <2>2
<1> QED
  BY <1>1, <1>5, <1>6, <1>7 DEF PendingOK

\* Matching a token leaves the rest of the stack in order.
LEMMA OrderMatches ==
    ASSUME NEW tr, NEW N, NEW st, NEW H, NEW k, NEW new, NEW st2,
           Matches(tr, N, st, H, k, new, st2), OrderOK(tr, st)
    PROVE  OrderOK(new, st2)
<1>1. /\ H \in Nat \ {0} /\ DOMAIN st = 1 .. H /\ DOMAIN st2 = 1 .. H - 1
      /\ \A i \in 1 .. H : st[i] \in 1 .. N
      /\ \A i \in 1 .. H - 1 : st2[i] = st[i]
      /\ \A n \in 1 .. N : new[n].symbol = tr[n].symbol
  BY DEF Matches
<1>2. \A i \in 1 .. H - 1 : i \in 1 .. H /\ (i # 1 => i - 1 \in 1 .. H - 1)
  BY <1>1
<1>3. \A i \in 1 .. H - 1 : new[st2[i]].symbol = tr[st[i]].symbol
  BY <1>1, <1>2
<1> QED
  BY <1>1, <1>2, <1>3 DEF OrderOK

\* Matching a token frees what the symbol on top was to cost.
LEMMA CostMatches ==
    ASSUME NEW tr, NEW N, NEW st, NEW H, NEW k, NEW new, NEW st2,
           Matches(tr, N, st, H, k, new, st2),
           Len(tr) = N, Len(new) = N, Len(st) = H, Len(st2) = H - 1,
           NEW budget \in Int, NEW after \in Int, CostOK(tr, st, budget),
           budget - Cost(tr[st[H]].symbol) <= after
    PROVE  CostOK(new, st2, after)
<1>1. /\ N \in Nat \ {0} /\ H \in Nat \ {0}
      /\ DOMAIN st = 1 .. H /\ DOMAIN st2 = 1 .. H - 1
      /\ \A i \in 1 .. H : st[i] \in 1 .. N
      /\ \A i \in 1 .. H - 1 : st2[i] = st[i]
      /\ \A n \in 1 .. N : new[n].symbol = tr[n].symbol
  BY DEF Matches
<1>2. PICK costs \in [0 .. H -> Int] :
         /\ costs[0] = 0
         /\ \A i \in 1 .. H :
               /\ costs[i] = costs[i - 1] + Cost(tr[st[i]].symbol)
               /\ costs[i] >= Least(tr[st[i]].symbol)
         /\ N + costs[H] <= budget
  BY <1>1 DEF CostOK
<1> DEFINE costs2 == [i \in 0 .. H - 1 |-> costs[i]]
<1>3. /\ costs2 \in [0 .. H - 1 -> Int]
      /\ \A i \in 0 .. H - 1 : costs2[i] = costs[i]
  <2>1. \A i \in 0 .. H - 1 : i \in 0 .. H
    BY <1>1
  <2> QED
    BY <2>1
<1> HIDE DEF costs2
<1>4. \A i \in 1 .. H - 1 : /\ i \in 1 .. H /\ i - 1 \in 0 .. H - 1
                            /\ i \in 0 .. H - 1
                            /\ new[st2[i]].symbol = tr[st[i]].symbol
  <2> TAKE i \in 1 .. H - 1
  <2>1. i \in 1 .. H /\ i - 1 \in 0 .. H - 1 /\ i \in 0 .. H - 1
    BY <1>1
  <2> QED
    BY <2>1, <1>1
<1>5. \A i \in 1 .. H - 1 :
         /\ costs2[i] = costs2[i - 1] + Cost(new[st2[i]].symbol)
         /\ costs2[i] >= Least(new[st2[i]].symbol)
  BY <1>2, <1>3, <1>4
<1>6. costs2[0] = 0 /\ N + costs2[H - 1] <= after
  <2>1. 0 \in 0 .. H - 1 /\ H - 1 \in 0 .. H - 1 /\ H \in 1 .. H
    BY <1>1
  <2>2. costs2[0] = 0
    BY <2>1, <1>2, <1>3
  <2>3. costs2[H - 1] = costs[H - 1] /\ costs[H - 1] \in Int
    BY <2>1, <1>3
  <2>4. costs[H] = costs[H - 1] + Cost(tr[st[H]].symbol)
    BY <2>1, <1>2
  <2>5. Cost(tr[st[H]].symbol) \in Int
    BY LeastStep
  <2> QED
    BY <2>2, <2>3, <2>4, <2>5, <1>1, <1>2, SMTT(30)
<1> QED
  BY <1>1, <1>3, <1>5, <1>6 DEF CostOK

\* Matching a token moves one leaf from the stack to the tokens matched.
LEMMA FrontierMatches ==
    ASSUME NEW tr, NEW N, NEW st, NEW H, NEW k, NEW new, NEW st2,
           Matches(tr, N, st, H, k, new, st2), PendingOK(tr, st),
           Len(st) = H, Len(st2) = H - 1,
           NEW matched \in Nat, k = matched + 1, FrontierOK(tr, st, matched)
    PROVE  FrontierOK(new, st2, k)
<1>1. /\ N \in Nat \ {0} /\ DOMAIN tr = 1 .. N /\ DOMAIN new = 1 .. N
      /\ H \in Nat \ {0} /\ DOMAIN st = 1 .. H
      /\ \A i \in 1 .. H : st[i] \in 1 .. N
      /\ \A i \in 1 .. H - 1 : st2[i] = st[i]
  BY DEF Matches
<1>2. /\ \A n \in 1 .. N : /\ new[n].symbol = tr[n].symbol
                           /\ new[n].children = tr[n].children
                           /\ n # st[H] => new[n].token = tr[n].token
      /\ new[st[H]].token = k
  BY DEF Matches
<1>3. tr[st[H]].token = 0
  BY <1>1 DEF PendingOK
<1>4. PICK at, M, from, to :
         /\ Spans(tr, N, st, H, matched, at, M, from, to)
         /\ at \in [1 .. M -> Nat]
         /\ from \in [1 .. N -> Nat] /\ to \in [1 .. N -> Nat]
  BY <1>1, FrontierHasSpans
<1>5. M \in Nat /\ M = matched + H /\ M = k + (H - 1) /\ k \in Nat
      /\ k \in 1 .. M
  <2>1. M = matched + H
    BY <1>4 DEF Spans
  <2> QED
    BY ONLY <2>1, <1>1, matched \in Nat, k = matched + 1
<1>6. ASSUME NEW j \in 1 .. k PROVE at[j] \in 1 .. N /\ new[at[j]].token = j
  <2>1. CASE j = k
    <3>1. k \in matched + 1 .. M /\ M + 1 - k = H
      BY ONLY <1>1, <1>5, matched \in Nat, k = matched + 1
    <3>2. at[k] = st[M + 1 - k]
      BY <3>1, <1>4 DEF Spans
    <3>3. at[k] = st[H] /\ H \in 1 .. H
      BY ONLY <3>1, <3>2, <1>1
    <3> QED
      BY ONLY <2>1, <3>3, <1>1, <1>2
  <2>2. CASE j # k
    <3>1. j \in 1 .. matched
      BY ONLY <2>2, j \in 1 .. k, matched \in Nat, k = matched + 1
    <3>2. at[j] \in 1 .. N /\ tr[at[j]].token = j
      BY <3>1, <1>4 DEF Spans
    <3>3. at[j] # st[H]
      BY ONLY <3>1, <3>2, <1>3, matched \in Nat
    <3> QED
      BY ONLY <3>2, <3>3, <1>2
  <2> QED
    BY ONLY <2>1, <2>2
<1>7. ASSUME NEW j \in k + 1 .. M PROVE at[j] = st2[M + 1 - j]
  <2>1. j \in matched + 1 .. M /\ M + 1 - j \in 1 .. H - 1
    BY ONLY <1>1, <1>5, j \in k + 1 .. M, matched \in Nat, k = matched + 1
  <2>2. at[j] = st[M + 1 - j]
    BY <2>1, <1>4 DEF Spans
  <2> QED
    BY ONLY <2>1, <2>2, <1>1
<1>8. \A j \in 1 .. M : at[j] \in Nat
  BY <1>4 DEF Spans
<1>9. \A n \in 1 .. N : /\ from[n] \in Nat /\ to[n] \in Nat
                        /\ from[n] <= to[n] /\ to[n] <= M
  BY <1>4 DEF Spans
<1>10. from[ROOT] = 0 /\ to[ROOT] = M
  BY <1>4 DEF Spans
<1>11. ASSUME NEW n \in 1 .. N
       PROVE  /\ new[n].children = <<>> =>
                     IF new[n].symbol = EPSILON THEN to[n] = from[n]
                     ELSE to[n] = from[n] + 1 /\ at[to[n]] = n
              /\ new[n].children # <<>> =>
                     /\ from[new[n].children[1]] = from[n]
                     /\ to[new[n].children[Len(new[n].children)]] = to[n]
                     /\ \A i \in 1 .. Len(new[n].children) - 1 :
                           from[new[n].children[i + 1]]
                              = to[new[n].children[i]]
  <2>1. /\ tr[n].children = <<>> =>
                     IF tr[n].symbol = EPSILON THEN to[n] = from[n]
                     ELSE to[n] = from[n] + 1 /\ at[to[n]] = n
        /\ tr[n].children # <<>> =>
                     /\ from[tr[n].children[1]] = from[n]
                     /\ to[tr[n].children[Len(tr[n].children)]] = to[n]
                     /\ \A i \in 1 .. Len(tr[n].children) - 1 :
                           from[tr[n].children[i + 1]]
                              = to[tr[n].children[i]]
    BY <1>4 DEF Spans
  <2>2. new[n].symbol = tr[n].symbol /\ new[n].children = tr[n].children
    BY ONLY <1>2, n \in 1 .. N
  <2> QED
    BY ONLY <2>1, <2>2, Zenon
<1>12. Spans(new, N, st2, H - 1, k, at, M, from, to)
  BY ONLY <1>5, <1>6, <1>7, <1>8, <1>9, <1>10, <1>11 DEF Spans
<1>13. H - 1 \in Nat
  BY ONLY <1>1
<1> QED
  BY <1>1, <1>4, <1>12, <1>13, SpansAreFrontier
-----------------------------------------------------------------------------
(* The steps of the stack and the tree.                                    *)

\* Last and Front, in terms of a length that is a number.
LEMMA TopOf ==
    ASSUME NEW S, NEW st \in Seq(S), st # <<>>
    PROVE  /\ Len(st) \in Nat \ {0} /\ DOMAIN st = 1 .. Len(st)
           /\ \A i \in 1 .. Len(st) : st[i] \in S
           /\ Last(st) = st[Len(st)] /\ Last(st) \in S
           /\ Front(st) \in Seq(S) /\ Len(Front(st)) = Len(st) - 1
           /\ DOMAIN Front(st) = 1 .. Len(st) - 1
           /\ \A i \in 1 .. Len(st) - 1 : Front(st)[i] = st[i]
           /\ Front(st) = <<>> <=> Len(st) = 1
<1>1. /\ Len(st) \in Nat \ {0} /\ DOMAIN st = 1 .. Len(st)
      /\ \A i \in 1 .. Len(st) : st[i] \in S
  OBVIOUS
<1>2. Front(st) = SubSeq(st, 1, Len(st) - 1) /\ Last(st) = st[Len(st)]
  BY DEF Front, Last
<1>3. /\ SubSeq(st, 1, Len(st) - 1) \in Seq(S)
      /\ Len(SubSeq(st, 1, Len(st) - 1)) = Len(st) - 1
      /\ \A i \in 1 .. Len(st) - 1 : SubSeq(st, 1, Len(st) - 1)[i] = st[i]
  BY <1>1
<1>4. Last(st) \in S
  BY <1>1, <1>2
<1>5. DOMAIN Front(st) = 1 .. Len(st) - 1
  BY ONLY <1>2, <1>3
<1>6. Front(st) = <<>> <=> Len(st) = 1
  <2>1. /\ Front(st) \in Seq(S) /\ Len(Front(st)) = Len(st) - 1
        /\ Len(st) \in Nat \ {0}
    BY ONLY <1>1, <1>2, <1>3
  <2>2. Front(st) = <<>> <=> Len(Front(st)) = 0
    BY ONLY <2>1, EmptySeq
  <2> QED
    BY ONLY <2>1, <2>2
<1> QED
  BY ONLY <1>1, <1>2, <1>3, <1>4, <1>5, <1>6

\* A sequence over a set is one over a greater set.
LEMMA SeqWider ==
    ASSUME NEW S, NEW T, S \subseteq T, NEW s \in Seq(S)
    PROVE  s \in Seq(T)
<1>1. Len(s) \in Nat /\ \A i \in 1 .. Len(s) : s[i] \in T
  OBVIOUS
<1>2. s = [i \in 1 .. Len(s) |-> s[i]]
  OBVIOUS
<1> QED
  BY <1>1, <1>2

\* The K nodes after the first N.
Fresh(N, K) == [i \in 1 .. K |-> N + i]

\* The nodes pushed: none for epsilon, else all, the first one on top.
LEMMA FrontierFacts ==
    ASSUME NEW symbols, NEW K \in 1 .. 3, NEW N \in Nat,
           NEW ids, ids = Fresh(N, K)
    PROVE  /\ symbols = <<EPSILON>> => Frontier(ids, symbols) = <<>>
           /\ symbols # <<EPSILON>> =>
                 /\ Frontier(ids, symbols) \in Seq(1 .. N + K)
                 /\ Len(Frontier(ids, symbols)) = K
                 /\ \A i \in 1 .. K :
                       Frontier(ids, symbols)[i] = N + (K + 1 - i)
<1>1. /\ ids = [i \in 1 .. K |-> N + i]
      /\ ids \in Seq(1 .. N + K) /\ Len(ids) = K
  BY DEF Fresh
<1>2. Reverse(ids) = [i \in 1 .. K |-> ids[(K - i) + 1]]
  BY <1>1 DEF Reverse
<1>3. \A i \in 1 .. K : /\ (K - i) + 1 \in 1 .. K
                        /\ ids[(K - i) + 1] = N + (K + 1 - i)
                        /\ N + (K + 1 - i) \in 1 .. N + K
  <2>1. ids = [i \in 1 .. K |-> N + i]
    BY <1>1
  <2> QED
    BY ONLY <2>1, K \in 1 .. 3, N \in Nat
<1>4. Reverse(ids) = [i \in 1 .. K |-> N + (K + 1 - i)]
  BY <1>2, <1>3
<1>5. \A i \in 1 .. K : Reverse(ids)[i] = N + (K + 1 - i)
  BY <1>4
<1>6. Reverse(ids) \in [1 .. K -> 1 .. N + K] /\ K \in Nat
  <2>1. [i \in 1 .. K |-> N + (K + 1 - i)] \in [1 .. K -> 1 .. N + K]
    BY <1>3
  <2> QED
    BY ONLY <1>4, <2>1, K \in 1 .. 3
<1>7. Reverse(ids) \in Seq(1 .. N + K) /\ Len(Reverse(ids)) = K
  BY ONLY <1>6
<1> QED
  BY ONLY <1>5, <1>7 DEF Frontier

\* The stack when its top is replaced.
Pushed(tr, st, symbols) ==
    Front(st) \o Frontier([i \in DOMAIN symbols |-> Len(tr) + i], symbols)

\* What Expand does to the tree and the stack, by positions.
LEMMA ExpansionIs ==
    ASSUME NEW tr, TreeOK(tr), NEW st \in Seq(DOMAIN tr), st # <<>>,
           NEW production \in DOMAIN Productions,
           NEW symbols, symbols = Productions[production],
           NEW symbol, NEW next, RowOK(symbol, next, symbols),
           NEW new,
           new = With(tr, Last(st), production, symbols, Len(symbols)),
           NEW st2,
           st2 = Pushed(tr, st, symbols)
    PROVE  \E N, H, K, fresh :
              /\ Expands(tr, N, st, H, production, symbols, K, fresh, new, st2)
              /\ Sizes(tr, N, st, H, symbols, K, fresh, new, st2)
              /\ st[H] = Last(st)
              /\ Len(new[st[H]].children) = K /\ new[st[H]].children # <<>>
              /\ new[st[H]].token = tr[st[H]].token
              /\ st2 \in Seq(DOMAIN new)
<1>1. PICK N : N = Len(tr)
  OBVIOUS
<1>2. PICK H : H = Len(st)
  OBVIOUS
<1>3. PICK K : K = Len(symbols)
  OBVIOUS
<1>4. /\ symbols \in Seq(Symbols) /\ K \in 1 .. 3
      /\ \/ symbols = <<EPSILON>>
         \/ \A i \in 1 .. K : symbols[i] # EPSILON
  BY <1>3 DEF RowOK
<1>5. /\ N \in Nat \ {0} /\ DOMAIN tr = 1 .. N /\ tr \in Seq(ParseTreeNode)
  BY <1>1 DEF TreeOK
<1>6. /\ DOMAIN symbols = 1 .. K /\ \A i \in 1 .. K : symbols[i] \in Symbols
  BY <1>3, <1>4
<1>7. /\ H \in Nat \ {0} /\ DOMAIN st = 1 .. H
      /\ \A i \in 1 .. H : st[i] \in 1 .. N
      /\ Last(st) = st[H] /\ st[H] \in 1 .. N
      /\ Front(st) \in Seq(1 .. N) /\ Len(Front(st)) = H - 1
      /\ \A i \in 1 .. H - 1 : Front(st)[i] = st[i]
  BY <1>2, <1>5, TopOf, ZenonT(60)
<1>8. Grows(new, tr, st[H], production, symbols, K)
  <2>1. K \in 0 .. Len(symbols) /\ st[H] \in DOMAIN tr
    BY <1>3, <1>4, <1>5, <1>7
  <2> QED
    BY <2>1, <1>3, <1>4, <1>5, <1>7, WithFacts
<1>9. /\ Len(new) = N + K /\ DOMAIN new = 1 .. N + K
      /\ \A n \in 1 .. N : n # st[H] => new[n] = tr[n]
      /\ new[st[H]].symbol = tr[st[H]].symbol
      /\ new[st[H]].token = tr[st[H]].token
      /\ new[st[H]].production = production
      /\ DOMAIN new[st[H]].children = 1 .. K
      /\ Len(new[st[H]].children) = K
      /\ \A i \in 1 .. K : new[st[H]].children[i] = N + i
      /\ \A i \in 1 .. K : new[N + i] = NewNode(symbols[i])
  <2>1. \A i \in 1 .. K : i <= K
    BY <1>4
  <2>2. /\ Len(new) = N + K /\ DOMAIN new = 1 .. N + K
        /\ \A n \in 1 .. N : n # st[H] => new[n] = tr[n]
        /\ new[st[H]].symbol = tr[st[H]].symbol
        /\ new[st[H]].token = tr[st[H]].token
        /\ new[st[H]].production = production
        /\ DOMAIN new[st[H]].children = 1 .. K
        /\ Len(new[st[H]].children) = K
        /\ \A i \in 1 .. K : new[st[H]].children[i] =
                                 IF i <= K THEN N + i ELSE NO_NODE
        /\ \A i \in 1 .. K : new[N + i] = NewNode(symbols[i])
    BY ONLY <1>8, <1>1, <1>3, DOMAIN tr = 1 .. N DEF Grows
  <2> QED
    BY ONLY <2>1, <2>2
<1>10. \A i \in 1 .. K : /\ new[N + i].symbol = symbols[i]
                         /\ new[N + i].production = NONE
                         /\ new[N + i].children = <<>>
                         /\ new[N + i].token = 0
  BY <1>6, <1>9, NewNodeType
<1>11. new[st[H]].children # <<>>
  BY <1>4, <1>9
<1> DEFINE ids == Fresh(N, K)
           front == Frontier(ids, symbols)
           fresh == IF symbols = <<EPSILON>> THEN 0 ELSE K
<1>12. st2 = Front(st) \o front
  BY ONLY <1>1, <1>6, st2 = Pushed(tr, st, symbols) DEF Fresh, Pushed
<1> HIDE DEF ids
<1>13. /\ front \in Seq(1 .. N + K) /\ Len(front) = fresh
       /\ \A i \in 1 .. fresh : front[i] = N + (fresh + 1 - i)
  <2>1. /\ symbols = <<EPSILON>> => front = <<>>
        /\ symbols # <<EPSILON>> =>
              /\ front \in Seq(1 .. N + K) /\ Len(front) = K
              /\ \A i \in 1 .. K : front[i] = N + (K + 1 - i)
    <3>1. N \in Nat /\ K \in 1 .. 3
      BY ONLY <1>4, <1>5
    <3> QED
      BY ONLY <3>1, FrontierFacts, ZenonT(60) DEF ids
  <2> HIDE DEF front
  <2>2. CASE symbols = <<EPSILON>>
    BY ONLY <2>1, <2>2
  <2>3. CASE symbols # <<EPSILON>>
    BY ONLY <2>1, <2>3
  <2> QED
    BY <2>2, <2>3
<1>14. fresh \in 0 .. 3
  BY <1>4
<1>15. \/ fresh = 0 /\ K = 1 /\ symbols[1] = EPSILON
       \/ fresh = K /\ \A i \in 1 .. K : symbols[i] # EPSILON
  <2>1. CASE symbols = <<EPSILON>>
    <3>1. Len(symbols) = 1 /\ symbols[1] = EPSILON
      BY ONLY <2>1
    <3> QED
      BY <2>1, <3>1, <1>3
  <2>2. CASE symbols # <<EPSILON>>
    BY <2>2, <1>4
  <2> QED
    BY <2>1, <2>2
<1> HIDE DEF ids, front, fresh
<1>16. /\ st2 \in Seq(1 .. N + K) /\ Len(st2) = H - 1 + fresh
       /\ DOMAIN st2 = 1 .. H - 1 + fresh
       /\ \A i \in 1 .. H - 1 : st2[i] = st[i]
       /\ \A i \in 1 .. fresh : st2[H - 1 + i] = N + (fresh + 1 - i)
  <2>1. Front(st) \in Seq(1 .. N + K)
    <3>1. 1 .. N \subseteq 1 .. N + K
      BY ONLY <1>4, <1>5
    <3> QED
      BY ONLY <3>1, <1>7, SeqWider
  <2>2. /\ Front(st) \o front \in Seq(1 .. N + K)
        /\ Len(Front(st) \o front) = Len(Front(st)) + Len(front)
        /\ \A i \in 1 .. Len(Front(st)) + Len(front) :
              (Front(st) \o front)[i] =
                 IF i <= Len(Front(st)) THEN Front(st)[i]
                                        ELSE front[i - Len(Front(st))]
    BY ONLY <2>1, <1>13, ConcatProperties
  <2>3. /\ st2 \in Seq(1 .. N + K) /\ Len(st2) = H - 1 + fresh
        /\ \A i \in 1 .. H - 1 + fresh :
              st2[i] = IF i <= H - 1 THEN Front(st)[i]
                       ELSE front[i - (H - 1)]
    BY ONLY <2>2, <1>7, <1>12, <1>13
  <2>4. DOMAIN st2 = 1 .. H - 1 + fresh
    BY ONLY <2>3
  <2>5. \A i \in 1 .. H - 1 : st2[i] = st[i]
    <3>1. \A i \in 1 .. H - 1 : i \in 1 .. H - 1 + fresh /\ i <= H - 1
      BY ONLY <1>7, <1>14
    <3> QED
      BY ONLY <3>1, <2>3, <1>7
  <2>6. \A i \in 1 .. fresh : st2[H - 1 + i] = N + (fresh + 1 - i)
    <3>1. \A i \in 1 .. fresh : /\ H - 1 + i \in 1 .. H - 1 + fresh
                                /\ ~(H - 1 + i <= H - 1)
                                /\ (H - 1 + i) - (H - 1) = i
      BY ONLY <1>7, <1>14
    <3> QED
      BY ONLY <3>1, <2>3, <1>13, ZenonT(60)
  <2> QED
    BY <2>3, <2>4, <2>5, <2>6
<1>17. Expands(tr, N, st, H, production, symbols, K, fresh, new, st2)
  BY ONLY <1>4, <1>5, <1>6, <1>7, <1>9, <1>10, <1>15, <1>16 DEF Expands
<1>18. Sizes(tr, N, st, H, symbols, K, fresh, new, st2)
  BY ONLY <1>1, <1>2, <1>3, <1>9, <1>16 DEF Sizes
<1> QED
  BY <1>7, <1>9, <1>11, <1>16, <1>17, <1>18

\* The tree when the node on top gets the token k.
Matched(tr, st, k) == [tr EXCEPT ![Last(st)].token = k]

\* What MatchTerminal does to the tree and the stack, by positions.
LEMMA MatchIs ==
    ASSUME NEW tr, TreeOK(tr), NEW st \in Seq(DOMAIN tr), st # <<>>,
           NEW k \in Nat \ {0}, NEW new, new = Matched(tr, st, k)
    PROVE  /\ TreeOK(new) /\ Len(new) = Len(tr) /\ DOMAIN new = DOMAIN tr
           /\ Front(st) \in Seq(DOMAIN new)
           /\ \E N, H : /\ Matches(tr, N, st, H, k, new, Front(st))
                        /\ Len(tr) = N /\ Len(new) = N
                        /\ Len(st) = H /\ Len(Front(st)) = H - 1
<1>1. PICK N : N = Len(tr)
  OBVIOUS
<1>2. PICK H : H = Len(st)
  OBVIOUS
<1>3. /\ N \in Nat \ {0} /\ DOMAIN tr = 1 .. N /\ tr \in Seq(ParseTreeNode)
  BY <1>1 DEF TreeOK
<1>4. /\ H \in Nat \ {0} /\ DOMAIN st = 1 .. H
      /\ \A i \in 1 .. H : st[i] \in 1 .. N
      /\ Last(st) = st[H] /\ st[H] \in 1 .. N
      /\ Front(st) \in Seq(1 .. N) /\ Len(Front(st)) = H - 1
      /\ DOMAIN Front(st) = 1 .. H - 1
      /\ \A i \in 1 .. H - 1 : Front(st)[i] = st[i]
  BY <1>2, <1>3, TopOf, ZenonT(60)
<1> DEFINE node == [tr[st[H]] EXCEPT !.token = k]
<1>5. tr[st[H]] \in ParseTreeNode
  BY <1>3, <1>4
<1>6. /\ node \in ParseTreeNode /\ node.symbol = tr[st[H]].symbol
      /\ node.production = tr[st[H]].production
      /\ node.children = tr[st[H]].children /\ node.token = k
  BY <1>5 DEF ParseTreeNode
<1>7. new = [tr EXCEPT ![st[H]] = node]
  BY <1>4 DEF Matched
<1> HIDE DEF node
<1>8. /\ new \in Seq(ParseTreeNode) /\ Len(new) = N /\ DOMAIN new = 1 .. N
      /\ new[st[H]] = node
      /\ \A n \in 1 .. N : n # st[H] => new[n] = tr[n]
  BY <1>1, <1>3, <1>4, <1>6, <1>7
<1>9. \A n \in 1 .. N : /\ new[n].symbol = tr[n].symbol
                        /\ new[n].production = tr[n].production
                        /\ new[n].children = tr[n].children
                        /\ n # st[H] => new[n].token = tr[n].token
  BY <1>6, <1>8
<1>10. Matches(tr, N, st, H, k, new, Front(st))
  BY ONLY <1>3, <1>4, <1>6, <1>8, <1>9, k \in Nat \ {0} DEF Matches
<1>11. TreeOK(new)
  <2>1. /\ \A p \in 1 .. N :
              /\ Len(tr[p].children) <= 3
              /\ \A i \in DOMAIN tr[p].children :
                    tr[p].children[i] \in {NO_NODE} \cup p + 1 .. N
        /\ \A p \in 1 .. N, q \in 1 .. N :
              \A i \in DOMAIN tr[p].children, j \in DOMAIN tr[q].children :
                  tr[p].children[i] = tr[q].children[j]
                    => tr[p].children[i] = NO_NODE \/ (p = q /\ i = j)
        /\ \A n \in 2 .. N :
              \E p \in 1 .. N : \E i \in DOMAIN tr[p].children :
                  tr[p].children[i] = n
    BY <1>1, <1>3 DEF TreeOK
  <2>2. \A p \in 1 .. N :
           /\ Len(new[p].children) <= 3
           /\ \A i \in DOMAIN new[p].children :
                 new[p].children[i] \in {NO_NODE} \cup p + 1 .. N
    BY ONLY <2>1, <1>9
  <2>3. \A p \in 1 .. N, q \in 1 .. N :
           \A i \in DOMAIN new[p].children, j \in DOMAIN new[q].children :
               new[p].children[i] = new[q].children[j]
                 => new[p].children[i] = NO_NODE \/ (p = q /\ i = j)
    <3> TAKE p \in 1 .. N, q \in 1 .. N
    <3>1. new[p].children = tr[p].children /\ new[q].children = tr[q].children
      BY ONLY <1>9, p \in 1 .. N, q \in 1 .. N
    <3>2. \A i \in DOMAIN tr[p].children, j \in DOMAIN tr[q].children :
             tr[p].children[i] = tr[q].children[j]
               => tr[p].children[i] = NO_NODE \/ (p = q /\ i = j)
      BY ONLY <2>1, p \in 1 .. N, q \in 1 .. N
    <3> QED
      BY ONLY <3>1, <3>2, Zenon
  <2>4. \A n \in 2 .. N :
           \E p \in 1 .. N : \E i \in DOMAIN new[p].children :
               new[p].children[i] = n
    BY ONLY <2>1, <1>9
  <2>5. new # <<>>
    BY ONLY <1>3, <1>8
  <2> QED
    BY ONLY <1>8, <2>2, <2>3, <2>4, <2>5, ZenonT(60) DEF TreeOK
<1>12. Front(st) \in Seq(DOMAIN new)
  BY ONLY <1>4, <1>8
<1> QED
  BY ONLY <1>1, <1>2, <1>3, <1>4, <1>8, <1>10, <1>11, <1>12
-----------------------------------------------------------------------------
(* The tokens.                                                             *)

\* The tokens end at END, and only there or at a lexer error.
LEMMA TokenFacts ==
    ASSUME tokens \in Inputs
    PROVE  /\ Len(tokens) \in Nat \ {0} /\ DOMAIN tokens = 1 .. Len(tokens)
           /\ \A k \in DOMAIN tokens :
                 /\ tokens[k].terminal \in Terminals \cup {"ERROR"}
                 /\ tokens[k].terminal \notin {"END", "ERROR"}
                      => k + 1 \in DOMAIN tokens
<1>1. Abs!IsTokenSequence(tokens)
  BY ParserAssumption
<1>2. /\ tokens \in Seq(Abs!Token) /\ tokens # <<>>
      /\ \A k \in DOMAIN tokens :
            Abs!Kind(tokens, k) \in {"END", "ERROR"} <=> k = Len(tokens)
  BY <1>1 DEF Abs!IsTokenSequence
<1>3. Len(tokens) \in Nat \ {0} /\ DOMAIN tokens = 1 .. Len(tokens)
  BY <1>2
<1>4. ASSUME NEW k \in DOMAIN tokens
      PROVE  /\ tokens[k].terminal \in Terminals \cup {"ERROR"}
             /\ tokens[k].terminal \notin {"END", "ERROR"}
                  => k + 1 \in DOMAIN tokens
  <2>1. tokens[k] \in Abs!Token
    BY <1>2
  <2>2. tokens[k].terminal \in Abs!Kinds
    BY <2>1 DEF Abs!Token
  <2>3. tokens[k].terminal \in Terminals \cup {"ERROR"}
    BY ONLY <2>2
       DEF Abs!Kinds, Abs!OperandEnds, Abs!Atoms, Abs!Repeaters, Terminals,
           AtomStarts, Quantifiers
  <2>4. k # 0
    BY <1>3
  <2>5. Abs!Kind(tokens, k) = tokens[k].terminal
    BY <2>4 DEF Abs!Kind
  <2>6. tokens[k].terminal \in {"END", "ERROR"} <=> k = Len(tokens)
    BY <1>2, <2>5
  <2>7. k # Len(tokens) => k + 1 \in DOMAIN tokens
    BY <1>3
  <2> QED
    BY <2>3, <2>6, <2>7
<1> QED
  BY <1>3, <1>4

\* The messages of syntax errors are the ones that are named.
LEMMA TableComplaints ==
    ASSUME NEW symbol \in Nonterminals, Current \in Terminals,
           Current \in Fitting(symbol),
           grammar_table_lookup(symbol, Current) = NONE
    PROVE  TableError(symbol) \in SyntaxErrors
<1>1. Current \notin AtomStarts
  <2> SUFFICES ASSUME Current \in AtomStarts PROVE FALSE
    OBVIOUS
  <2>1. symbol = "AlternationTail"
    BY DEF grammar_table_lookup, Nonterminals, NONE, AtomStarts
  <2> QED
    BY <2>1 DEF Fitting, AtomStarts, Terminals, Quantifiers
<1>2. Current \in Quantifiers \cup {"PIPE", "RPAREN", "END"}
  BY <1>1 DEF Terminals
<1> HIDE DEF Current
<1> QED
  BY ONLY <1>2 DEF TableError, SyntaxErrors, Quantifiers

\* parser_set_terminal_error never takes its last branch.
LEMMA TerminalComplaints ==
    ASSUME NEW symbol \in Terminals, Current \in Fitting(symbol),
           symbol # Current
    PROVE  TerminalError(symbol) \in SyntaxErrors
<1>1. \/ symbol = "END" /\ Current = "RPAREN"
      \/ symbol = "RPAREN" /\ Current = "END"
  BY DEF Fitting, Terminals, AtomStarts, Quantifiers
<1> QED
  BY ONLY <1>1 DEF TerminalError, SyntaxErrors

\* What is below a terminal fits every token.
LEMMA BehindTerminal ==
    ASSUME NEW symbol \in Terminals
    PROVE  /\ \A under \in Below(symbol) : Fitting(under) = Terminals
           /\ symbol = "END" <=> symbol \in Bottom
           /\ Below("END") = {}
           /\ Cost(symbol) \in Int /\ Cost(symbol) >= 0 - 9 /\ Cost("END") = 0
BY DEF Below, Fitting, Bottom, Terminals, AtomStarts, Quantifiers, Cost

\* The bound that the costs give.
LEMMA CostBounds ==
    ASSUME NEW tr, NEW N \in Nat, Len(tr) = N, NEW st, NEW H \in Nat,
           Len(st) = H, DOMAIN st = 1 .. H, NEW budget \in Int,
           CostOK(tr, st, budget)
    PROVE  /\ N <= budget + 8
           /\ H # 0 /\ tr[st[H]].symbol \in Nonterminals => N <= budget + 5
<1>1. PICK costs \in [0 .. H -> Int] :
         /\ costs[0] = 0
         /\ \A i \in 1 .. H : costs[i] >= Least(tr[st[i]].symbol)
         /\ N + costs[H] <= budget
  BY DEF CostOK
<1>2. CASE H = 0
  BY <1>1, <1>2
<1>3. CASE H # 0
  <2>1. H \in 1 .. H /\ costs[H] \in Int
    BY <1>1, <1>3
  <2>2. costs[H] >= Least(tr[st[H]].symbol)
    BY <1>1, <2>1
  <2>3. /\ Least(tr[st[H]].symbol) \in Int
        /\ Least(tr[st[H]].symbol) >= 0 - 8
        /\ tr[st[H]].symbol \in Nonterminals
             => Least(tr[st[H]].symbol) >= 0 - 5
    BY LeastStep
  <2> QED
    BY ONLY <1>1, <2>1, <2>2, <2>3, N \in Nat, budget \in Int
<1> QED
  BY <1>2, <1>3
-----------------------------------------------------------------------------
(* The steps.                                                              *)

\* The parser begins with the invariant.
LEMMA InitInvariant ==
    ASSUME Init PROVE IInv
<1>1. tokens \in Inputs
  BY DEF Init
<1>2. Len(tokens) \in Nat
  BY <1>1, TokenFacts
<1>3. TypeOK
  BY <1>2 DEF Init, TypeOK, StateOK
<1>4. PhaseOK
  BY DEF Init, PhaseOK
<1>5. tree = <<>> /\ read = 0 /\ pc = "create"
  BY DEF Init
<1>6. TokensOK(tree) /\ WorkIsLinear
  BY <1>5 DEF TokensOK, WorkIsLinear
<1> QED
  BY <1>1, <1>3, <1>4, <1>5, <1>6 DEF IInv

\* The tree parser_parse_tree starts with.
LEMMA RootFacts ==
           /\ <<NewNode("Regex")>> \in Seq(ParseTreeNode)
           /\ Len(<<NewNode("Regex")>>) = 1
           /\ DOMAIN <<NewNode("Regex")>> = {1}
           /\ <<NewNode("Regex")>>[1].symbol = "Regex"
           /\ <<NewNode("Regex")>>[1].production = NONE
           /\ <<NewNode("Regex")>>[1].children = <<>>
           /\ <<NewNode("Regex")>>[1].token = 0
           /\ TreeOK(<<NewNode("Regex")>>)
<1> DEFINE root == NewNode("Regex")
<1>1. /\ root \in ParseTreeNode /\ root.symbol = "Regex"
      /\ root.production = NONE /\ root.children = <<>> /\ root.token = 0
  BY NewNodeType DEF Symbols, Nonterminals
<1> HIDE DEF root
<1>2. /\ <<root>> \in Seq(ParseTreeNode) /\ Len(<<root>>) = 1
      /\ DOMAIN <<root>> = {1} /\ <<root>>[1] = root
  BY <1>1
<1>3. TreeOK(<<root>>)
  BY <1>1, <1>2 DEF TreeOK
<1> QED
  BY <1>1, <1>2, <1>3 DEF root

\* The empty sequence.
LEMMA NoElements ==
    ASSUME NEW S
    PROVE  <<>> \in Seq(S) /\ Len(<<>>) = 0 /\ DOMAIN <<>> = {}
<1>1. <<>> \in Seq(S) /\ Len(<<>>) = 0
  BY EmptySeq
<1>2. DOMAIN <<>> = 1 .. Len(<<>>)
  BY <1>1
<1> QED
  BY <1>1, <1>2

\* The root is created, or not.
LEMMA CreateRootInvariant ==
    ASSUME IInv, CreateRoot PROVE IInv'
<1>1. /\ pc = "create" /\ tree = <<>> /\ read = 0 /\ live = {}
      /\ stack = <<>> /\ capacity = 0 /\ error = NoError
  BY DEF IInv, PhaseOK, CreateRoot
<1>2. tokens \in Inputs /\ Len(tokens) \in Nat /\ position \in 0 .. Len(tokens)
  BY TokenFacts DEF IInv, TypeOK, StateOK
<1>3. /\ tokens' = tokens /\ read' = 0 /\ stack' = <<>> /\ capacity' = 0
  BY <1>1 DEF CreateRoot, items
<1>4. CASE /\ tree' = <<NewNode("Regex")>> /\ live' = {ROOT}
           /\ pc' = "begin" /\ UNCHANGED fault
  <2>1. error' = NoError /\ position' = position
    BY <1>1, <1>4 DEF fault
  <2>2. TypeOK'
    BY <1>2, <1>3, <1>4, <2>1, RootFacts DEF TypeOK, StateOK, ROOT
  <2>3. PhaseOK'
    BY <1>3, <1>4, <2>1 DEF PhaseOK
  <2>4. TreeOK(tree)' /\ tree'[ROOT].symbol = "Regex"
    BY <1>4, RootFacts DEF ROOT
  <2>5. TokensOK(tree)' /\ WorkIsLinear'
    BY <1>3, <1>4, RootFacts DEF TokensOK, WorkIsLinear
  <2> QED
    BY <1>2, <1>3, <1>4, <2>2, <2>3, <2>4, <2>5 DEF IInv
<1>5. CASE /\ FailAt(0, "failed to allocate parse tree root")
           /\ UNCHANGED memory
  <2>1. /\ pc' = "fail" /\ error' = "failed to allocate parse tree root"
        /\ position' = 0 /\ tree' = <<>> /\ live' = {}
    BY <1>1, <1>5 DEF FailAt, memory
  <2>2. DOMAIN tree' = {} /\ tree' \in Seq(ParseTreeNode) /\ Len(tree') = 0
    BY ONLY <2>1, NoElements
  <2>3. StateOK' /\ error' \in ParserErrors
    <3>1. /\ stack' \in Seq(DOMAIN tree') /\ Len(stack') = 0
          /\ capacity' = 0 /\ tokens' = tokens /\ read' = 0
      BY <1>3, NoElements
    <3>2. pc' = "fail" /\ position' = 0 /\ live' = {}
      BY <2>1
    <3>3. StateOK'
      BY ONLY <1>2, <2>2, <3>1, <3>2 DEF StateOK
    <3> QED
      BY <2>1, <3>3 DEF ParserErrors, ParserMemoryErrors
  <2>4. PhaseOK'
    BY <1>3, <2>1, <2>2 DEF PhaseOK, NoError
  <2>5. TokensOK(tree)' /\ WorkIsLinear'
    BY ONLY <1>3, <2>2 DEF TokensOK, WorkIsLinear
  <2> QED
    BY <1>2, <1>3, <2>1, <2>3, <2>4, <2>5 DEF IInv, TypeOK, NoError
<1> QED
  BY <1>4, <1>5 DEF CreateRoot

\* The first token is scanned.
LEMMA ScanFirstInvariant ==
    ASSUME IInv, ScanFirst PROVE IInv'
<1>1. /\ pc = "begin" /\ tree = <<NewNode("Regex")>> /\ read = 0
      /\ live = {ROOT} /\ stack = <<>> /\ capacity = 0 /\ error = NoError
  BY DEF IInv, PhaseOK, ScanFirst
<1>2. /\ tokens \in Inputs /\ Len(tokens) \in Nat \ {0}
      /\ position \in 0 .. Len(tokens) /\ 1 \in DOMAIN tokens
      /\ tokens[1].terminal \in Terminals \cup {"ERROR"}
  BY TokenFacts DEF IInv, TypeOK, StateOK
<1>3. /\ tokens' = tokens /\ read' = 1 /\ stack' = <<>> /\ capacity' = 0
      /\ tree' = tree /\ live' = live
  <2>1. UNCHANGED <<tokens, memory, items>>
    BY DEF ScanFirst
  <2>2. read' = read + 1
    BY DEF ScanFirst, Advance
  <2> QED
    BY <1>1, <2>1, <2>2 DEF items, memory
<1>4. TreeOK(tree)' /\ tree'[ROOT].symbol = "Regex"
  BY <1>1, <1>3, RootFacts DEF ROOT
<1>5. TokensOK(tree)' /\ WorkIsLinear'
  BY <1>1, <1>3, RootFacts DEF TokensOK, WorkIsLinear
<1>6. CASE tokens[1].terminal = "ERROR"
  <2>1. pc' = "fail" /\ error' = "lexical error" /\ position' = 1
    BY <1>1, <1>3, <1>6 DEF ScanFirst, Advance, FailAt
  <2>2. TypeOK'
    <3>1. 1 \in 0 .. Len(tokens)
      BY ONLY <1>2
    <3>2. /\ stack' \in Seq(DOMAIN tree') /\ Len(stack') = 0
          /\ capacity' = 0 /\ tokens' = tokens /\ read' = 1
      BY <1>3, NoElements
    <3>3. tree' \in Seq(ParseTreeNode) /\ live' \subseteq DOMAIN tree'
      BY <1>1, <1>3, RootFacts DEF ROOT
    <3>4. Len(tokens') = Len(tokens)
      BY ONLY <3>2
    <3>5. read' \in 0 .. Len(tokens') /\ position' \in 0 .. Len(tokens')
      BY ONLY <2>1, <3>1, <3>2, <3>4
    <3>6. Len(stack') <= capacity' /\ capacity' \in Nat
      BY ONLY <3>2
    <3>7. StateOK'
      BY ONLY <2>1, <3>2, <3>3, <3>5, <3>6 DEF StateOK
    <3> QED
      BY <2>1, <3>7 DEF TypeOK, ParserErrors
  <2>3. PhaseOK'
    BY <1>1, <1>3, <2>1, RootFacts DEF PhaseOK, NoError, ROOT
  <2> QED
    BY <1>2, <1>3, <1>4, <1>5, <2>1, <2>2, <2>3 DEF IInv
<1>7. CASE tokens[1].terminal # "ERROR"
  <2>1. pc' = "push" /\ error' = NoError /\ position' = position
    BY <1>1, <1>3, <1>7 DEF ScanFirst, Advance, fault
  <2>2. TypeOK'
    BY <1>1, <1>2, <1>3, <2>1, RootFacts DEF TypeOK, StateOK, ROOT
  <2>3. PhaseOK'
    BY <1>1, <1>2, <1>3, <1>7, <2>1 DEF PhaseOK, Current
  <2> QED
    BY <1>2, <1>3, <1>4, <1>5, <2>1, <2>2, <2>3 DEF IInv
<1> QED
  BY <1>6, <1>7

\* The type of the next state, from that of its parts.
LEMMA StateAfter ==
    ASSUME tokens' = tokens, NEW T \in Nat, T = Len(tokens),
           pc' \in {"create", "begin", "push", "loop", "fail", "done"},
           read' \in 0 .. T, position' \in 0 .. T,
           tree' \in Seq(ParseTreeNode), live' \subseteq DOMAIN tree',
           stack' \in Seq(DOMAIN tree'), capacity' \in Nat,
           Len(stack') <= capacity'
    PROVE  StateOK'
BY DEF StateOK

\* The root is pushed, or the parser gives up.
LEMMA PushRootInvariant ==
    ASSUME IInv, PushRoot PROVE IInv'
<1> DEFINE root == <<NewNode("Regex")>>
<1>1. /\ pc = "push" /\ tree = root /\ read = 1
      /\ live = {ROOT} /\ stack = <<>> /\ capacity = 0 /\ error = NoError
      /\ read \in DOMAIN tokens /\ Current \in Terminals
  BY DEF IInv, PhaseOK, PushRoot
<1>2. /\ tokens \in Inputs /\ Len(tokens) \in Nat \ {0}
      /\ position \in 0 .. Len(tokens) /\ read \in 0 .. Len(tokens)
  BY TokenFacts DEF IInv, TypeOK, StateOK
<1>3. PICK T \in Nat : T = Len(tokens)
  BY <1>2
<1>4. /\ tokens' = tokens /\ read' = 1 /\ tree' = root /\ live' = live
  BY <1>1 DEF PushRoot, memory
<1>5. TreeOK(tree)' /\ tree'[ROOT].symbol = "Regex"
  BY <1>4, RootFacts DEF ROOT
<1>6. TokensOK(tree)' /\ WorkIsLinear'
  BY <1>4, RootFacts DEF TokensOK, WorkIsLinear
<1>7. /\ tree' \in Seq(ParseTreeNode) /\ DOMAIN tree' = {1}
      /\ live' = {1} /\ Len(tree') = 1 /\ tree' # <<>>
  BY <1>1, <1>4, RootFacts DEF ROOT
<1>8. CASE PushAll(<<ROOT>>) /\ pc' = "loop" /\ UNCHANGED fault
  <2>1. /\ stack' = <<1>> /\ Len(stack') = 1 /\ DOMAIN stack' = {1}
        /\ stack'[1] = 1 /\ stack' \in Seq(DOMAIN tree')
    BY <1>7, <1>8 DEF PushAll, ROOT
  <2>2. capacity' = STACK_CAPACITY
    <3>1. ~ Fits(<<ROOT>>)
      BY <1>1 DEF Fits
    <3> QED
      BY <1>1, <1>8, <3>1 DEF PushAll, Doubled
  <2>3. error' = NoError /\ position' = position
    BY <1>1, <1>8 DEF fault
  <2>4. TypeOK'
    <3>1. Len(stack') <= capacity' /\ capacity' \in Nat
      BY ONLY <2>1, <2>2, ParserAssumption
    <3>2. StateOK'
      BY <1>2, <1>3, <1>4, <1>7, <1>8, <2>1, <2>3, <3>1, StateAfter
    <3> QED
      BY <2>3, <3>2 DEF TypeOK
  <2>5. PhaseOK'
    BY <1>1, <1>4, <1>7, <1>8, <2>3 DEF PhaseOK, Current
  <2>6. /\ tree'[1].symbol = "Regex" /\ tree'[1].production = NONE
        /\ tree'[1].children = <<>> /\ tree'[1].token = 0
    BY <1>4, RootFacts
  <2>7. ExpandedOK(tree') /\ PendingOK(tree', stack') /\ OrderOK(tree', stack')
    BY ONLY <1>7, <2>1, <2>6 DEF ExpandedOK, PendingOK, OrderOK, Bottom,
                                 EPSILON, NONE
  <2>8. CostOK(tree', stack', 9 * read' - 5)
    <3> DEFINE costs == [i \in 0 .. 1 |-> IF i = 0 THEN 0 ELSE 3]
    <3>1. costs \in [0 .. 1 -> Int] /\ costs[0] = 0 /\ costs[1] = 3
      OBVIOUS
    <3>2. Cost("Regex") = 3 /\ Least("Regex") = 3
      BY DEF Cost, Least, AtomStarts, Quantifiers
    <3> HIDE DEF costs
    <3>3. \A i \in DOMAIN stack' :
             /\ costs[i] = costs[i - 1] + Cost(tree'[stack'[i]].symbol)
             /\ costs[i] >= Least(tree'[stack'[i]].symbol)
      BY ONLY <2>1, <2>6, <3>1, <3>2
    <3>4. Len(tree') + costs[Len(stack')] <= 9 * read' - 5
      BY ONLY <1>4, <1>7, <2>1, <3>1
    <3>5. costs \in [0 .. Len(stack') -> Int]
      BY ONLY <2>1, <3>1
    <3> QED
      BY ONLY <3>1, <3>3, <3>4, <3>5 DEF CostOK
  <2>9. FrontierOK(tree', stack', 0)
    <3> DEFINE at == <<1>>
               from == [n \in 1 .. 1 |-> 0]
               to == [n \in 1 .. 1 |-> 1]
    <3>1. \A n \in 1 .. 1 : n = 1
      OBVIOUS
    <3>2. Spans(tree', 1, stack', 1, 0, at, 1, from, to)
      BY <2>1, <2>6, <3>1 DEF Spans, ROOT, EPSILON
    <3>3. /\ DOMAIN tree' = 1 .. 1 /\ at \in [1 .. 1 -> Nat]
          /\ from \in [1 .. 1 -> Nat] /\ to \in [1 .. 1 -> Nat]
      BY ONLY <1>7
    <3>4. Len(stack') = 1 /\ 1 \in Nat
      BY <2>1
    <3> HIDE DEF at, from, to
    <3> QED
      BY ONLY <3>2, <3>3, <3>4, SpansAreFrontier
  <2>10. Current' \in Fitting(tree'[Top'].symbol)
    <3>1. Top' = 1
      BY ONLY <2>1 DEF Top, Last
    <3>2. Current' = Current
      BY <1>1, <1>4 DEF Current
    <3>3. Fitting("Regex") = Terminals
      BY DEF Fitting, Terminals, AtomStarts, Quantifiers
    <3> QED
      BY <1>1, <2>6, <3>1, <3>2, <3>3
  <2>11. LoopOK'
    <3>1. stack' # <<>> /\ read' - 1 = 0
      BY ONLY <1>4, <2>1
    <3> QED
      BY <1>7, <2>7, <2>8, <2>9, <2>10, <3>1 DEF LoopOK
  <2> QED
    BY <1>2, <1>4, <1>5, <1>6, <2>4, <2>5, <2>11 DEF IInv
<1>9. CASE PushFails(<<ROOT>>) /\ FailAt(0, "failed to allocate parser stack")
  <2>1. stack' = SubSeq(<<ROOT>>, 1, 0) /\ capacity' = 0
    BY <1>1, <1>9 DEF PushFails
  <2>2. stack' = <<>>
    BY <2>1
  <2>3. stack' \in Seq(DOMAIN tree') /\ Len(stack') = 0
    BY <2>2, NoElements
  <2>4. /\ pc' = "fail" /\ error' = "failed to allocate parser stack"
        /\ position' = 0
    BY <1>9 DEF FailAt
  <2>5. TypeOK'
    <3>1. Len(stack') <= capacity' /\ capacity' \in Nat
      BY ONLY <2>1, <2>3
    <3>2. 0 \in 0 .. T
      OBVIOUS
    <3>3. StateOK'
      BY <1>1, <1>2, <1>3, <1>4, <1>7, <2>3, <2>4, <3>1, <3>2, StateAfter
    <3> QED
      BY <2>4, <3>3 DEF TypeOK, ParserErrors, ParserMemoryErrors
  <2>6. PhaseOK'
    BY <1>4, <1>7, <2>4 DEF PhaseOK, NoError
  <2> QED
    BY <1>2, <1>4, <1>5, <1>6, <2>4, <2>5, <2>6 DEF IInv
<1> QED
  BY <1>8, <1>9 DEF PushRoot

\* What the loop begins a turn with.
LEMMA LoopFacts ==
    ASSUME IInv, pc = "loop"
    PROVE  /\ tokens \in Inputs /\ Len(tokens) \in Nat \ {0}
           /\ read \in 1 .. Len(tokens) /\ read \in DOMAIN tokens
           /\ position \in 0 .. Len(tokens)
           /\ Current \in Terminals /\ error = NoError
           /\ TreeOK(tree) /\ live = DOMAIN tree /\ tree[ROOT].symbol = "Regex"
           /\ tree \in Seq(ParseTreeNode) /\ tree # <<>>
           /\ DOMAIN tree = 1 .. Len(tree) /\ Len(tree) \in Nat \ {0}
           /\ stack \in Seq(DOMAIN tree) /\ capacity \in Nat
           /\ Len(stack) <= capacity
           /\ TokensOK(tree) /\ WorkIsLinear
           /\ ExpandedOK(tree) /\ PendingOK(tree, stack)
           /\ OrderOK(tree, stack)
           /\ CostOK(tree, stack, 9 * read - 5)
<1>1. /\ tokens \in Inputs /\ Len(tokens) \in Nat \ {0}
      /\ DOMAIN tokens = 1 .. Len(tokens)
  BY TokenFacts DEF IInv
<1>2. read \in DOMAIN tokens /\ Current \in Terminals /\ error = NoError
  BY DEF IInv, PhaseOK
<1>3. LoopOK /\ live = DOMAIN tree
  BY DEF IInv, PhaseOK
<1>4. tree # <<>>
  BY <1>3 DEF LoopOK
<1>5. TreeOK(tree) /\ tree[ROOT].symbol = "Regex"
  BY <1>4 DEF IInv
<1>6. DOMAIN tree = 1 .. Len(tree) /\ Len(tree) \in Nat \ {0}
  BY <1>5, TreeDomain
<1> QED
  BY <1>1, <1>2, <1>3, <1>4, <1>5, <1>6 DEF IInv, TypeOK, StateOK, LoopOK

\* And with something on the stack.
LEMMA TopFacts ==
    ASSUME IInv, pc = "loop", stack # <<>>
    PROVE  /\ Top \in DOMAIN tree /\ Node = tree[Top]
           /\ Node \in ParseTreeNode
           /\ Node.production = NONE /\ Node.children = <<>> /\ Node.token = 0
           /\ Node.symbol \in Terminals \cup Nonterminals
           /\ Current \in Fitting(Node.symbol)
           /\ FrontierOK(tree, stack, read - 1)
           /\ Len(stack) \in Nat \ {0} /\ Top = stack[Len(stack)]
           /\ Front(stack) \in Seq(DOMAIN tree)
           /\ Len(Front(stack)) = Len(stack) - 1
           /\ DOMAIN stack = 1 .. Len(stack)
<1>1. /\ stack \in Seq(DOMAIN tree) /\ PendingOK(tree, stack)
      /\ ExpandedOK(tree) /\ tree \in Seq(ParseTreeNode)
  BY LoopFacts
<1>2. LoopOK
  BY DEF IInv
<1>3. /\ Top \in DOMAIN tree /\ Node = tree[Top] /\ Top = stack[Len(stack)]
      /\ Len(stack) \in DOMAIN stack /\ Len(stack) \in Nat \ {0}
      /\ DOMAIN stack = 1 .. Len(stack)
      /\ Front(stack) \in Seq(DOMAIN tree)
      /\ Len(Front(stack)) = Len(stack) - 1
  BY <1>1, TopOf DEF Top, Node
<1>4. Node \in ParseTreeNode
  BY <1>1, <1>3
<1>5. /\ Node.symbol # EPSILON /\ Node.production = NONE /\ Node.token = 0
  BY <1>1, <1>3 DEF PendingOK
<1>6. Node.children = <<>>
  BY <1>1, <1>3, <1>5 DEF ExpandedOK
<1>7. Node.symbol \in Terminals \cup Nonterminals
  BY <1>4, <1>5 DEF ParseTreeNode
<1>8. Current \in Fitting(Node.symbol) /\ FrontierOK(tree, stack, read - 1)
  BY <1>2, <1>3 DEF LoopOK
<1> QED
  BY <1>3, <1>4, <1>5, <1>6, <1>7, <1>8

\* What the two refusals share.
LEMMA RefusalInvariant ==
    ASSUME IInv, pc = "loop", stack # <<>>,
           NEW why \in ParserErrors, Fail(why), Pop,
           UNCHANGED <<tokens, read, memory>>
    PROVE  IInv'
<1>1. /\ tokens' = tokens /\ read' = read /\ tree' = tree /\ live' = live
      /\ stack' = Front(stack) /\ capacity' = capacity
      /\ pc' = "fail" /\ error' = why /\ position' = read
  BY DEF Fail, FailAt, Pop, memory
<1>2. /\ tokens \in Inputs /\ Len(tokens) \in Nat
      /\ read \in 0 .. Len(tokens)
      /\ tree \in Seq(ParseTreeNode) /\ live = DOMAIN tree /\ tree # <<>>
      /\ capacity \in Nat /\ Len(stack) <= capacity
      /\ TreeOK(tree) /\ tree[ROOT].symbol = "Regex"
      /\ TokensOK(tree) /\ WorkIsLinear
  BY LoopFacts
<1>3. /\ Front(stack) \in Seq(DOMAIN tree) /\ Len(stack) \in Nat
      /\ Len(Front(stack)) = Len(stack) - 1
  BY TopFacts
<1>4. why # NoError
  BY DEF ParserErrors, ParserMemoryErrors, SyntaxErrors, NoError
<1>5. TypeOK'
  <2>1. Len(stack') <= capacity'
    BY ONLY <1>1, <1>2, <1>3
  <2>2. StateOK'
    BY <1>1, <1>2, <1>3, <2>1, StateAfter
  <2> QED
    BY <1>1, <2>2 DEF TypeOK
<1>6. PhaseOK'
  BY <1>1, <1>2, <1>4 DEF PhaseOK
<1>7. TokensOK(tree)' /\ WorkIsLinear'
  BY <1>1, <1>2 DEF TokensOK, WorkIsLinear
<1>8. TreeOK(tree)' /\ tree'[ROOT].symbol = "Regex"
  BY <1>1, <1>2
<1> QED
  BY <1>1, <1>2, <1>4, <1>5, <1>6, <1>7, <1>8 DEF IInv

\* A terminal on top that is not the current token.
LEMMA RefuseTerminalInvariant ==
    ASSUME IInv, RefuseTerminal PROVE IInv'
<1>1. /\ pc = "loop" /\ stack # <<>> /\ Node.symbol \in Terminals
      /\ Node.symbol # Current /\ Fail(TerminalError(Node.symbol)) /\ Pop
      /\ UNCHANGED <<tokens, read, memory>>
  BY DEF RefuseTerminal, AtTerminal
<1>2. TerminalError(Node.symbol) \in ParserErrors
  BY <1>1, TopFacts, TerminalComplaints DEF ParserErrors
<1> QED
  BY <1>1, <1>2, RefusalInvariant

\* A nonterminal on top without a production.
LEMMA RefuseNonterminalInvariant ==
    ASSUME IInv, RefuseNonterminal PROVE IInv'
<1>1. /\ pc = "loop" /\ stack # <<>> /\ Node.symbol \in Nonterminals
      /\ grammar_table_lookup(Node.symbol, Current) = NONE
      /\ Fail(TableError(Node.symbol)) /\ Pop
      /\ UNCHANGED <<tokens, read, memory>>
  BY DEF RefuseNonterminal, AtNonterminal, Production
<1>2. TableError(Node.symbol) \in ParserErrors
  BY <1>1, LoopFacts, TopFacts, TableComplaints DEF ParserErrors
<1> QED
  BY <1>1, <1>2, RefusalInvariant

\* A token that is there on behalf of a node is of the node's kind.
LEMMA TokensMatched ==
    ASSUME TokensOK(tree), NEW N, NEW st, NEW H, NEW st2, read \in Nat \ {0},
           Matches(tree, N, st, H, read, tree', st2),
           tree[st[H]].symbol = Current,
           \A n \in 1 .. N : tree[n].token \in Nat,
           tokens' = tokens, read' \in {read, read + 1}
    PROVE  TokensOK(tree)'
<1>1. /\ DOMAIN tree = 1 .. N /\ DOMAIN tree' = 1 .. N
      /\ \A n \in 1 .. N : /\ tree'[n].symbol = tree[n].symbol
                           /\ n # st[H] => tree'[n].token = tree[n].token
      /\ tree'[st[H]].token = read
  BY DEF Matches
<1>2. ASSUME NEW n \in 1 .. N, tree'[n].token # 0
      PROVE  /\ tree'[n].token <= read'
             /\ tokens[tree'[n].token].terminal = tree'[n].symbol
  <2>1. CASE n = st[H]
    BY <2>1, <1>1 DEF Current
  <2>2. CASE n # st[H]
    <3>1. /\ tree[n].token # 0 /\ tree'[n].token = tree[n].token
          /\ tree[n].token \in Nat /\ tree'[n].symbol = tree[n].symbol
      BY <2>2, <1>1, <1>2
    <3>2. /\ tree[n].token <= read
          /\ tokens[tree[n].token].terminal = tree[n].symbol
      BY <3>1, <1>1 DEF TokensOK
    <3> QED
      BY ONLY <3>1, <3>2, read \in Nat \ {0}, read' \in {read, read + 1}
  <2> QED
    BY <2>1, <2>2
<1> QED
  BY <1>1, <1>2 DEF TokensOK

\* A token is matched and, unless it is END, the next one scanned.
LEMMA MatchTerminalInvariant ==
    ASSUME IInv, MatchTerminal PROVE IInv'
<1>1. /\ pc = "loop" /\ stack # <<>> /\ Node.symbol \in Terminals
      /\ Node.symbol = Current
      /\ stack' = Front(stack) /\ capacity' = capacity
      /\ tree' = [tree EXCEPT ![Last(stack)].token = read]
      /\ tokens' = tokens /\ live' = live
  BY DEF MatchTerminal, AtTerminal, Pop, Top
<1>2. /\ tokens \in Inputs /\ Len(tokens) \in Nat \ {0}
      /\ read \in 1 .. Len(tokens) /\ read \in DOMAIN tokens
      /\ position \in 0 .. Len(tokens) /\ error = NoError
      /\ tree \in Seq(ParseTreeNode) /\ live = DOMAIN tree /\ tree # <<>>
      /\ capacity \in Nat /\ Len(stack) <= capacity
      /\ TreeOK(tree) /\ tree[ROOT].symbol = "Regex"
      /\ TokensOK(tree) /\ WorkIsLinear
      /\ stack \in Seq(DOMAIN tree)
      /\ ExpandedOK(tree) /\ PendingOK(tree, stack) /\ OrderOK(tree, stack)
      /\ CostOK(tree, stack, 9 * read - 5)
  BY <1>1, LoopFacts
<1>3. PICK T \in Nat : T = Len(tokens)
  BY <1>2
<1>4. read \in Nat \ {0} /\ read \in 1 .. T /\ position \in 0 .. T
  BY <1>2, <1>3
<1>5. /\ TreeOK(tree') /\ Len(tree') = Len(tree) /\ DOMAIN tree' = DOMAIN tree
      /\ stack' \in Seq(DOMAIN tree')
      /\ \E N, H : /\ Matches(tree, N, stack, H, read, tree', stack')
                   /\ Len(tree) = N /\ Len(tree') = N
                   /\ Len(stack) = H /\ Len(stack') = H - 1
  <2>1. /\ tree' = Matched(tree, stack, read)
        /\ stack # <<>> /\ stack \in Seq(DOMAIN tree) /\ TreeOK(tree)
        /\ read \in Nat \ {0}
    BY <1>1, <1>2, <1>4 DEF Matched
  <2>2. /\ TreeOK(tree') /\ Len(tree') = Len(tree)
        /\ DOMAIN tree' = DOMAIN tree /\ Front(stack) \in Seq(DOMAIN tree')
        /\ \E N, H : /\ Matches(tree, N, stack, H, read, tree', Front(stack))
                     /\ Len(tree) = N /\ Len(tree') = N
                     /\ Len(stack) = H /\ Len(Front(stack)) = H - 1
    BY ONLY <2>1, MatchIs
  <2> QED
    BY ONLY <2>2, <1>1
<1>6. PICK N, H : /\ Matches(tree, N, stack, H, read, tree', stack')
                  /\ Len(tree) = N /\ Len(tree') = N
                  /\ Len(stack) = H /\ Len(stack') = H - 1
  BY <1>5
<1>7. /\ N \in Nat \ {0} /\ DOMAIN tree = 1 .. N /\ DOMAIN tree' = 1 .. N
      /\ H \in Nat \ {0} /\ DOMAIN stack = 1 .. H /\ DOMAIN stack' = 1 .. H - 1
      /\ \A i \in 1 .. H : stack[i] \in 1 .. N
      /\ \A i \in 1 .. H - 1 : stack'[i] = stack[i]
      /\ \A n \in 1 .. N : tree'[n].symbol = tree[n].symbol
  BY <1>6 DEF Matches
<1>8. Node.symbol = tree[stack[H]].symbol /\ H \in DOMAIN stack
  BY <1>1, <1>6, <1>7, TopFacts
<1>9. /\ tree'[ROOT].symbol = "Regex" /\ live' = DOMAIN tree'
      /\ tree' # <<>> /\ tree' \in Seq(ParseTreeNode)
  <2>1. ROOT \in 1 .. N
    BY ONLY <1>7 DEF ROOT
  <2>2. tree' # <<>> /\ tree' \in Seq(ParseTreeNode)
    BY ONLY <1>5 DEF TreeOK
  <2> QED
    BY ONLY <2>1, <2>2, <1>1, <1>2, <1>5, <1>7
<1>10. \A n \in 1 .. N : tree[n].token \in Nat
  BY ONLY <1>2, <1>7, TreeDomain DEF ParseTreeNode
<1>11. Inside(tree, N)
  BY <1>2, <1>7, AreInside
<1>12. ExpandedOK(tree') /\ PendingOK(tree', stack') /\ OrderOK(tree', stack')
  BY <1>2, <1>6, <1>11, ExpandedMatches, PendingMatches, OrderMatches
<1>13. FrontierOK(tree', stack', read)
  <2>1. FrontierOK(tree, stack, read - 1)
    BY <1>1, TopFacts
  <2>2. read - 1 \in Nat /\ read = (read - 1) + 1
    BY ONLY <1>4
  <2> QED
    BY <2>1, <2>2, <1>2, <1>6, FrontierMatches, SMTT(30)
<1>14. Len(stack') <= capacity'
  BY ONLY <1>1, <1>2, <1>6, <1>7
<1>15. N <= 9 * read + 4
  BY <1>2, <1>6 DEF WorkIsLinear
<1>16. /\ \A under \in Below(Current) : Fitting(under) = Terminals
       /\ Current = "END" <=> Current \in Bottom
       /\ Below("END") = {}
       /\ Cost(Current) \in Int /\ Cost(Current) >= 0 - 9 /\ Cost("END") = 0
  BY <1>1, BehindTerminal
<1>17. /\ Current = "END" => H = 1
       /\ Current # "END" =>
             /\ H # 1
             /\ tree'[stack'[H - 1]].symbol \in Below(Current)
  <2>1. IF H = 1 THEN Current \in Bottom
        ELSE tree[stack[H - 1]].symbol \in Below(Current)
    BY <1>1, <1>2, <1>8 DEF OrderOK
  <2>2. H # 1 => H - 1 \in 1 .. H - 1 /\ H - 1 \in 1 .. H
    BY ONLY <1>7
  <2>3. H # 1 => tree'[stack'[H - 1]].symbol = tree[stack[H - 1]].symbol
    BY ONLY <2>2, <1>7
  <2> QED
    BY ONLY <2>1, <2>3, <1>16
<1>18. CASE Current # "END" /\ Advance("loop")
  <2>1. read' = read + 1
    BY <1>18 DEF Advance
  <2>2. read' \in DOMAIN tokens
        /\ tokens[read'].terminal \in Terminals \cup {"ERROR"}
    <3>1. tokens[read].terminal \notin {"END", "ERROR"}
      BY <1>1, <1>18 DEF Current, Terminals, AtomStarts, Quantifiers
    <3> QED
      BY <2>1, <3>1, <1>2, TokenFacts
  <2>3. read' \in 1 .. T /\ read' \in 0 .. T
    BY <2>2, <1>2, <1>3
  <2>4. TokensOK(tree)'
    BY <2>1, <1>1, <1>2, <1>4, <1>6, <1>8, <1>10, TokensMatched
  <2>5. WorkIsLinear'
    <3>1. N <= 9 * (read + 1) + 4
      BY ONLY <1>4, <1>7, <1>15
    <3> QED
      BY ONLY <3>1, <2>1, <1>6 DEF WorkIsLinear
  <2>6. CASE tokens[read'].terminal = "ERROR"
    <3>1. pc' = "fail" /\ error' = "lexical error" /\ position' = read'
      BY <2>1, <2>6, <1>1, <1>18 DEF Advance, FailAt
    <3>2. TypeOK'
      <4>1. StateOK'
        BY <3>1, <2>3, <1>1, <1>2, <1>3, <1>5, <1>9, <1>14, StateAfter
      <4> QED
        BY <3>1, <4>1 DEF TypeOK, ParserErrors
    <3>3. PhaseOK'
      BY <3>1, <1>9 DEF PhaseOK, NoError
    <3> QED
      BY <3>1, <3>2, <3>3, <2>4, <2>5, <1>1, <1>2, <1>5, <1>9
         DEF IInv, NoError
  <2>7. CASE tokens[read'].terminal # "ERROR"
    <3>1. pc' = "loop" /\ error' = NoError /\ position' = position
      BY <2>1, <2>7, <1>1, <1>2, <1>18 DEF Advance, fault
    <3>2. TypeOK'
      <4>1. StateOK'
        BY <3>1, <2>3, <1>1, <1>2, <1>3, <1>4, <1>5, <1>9, <1>14, StateAfter
      <4> QED
        BY <3>1, <4>1 DEF TypeOK
    <3>3. Current' \in Terminals
      BY <2>2, <2>7, <1>1 DEF Current
    <3>4. PhaseOK'
      BY <3>1, <3>3, <2>2, <1>1, <1>9 DEF PhaseOK
    <3>5. stack' # <<>> /\ Top' = stack'[H - 1]
      <4>1. H - 1 \in Nat \ {0}
        BY ONLY <1>7, <1>17, <1>18
      <4> QED
        BY ONLY <4>1, <1>6, NoElements DEF Top, Last
    <3>6. Current' \in Fitting(tree'[Top'].symbol)
      BY <3>3, <3>5, <1>16, <1>17, <1>18
    <3>7. CostOK(tree', stack', 9 * read' - 5)
      <4>1. /\ 9 * read - 5 \in Int /\ 9 * read' - 5 \in Int
            /\ (9 * read - 5) - Cost(Current) <= 9 * read' - 5
        BY ONLY <2>1, <1>4, <1>16
      <4> QED
        <5>1. (9 * read - 5) - Cost(tree[stack[H]].symbol) <= 9 * read' - 5
          BY ONLY <4>1, <1>1, <1>8
        <5> DEFINE budget == 9 * read - 5
                   after == 9 * read' - 5
        <5>2. /\ budget \in Int /\ after \in Int /\ CostOK(tree, stack, budget)
              /\ budget - Cost(tree[stack[H]].symbol) <= after
          BY ONLY <4>1, <5>1, <1>2
        <5> HIDE DEF budget, after
        <5>3. CostOK(tree', stack', after)
          BY ONLY <5>2, <1>6, CostMatches
        <5> QED
          BY ONLY <5>3 DEF after
    <3>8. FrontierOK(tree', stack', read' - 1)
      <4>1. read' - 1 = read
        BY ONLY <2>1, <1>4
      <4> QED
        BY <4>1, <1>13
    <3>9. LoopOK'
      BY <3>5, <3>6, <3>7, <3>8, <1>9, <1>12 DEF LoopOK
    <3> QED
      BY <3>2, <3>4, <3>9, <2>4, <2>5, <1>1, <1>2, <1>5, <1>9 DEF IInv
  <2> QED
    BY <2>6, <2>7
<1>19. CASE Current = "END" /\ UNCHANGED <<pc, read, fault>>
  <2>1. /\ pc' = "loop" /\ read' = read /\ error' = NoError
        /\ position' = position
    BY <1>1, <1>2, <1>19 DEF fault
  <2>2. TokensOK(tree)'
    BY <2>1, <1>1, <1>2, <1>4, <1>6, <1>8, <1>10, TokensMatched
  <2>3. WorkIsLinear'
    BY ONLY <2>1, <1>6, <1>15 DEF WorkIsLinear
  <2>4. TypeOK'
    <3>1. read' \in 0 .. T
      BY ONLY <2>1, <1>4
    <3>2. StateOK'
      BY <3>1, <2>1, <1>1, <1>2, <1>3, <1>4, <1>5, <1>9, <1>14, StateAfter
    <3> QED
      BY <2>1, <3>2 DEF TypeOK
  <2>5. PhaseOK'
    BY <2>1, <1>1, <1>2, <1>9, LoopFacts DEF PhaseOK, Current
  <2>6. stack' = <<>>
    BY <1>1, <1>2, <1>6, <1>17, <1>19, TopOf
  <2>7. CostOK(tree', stack', 9 * read' - 5)
    <3>1. /\ 9 * read - 5 \in Int
          /\ (9 * read - 5) - Cost(Current) <= 9 * read - 5
      BY ONLY <1>4, <1>16, <1>19
    <3> QED
      <4>1. /\ (9 * read - 5) - Cost(tree[stack[H]].symbol) <= 9 * read' - 5
            /\ 9 * read' - 5 \in Int
        BY ONLY <3>1, <2>1, <1>1, <1>8
      <4> DEFINE budget == 9 * read - 5
                 after == 9 * read' - 5
      <4>2. /\ budget \in Int /\ after \in Int /\ CostOK(tree, stack, budget)
            /\ budget - Cost(tree[stack[H]].symbol) <= after
        BY ONLY <3>1, <4>1, <1>2
      <4> HIDE DEF budget, after
      <4>3. CostOK(tree', stack', after)
        BY ONLY <4>2, <1>6, CostMatches
      <4> QED
        BY ONLY <4>3 DEF after
  <2>8. LoopOK'
    BY <2>1, <2>6, <2>7, <1>9, <1>12, <1>13 DEF LoopOK
  <2> QED
    BY <2>2, <2>3, <2>4, <2>5, <2>8, <1>1, <1>2, <1>5, <1>9 DEF IInv
<1> QED
  BY <1>18, <1>19 DEF MatchTerminal

\* New nodes have no tokens yet.
LEMMA TokensGrown ==
    ASSUME TreeOK(tree), TokensOK(tree), NEW top \in DOMAIN tree,
           NEW production, NEW symbols \in Seq(Symbols),
           NEW created \in 0 .. Len(symbols),
           Grows(tree', tree, top, production, symbols, created),
           tokens' = tokens, read' = read
    PROVE  /\ TokensOK(tree)'
           /\ tree'[ROOT].symbol = tree[ROOT].symbol
           /\ Len(tree') = Len(tree) + created /\ tree' # <<>>
           /\ DOMAIN tree'
              = DOMAIN tree \cup Len(tree) + 1 .. Len(tree) + created
<1>1. PICK N \in Nat \ {0} : N = Len(tree) /\ DOMAIN tree = 1 .. N
  BY TreeDomain
<1>2. /\ created \in Nat
      /\ \A i \in 1 .. created : symbols[i] \in Symbols
  OBVIOUS
<1>3. /\ DOMAIN tree' = 1 .. N + created /\ Len(tree') = N + created
      /\ \A n \in 1 .. N : n # top => tree'[n] = tree[n]
      /\ tree'[top].symbol = tree[top].symbol
      /\ tree'[top].token = tree[top].token
      /\ \A i \in 1 .. created : tree'[N + i] = NewNode(symbols[i])
  BY ONLY <1>1, Grows(tree', tree, top, production, symbols, created)
     DEF Grows
<1>4. \A n \in 1 .. N : /\ tree'[n].symbol = tree[n].symbol
                        /\ tree'[n].token = tree[n].token
  BY ONLY <1>3
<1>5. \A i \in 1 .. created : tree'[N + i].token = 0
  <2> TAKE i \in 1 .. created
  <2>1. tree'[N + i] = NewNode(symbols[i])
    BY ONLY <1>3
  <2>2. symbols[i] \in Symbols
    BY ONLY <1>2
  <2>3. NewNode(symbols[i]).token = 0
    BY ONLY <2>2, NewNodeType
  <2> QED
    BY ONLY <2>1, <2>3
<1>6. \A n \in DOMAIN tree' : \/ n \in 1 .. N
                              \/ \E i \in 1 .. created : n = N + i
  <2> TAKE n \in DOMAIN tree'
  <2>1. n \in 1 .. N + created
    BY <1>3
  <2>2. n \in 1 .. N \/ (n - N \in 1 .. created /\ n = N + (n - N))
    BY ONLY <2>1, <1>1, <1>2
  <2> QED
    BY ONLY <2>2
<1>7. TokensOK(tree)'
  BY ONLY <1>1, <1>4, <1>5, <1>6, TokensOK(tree), tokens' = tokens,
     read' = read, ZenonT(60)
     DEF TokensOK
<1>8. ROOT \in 1 .. N /\ N + created # 0
  BY ONLY <1>1, <1>2 DEF ROOT
<1>9. tree' # <<>>
  BY ONLY <1>3, <1>8, NoElements
<1>10. 1 .. N + created = 1 .. N \cup N + 1 .. N + created
  BY ONLY <1>1, <1>2
<1> QED
  BY ONLY <1>1, <1>3, <1>4, <1>7, <1>8, <1>9, <1>10

\* What there is when a nonterminal on top is expanded.
LEMMA ExpandFacts ==
    ASSUME IInv, AtNonterminal, Production # NONE,
           NEW symbols, symbols = grammar_production_symbols(Production)
    PROVE  /\ Production \in DOMAIN Productions
           /\ symbols = Productions[Production]
           /\ Node.symbol = HeadOf[Production]
           /\ RowOK(Node.symbol, Current, symbols)
           /\ symbols \in Seq(Symbols) /\ Len(symbols) \in 1 .. 3
           /\ Len(stack) = 1 => Len(symbols) <= 2
           /\ Len(tree) <= 9 * read
<1>1. /\ pc = "loop" /\ stack # <<>> /\ Node.symbol \in Nonterminals
      /\ Current \in Terminals
      /\ OrderOK(tree, stack) /\ CostOK(tree, stack, 9 * read - 5)
      /\ read \in 1 .. Len(tokens) /\ Len(tree) \in Nat \ {0}
      /\ Len(tokens) \in Nat \ {0}
  BY LoopFacts DEF AtNonterminal
<1>2. /\ Len(stack) \in Nat \ {0}
      /\ Node.symbol = tree[stack[Len(stack)]].symbol
      /\ DOMAIN stack = 1 .. Len(stack)
  BY <1>1, TopFacts
<1>3. /\ Production \in DOMAIN Productions
      /\ Node.symbol = HeadOf[Production] /\ Current \in FirstOf[Production]
  BY <1>1, Table DEF Production
<1>4. symbols = Productions[Production]
  BY DEF grammar_production_symbols
<1>5. RowOK(Node.symbol, Current, symbols)
  BY <1>3, <1>4, RowsOK
<1>6. symbols \in Seq(Symbols) /\ Len(symbols) \in 1 .. 3
  BY <1>5 DEF RowOK
<1>7. ASSUME Len(stack) = 1 PROVE Len(symbols) <= 2
  <2>1. Node.symbol \in Bottom
    BY <1>2, <1>1, <1>7 DEF OrderOK
  <2>2. HeadOf[Production] = "Regex"
    BY <2>1, <1>1, <1>3 DEF Bottom, Nonterminals
  <2>3. Production \in {"REGEX_END", "REGEX_ALTERNATION_END"}
    BY <2>2, <1>3 DEF HeadOf, Productions
  <2>4. symbols = <<"END">> \/ symbols = <<"Alternation", "END">>
    BY <2>3, <1>4 DEF Productions
  <2>5. Len(<<"END">>) = 1 /\ Len(<<"Alternation", "END">>) = 2
    BY ONLY TRUE
  <2> HIDE DEF Production
  <2>6. Len(symbols) \in {1, 2}
    BY ONLY <2>4, <2>5
  <2>7. \A number \in {1, 2} : number <= 2
    BY ONLY TRUE
  <2> QED
    BY ONLY <2>6, <2>7, Zenon
<1>8. Len(tree) <= 9 * read
  <2>1. PICK N \in Nat : N = Len(tree)
    BY <1>1, SMTT(30)
  <2>2. PICK H \in Nat : H = Len(stack)
    BY <1>2
  <2>3. PICK budget \in Int : budget = 9 * read - 5 /\ read \in Nat
    BY <1>1
  <2>4. /\ H # 0 /\ DOMAIN stack = 1 .. H
        /\ tree[stack[H]].symbol \in Nonterminals
        /\ CostOK(tree, stack, budget) /\ Len(tree) = N /\ Len(stack) = H
    BY <2>1, <2>2, <2>3, <1>1, <1>2
  <2>5. N <= budget + 5
    BY ONLY <2>4, N \in Nat, H \in Nat, budget \in Int, CostBounds
  <2> QED
    BY ONLY <2>1, <2>3, <2>5, N \in Nat
<1> QED
  BY <1>3, <1>4, <1>5, <1>6, <1>7, <1>8

\* The stack is empty: the parser has its tree.
LEMMA FinishInvariant ==
    ASSUME IInv, Finish PROVE IInv'
<1>1. /\ pc = "loop" /\ stack = <<>> /\ pc' = "done" /\ capacity' = 0
      /\ tokens' = tokens /\ read' = read /\ tree' = tree /\ live' = live
      /\ stack' = stack /\ error' = error /\ position' = position
  BY DEF Finish, memory, fault
<1>2. /\ error = NoError /\ live = DOMAIN tree /\ tokens \in Inputs
      /\ TreeOK(tree) /\ tree[ROOT].symbol = "Regex"
      /\ tree \in Seq(ParseTreeNode) /\ Len(tokens) \in Nat
      /\ read \in 0 .. Len(tokens) /\ position \in 0 .. Len(tokens)
      /\ TokensOK(tree) /\ WorkIsLinear
  BY <1>1, LoopFacts
<1>3. LoopOK
  BY <1>1 DEF IInv
<1>4. TypeOK'
  <2>1. stack' \in Seq(DOMAIN tree') /\ Len(stack') <= capacity'
        /\ capacity' \in Nat
    BY ONLY <1>1, NoElements
  <2>2. StateOK'
    BY <2>1, <1>1, <1>2, StateAfter
  <2> QED
    BY <2>2, <1>1, <1>2 DEF TypeOK
<1>5. PhaseOK'
  BY <1>1, <1>2 DEF PhaseOK
<1>6. TokensOK(tree)' /\ WorkIsLinear'
  BY <1>1, <1>2 DEF TokensOK, WorkIsLinear
<1>7. LoopOK'
  BY <1>1, <1>3 DEF LoopOK, Current, Top
<1> QED
  BY <1>1, <1>2, <1>4, <1>5, <1>6, <1>7 DEF IInv

\* After an error the whole tree is released.
LEMMA FinishFailedInvariant ==
    ASSUME IInv, FinishFailed PROVE IInv'
<1>1. /\ pc = "fail" /\ pc' = "done" /\ live' = live \ Reached
      /\ stack' = <<>> /\ capacity' = 0
      /\ tokens' = tokens /\ read' = read /\ tree' = tree
      /\ error' = error /\ position' = position
  BY DEF FinishFailed, fault
<1>2. /\ error # NoError /\ live = DOMAIN tree /\ tokens \in Inputs
      /\ tree # <<>> => TreeOK(tree) /\ tree[ROOT].symbol = "Regex"
      /\ TokensOK(tree) /\ WorkIsLinear /\ TypeOK
  BY <1>1 DEF IInv, PhaseOK
<1>3. live' = {}
  <2>1. CASE tree = <<>>
    BY <2>1, <1>1, <1>2, NoElements
  <2>2. CASE tree # <<>>
    BY <2>2, <1>1, <1>2, AllAreReached
  <2> QED
    BY <2>1, <2>2
<1>4. TypeOK'
  <2>1. stack' \in Seq(DOMAIN tree') /\ Len(stack') <= capacity'
        /\ capacity' \in Nat
    BY ONLY <1>1, NoElements, SMTT(30)
  <2>2. PICK T \in Nat : T = Len(tokens)
    BY <1>2, TokenFacts
  <2>3. /\ read \in 0 .. T /\ position \in 0 .. T
        /\ tree \in Seq(ParseTreeNode) /\ error \in {NoError} \cup ParserErrors
    BY <1>2, <2>2 DEF TypeOK, StateOK
  <2>4. StateOK'
    BY <2>1, <2>2, <2>3, <1>1, <1>3, StateAfter
  <2> QED
    BY <2>3, <2>4, <1>1 DEF TypeOK
<1>5. PhaseOK'
  BY <1>1, <1>2, <1>3 DEF PhaseOK
<1>6. TokensOK(tree)' /\ WorkIsLinear'
  BY <1>1, <1>2 DEF TokensOK, WorkIsLinear
<1> QED
  BY <1>1, <1>2, <1>4, <1>5, <1>6 DEF IInv

\* Numbers up to three.
LEMMA AtMostThree ==
    ASSUME NEW number, number \in 1 .. 3
    PROVE  /\ number <= 3
           /\ \A less \in 0 .. number : less \in Nat /\ less <= 3
OBVIOUS

\* The tree and the rest with some or all of the children.
LEMMA ChildrenInvariant ==
    ASSUME IInv, AtNonterminal, Production # NONE,
           NEW symbols, symbols = grammar_production_symbols(Production),
           NEW created \in 0 .. Len(symbols), CreateChildren(symbols, created),
           tokens' = tokens, read' = read
    PROVE  /\ tree' = With(tree, Top, Production, symbols, created)
           /\ Grows(tree', tree, Top, Production, symbols, created)
           /\ TreeOK(tree') /\ tree'[ROOT].symbol = "Regex"
           /\ tree' \in Seq(ParseTreeNode) /\ tree' # <<>>
           /\ live' = DOMAIN tree' /\ DOMAIN tree \subseteq DOMAIN tree'
           /\ TokensOK(tree)' /\ WorkIsLinear'
<1>1. /\ pc = "loop" /\ stack # <<>> /\ TreeOK(tree)
      /\ tree \in Seq(ParseTreeNode) /\ live = DOMAIN tree
      /\ tree[ROOT].symbol = "Regex" /\ TokensOK(tree)
      /\ Len(tree) \in Nat /\ read \in 1 .. Len(tokens)
      /\ Len(tokens) \in Nat
  BY LoopFacts DEF AtNonterminal
<1>2. Top \in DOMAIN tree /\ tree[Top].children = <<>>
  BY <1>1, TopFacts
<1>3. /\ Production \in DOMAIN Productions /\ symbols \in Seq(Symbols)
      /\ Len(symbols) \in 1 .. 3 /\ Len(tree) <= 9 * read
  BY ExpandFacts
<1>4. tree' = With(tree, Top, Production, symbols, created)
  BY DEF CreateChildren, Grown, With
<1>5. Grows(tree', tree, Top, Production, symbols, created)
  BY <1>1, <1>2, <1>3, <1>4, WithFacts
<1>6. TreeOK(tree')
  <2>1. Len(symbols) <= 3
    BY ONLY <1>3, AtMostThree, Zenon
  <2> QED
    BY <2>1, <1>1, <1>2, <1>3, <1>5, GrownIsTree
<1>7. /\ TokensOK(tree)' /\ tree'[ROOT].symbol = tree[ROOT].symbol
      /\ Len(tree') = Len(tree) + created /\ tree' # <<>>
      /\ DOMAIN tree' = DOMAIN tree \cup Len(tree) + 1 .. Len(tree) + created
  BY <1>1, <1>2, <1>3, <1>5, TokensGrown
<1>8. live' = DOMAIN tree' /\ DOMAIN tree \subseteq DOMAIN tree'
  BY <1>1, <1>7 DEF CreateChildren
<1>9. WorkIsLinear'
  <2>1. created \in Nat /\ created <= 3
    BY ONLY <1>3, created \in 0 .. Len(symbols), AtMostThree, Zenon
  <2>2. read \in Nat
    BY <1>1
  <2>3. Len(tree) + created <= 9 * read + 4
    BY ONLY <1>1, <1>3, <2>1, <2>2
  <2> QED
    BY ONLY <2>3, <1>7, read' = read DEF WorkIsLinear
<1>10. tree' \in Seq(ParseTreeNode)
  BY <1>6 DEF TreeOK
<1> QED
  BY <1>1, <1>4, <1>5, <1>6, <1>7, <1>8, <1>9, <1>10

\* When it does not go on from there.
LEMMA ExpandStops ==
    ASSUME IInv, AtNonterminal, Production # NONE,
           NEW symbols, symbols = grammar_production_symbols(Production),
           NEW created \in 0 .. Len(symbols), CreateChildren(symbols, created),
           tokens' = tokens, read' = read,
           NEW why \in ParserErrors, Fail(why),
           stack' \in Seq(DOMAIN tree'), capacity' = capacity,
           Len(stack') <= capacity
    PROVE  IInv'
<1>1. /\ TreeOK(tree') /\ tree'[ROOT].symbol = "Regex"
      /\ tree' \in Seq(ParseTreeNode) /\ tree' # <<>>
      /\ live' = DOMAIN tree' /\ TokensOK(tree)' /\ WorkIsLinear'
  BY ChildrenInvariant
<1>2. pc' = "fail" /\ error' = why /\ position' = read
  BY DEF Fail, FailAt
<1>3. /\ tokens \in Inputs /\ Len(tokens) \in Nat
      /\ read \in 0 .. Len(tokens) /\ capacity \in Nat
  BY LoopFacts DEF AtNonterminal
<1>4. why # NoError
  BY DEF ParserErrors, ParserMemoryErrors, SyntaxErrors, NoError
<1>5. TypeOK'
  <2>1. StateOK'
    BY <1>1, <1>2, <1>3, StateAfter
  <2> QED
    BY <2>1, <1>2 DEF TypeOK
<1>6. PhaseOK'
  BY <1>1, <1>2, <1>4 DEF PhaseOK
<1> QED
  BY <1>1, <1>2, <1>3, <1>4, <1>5, <1>6 DEF IInv

\* parser_expand_node, with all its ways to fail.
LEMMA ExpandInvariant ==
    ASSUME IInv, Expand PROVE IInv'
<1>1. PICK symbols : symbols = grammar_production_symbols(Production)
  OBVIOUS
<1> DEFINE pushed == Front(stack)
                     \o Frontier([i \in DOMAIN symbols |-> Len(tree) + i],
                                 symbols)
<1>2. /\ AtNonterminal /\ Production # NONE /\ tokens' = tokens /\ read' = read
      /\ \/ /\ Fail("failed to allocate parse tree children")
            /\ Pop
            /\ UNCHANGED memory
         \/ \E created \in 0 .. Len(symbols) - 1 :
               /\ Fail("failed to allocate parse tree node")
               /\ CreateChildren(symbols, created)
               /\ Pop
         \/ /\ CreateChildren(symbols, Len(symbols))
            /\ \/ PushAll(pushed) /\ UNCHANGED <<pc, fault>>
               \/ PushFails(pushed) /\ Fail("failed to grow parser stack")
  BY <1>1 DEF Expand
<1>3. /\ pc = "loop" /\ stack # <<>> /\ Node.symbol \in Nonterminals
      /\ tokens \in Inputs /\ Len(tokens) \in Nat
      /\ read \in 0 .. Len(tokens) /\ read \in DOMAIN tokens
      /\ position \in 0 .. Len(tokens)
      /\ Current \in Terminals /\ error = NoError
      /\ TreeOK(tree) /\ stack \in Seq(DOMAIN tree)
      /\ capacity \in Nat /\ Len(stack) <= capacity
      /\ ExpandedOK(tree) /\ PendingOK(tree, stack) /\ OrderOK(tree, stack)
      /\ CostOK(tree, stack, 9 * read - 5)
  <2>1. pc = "loop" /\ stack # <<>> /\ Node.symbol \in Nonterminals
    BY <1>2 DEF AtNonterminal
  <2> HIDE DEF pushed
  <2> QED
    BY ONLY <2>1, IInv, LoopFacts
<1>4. /\ Top \in DOMAIN tree /\ Node = tree[Top] /\ Top = Last(stack)
      /\ Node.children = <<>> /\ FrontierOK(tree, stack, read - 1)
      /\ Len(stack) \in Nat \ {0}
      /\ Front(stack) \in Seq(DOMAIN tree)
      /\ Len(Front(stack)) = Len(stack) - 1
  BY <1>3, TopFacts DEF Top
<1>5. /\ Production \in DOMAIN Productions /\ symbols = Productions[Production]
      /\ Node.symbol = HeadOf[Production]
      /\ RowOK(Node.symbol, Current, symbols)
      /\ symbols \in Seq(Symbols) /\ Len(symbols) \in 1 .. 3
      /\ Len(stack) = 1 => Len(symbols) <= 2
  BY <1>1, <1>2, ExpandFacts
<1>6. /\ "failed to allocate parse tree children" \in ParserErrors
      /\ "failed to allocate parse tree node" \in ParserErrors
      /\ "failed to grow parser stack" \in ParserErrors
  BY DEF ParserErrors, ParserMemoryErrors
<1>7. CASE /\ Fail("failed to allocate parse tree children")
           /\ Pop
           /\ UNCHANGED memory
  BY <1>2, <1>3, <1>6, <1>7, RefusalInvariant
<1>8. ASSUME NEW created \in 0 .. Len(symbols) - 1,
             Fail("failed to allocate parse tree node"),
             CreateChildren(symbols, created), Pop
      PROVE  IInv'
  <2>1. created \in 0 .. Len(symbols)
    BY <1>5
  <2>2. DOMAIN tree \subseteq DOMAIN tree'
    BY <2>1, <1>1, <1>2, <1>8, ChildrenInvariant
  <2>3. stack' \in Seq(DOMAIN tree') /\ Len(stack') <= capacity
        /\ capacity' = capacity
    <3>1. stack' = Front(stack) /\ capacity' = capacity
      BY <1>8 DEF Pop
    <3>2. Front(stack) \in Seq(DOMAIN tree')
      BY <2>2, <1>4, SeqWider
    <3> QED
      BY ONLY <3>1, <3>2, <1>3, <1>4
  <2> QED
    BY <2>1, <2>3, <1>1, <1>2, <1>6, <1>8, ExpandStops
<1>9. ASSUME CreateChildren(symbols, Len(symbols)),
             \/ PushAll(pushed) /\ UNCHANGED <<pc, fault>>
             \/ PushFails(pushed) /\ Fail("failed to grow parser stack")
      PROVE  IInv'
  <2>1. Len(symbols) \in 0 .. Len(symbols)
    BY <1>5
  <2>2. /\ tree' = With(tree, Last(stack), Production, symbols, Len(symbols))
        /\ TreeOK(tree') /\ tree'[ROOT].symbol = "Regex"
        /\ tree' \in Seq(ParseTreeNode) /\ tree' # <<>>
        /\ live' = DOMAIN tree' /\ TokensOK(tree)' /\ WorkIsLinear'
    BY <2>1, <1>1, <1>2, <1>4, <1>9, ChildrenInvariant
  <2>3. PICK N, H, K, fresh :
           /\ Expands(tree, N, stack, H, Production, symbols, K, fresh, tree',
                      pushed)
           /\ Sizes(tree, N, stack, H, symbols, K, fresh, tree', pushed)
           /\ stack[H] = Last(stack)
           /\ Len(tree'[stack[H]].children) = K
           /\ tree'[stack[H]].children # <<>>
           /\ tree'[stack[H]].token = tree[stack[H]].token
           /\ pushed \in Seq(DOMAIN tree')
    <3>1. pushed = Pushed(tree, stack, symbols)
      BY DEF Pushed
    <3> HIDE DEF pushed
    <3>2. PICK production : production = Production
      OBVIOUS
    <3>3. /\ TreeOK(tree) /\ stack \in Seq(DOMAIN tree) /\ stack # <<>>
          /\ production \in DOMAIN Productions
          /\ symbols = Productions[production]
          /\ RowOK(Node.symbol, Current, symbols)
          /\ tree' = With(tree, Last(stack), production, symbols, Len(symbols))
      BY ONLY <2>2, <3>2, <1>3, <1>5
    <3>4. \E N, H, K, fresh :
           /\ Expands(tree, N, stack, H, production, symbols, K, fresh, tree',
                      pushed)
           /\ Sizes(tree, N, stack, H, symbols, K, fresh, tree', pushed)
           /\ stack[H] = Last(stack)
           /\ Len(tree'[stack[H]].children) = K
           /\ tree'[stack[H]].children # <<>>
           /\ tree'[stack[H]].token = tree[stack[H]].token
           /\ pushed \in Seq(DOMAIN tree')
      BY ONLY <3>1, <3>3, ExpansionIs
    <3> QED
      BY ONLY <3>2, <3>4
  <2> HIDE DEF pushed
  <2>4. CASE PushFails(pushed) /\ Fail("failed to grow parser stack")
    <3>1. /\ stack' = SubSeq(pushed, 1, capacity) /\ capacity' = capacity
          /\ ~ (Len(pushed) <= capacity)
      BY <2>4 DEF PushFails, Fits
    <3>2. stack' \in Seq(DOMAIN tree') /\ Len(stack') <= capacity
      BY ONLY <3>1, <2>3, <1>3, SMTT(30)
    <3> QED
      BY <2>1, <2>4, <3>1, <3>2, <1>1, <1>2, <1>6, <1>9, ExpandStops
  <2>5. CASE PushAll(pushed) /\ UNCHANGED <<pc, fault>>
    <3>1. /\ N \in Nat \ {0} /\ DOMAIN tree = 1 .. N
          /\ H \in Nat \ {0} /\ K \in 1 .. 3 /\ fresh \in 0 .. 3
          /\ fresh <= K
      <4>1. /\ N \in Nat \ {0} /\ DOMAIN tree = 1 .. N
            /\ H \in Nat \ {0} /\ K \in 1 .. 3
            /\ fresh = 0 \/ fresh = K
        BY ONLY <2>3 DEF Expands
      <4> QED
        BY ONLY <4>1
    <3>2. /\ Len(tree) = N /\ Len(stack) = H /\ Len(symbols) = K
          /\ Len(pushed) = H - 1 + fresh
      BY ONLY <2>3 DEF Sizes
    <3>3. stack' = pushed /\ pc' = "loop" /\ error' = NoError
          /\ position' = position
      BY <2>5, <1>3 DEF PushAll, fault
    <3>4. Len(stack') <= capacity' /\ capacity' \in Nat
      <4>1. H <= capacity /\ (H = 1 => K <= 2) /\ capacity \in Nat
        BY ONLY <3>2, <1>3, <1>5
      <4>2. CASE Fits(pushed) /\ UNCHANGED capacity
        BY ONLY <4>2, <3>3, <1>3 DEF Fits
      <4>3. CASE capacity' = Doubled
        <5>1. capacity' = capacity * 2
          BY ONLY <4>1, <4>3, <3>1, <1>3 DEF Doubled
        <5>2. H - 1 + fresh <= capacity * 2
          BY ONLY <4>1, <3>1
        <5> QED
          BY ONLY <5>1, <5>2, <3>2, <3>3, <1>3
      <4> QED
        BY <4>2, <4>3, <2>5 DEF PushAll
    <3>5. TypeOK'
      <4>1. PICK T \in Nat : T = Len(tokens)
        BY <1>3
      <4>2. StateOK'
        BY <4>1, <3>3, <3>4, <2>2, <2>3, <1>2, <1>3, StateAfter
      <4> QED
        BY <4>2, <3>3 DEF TypeOK
    <3>6. PhaseOK'
      BY <3>3, <2>2, <1>2, <1>3 DEF PhaseOK, Current
    <3>7. tree[stack[H]] = Node
      BY ONLY <2>3, <1>4
    <3>8. PendingOK(tree', stack')
      BY ONLY <2>3, <3>3, <1>2, <1>3, PendingGrows
    <3>9. ExpandedOK(tree')
      BY ONLY <2>3, <3>2, <3>7, <1>3, <1>5, ExpandedGrows
    <3>10. SymbolsOnto(tree, stack, H, symbols, K, fresh, tree', stack')
      BY ONLY <2>3, <3>3, <1>3, AreOnto
    <3>11. /\ OrderOK(tree', stack') /\ H - 1 + fresh >= 1
           /\ Current \in Fitting(tree'[stack'[H - 1 + fresh]].symbol)
      BY ONLY <3>2, <3>7, <3>10, <1>3, <1>5, OrderGrows
    <3>12. /\ read \in Nat \ {0} /\ read' = read
           /\ CostOK(tree, stack, 9 * read - 5)
      <4>1. DOMAIN tokens \subseteq Nat \ {0}
        BY ONLY <1>3, TokenFacts
      <4> QED
        BY ONLY <4>1, <1>2, <1>3
    <3>13. CostOK(tree', stack', 9 * read' - 5)
      <4> DEFINE budget == 9 * read - 5
      <4>1. budget \in Int /\ CostOK(tree, stack, budget)
            /\ budget = 9 * read' - 5
        BY ONLY <3>12
      <4> HIDE DEF budget
      <4>2. Sizes(tree, N, stack, H, symbols, K, fresh, tree', stack')
        BY ONLY <2>3, <3>3
      <4>3. RowOK(tree[stack[H]].symbol, Current, symbols) /\ N \in Nat
        BY ONLY <3>1, <3>7, <1>5
      <4>4. CostOK(tree', stack', budget)
        BY ONLY <4>1, <4>2, <4>3, <3>10, <3>11, CostGrows
      <4> QED
        BY ONLY <4>1, <4>4
    <3>14. FrontierOK(tree', stack', read' - 1)
      <4>1. read - 1 \in Nat /\ read' - 1 = read - 1
        BY ONLY <3>12
      <4>2. Inside(tree, N)
        BY ONLY <3>1, <1>3, AreInside
      <4>3. PICK matched \in Nat : matched = read - 1
        BY <4>1
      <4>4. /\ FrontierOK(tree, stack, matched)
            /\ tree[stack[H]].children = <<>>
            /\ Expands(tree, N, stack, H, Production, symbols, K, fresh, tree',
                       stack')
            /\ Sizes(tree, N, stack, H, symbols, K, fresh, tree', stack')
        BY ONLY <4>3, <2>3, <3>3, <3>7, <1>4
      <4>5. FrontierOK(tree', stack', matched)
        BY ONLY <4>2, <4>4, <2>3, <1>3, matched \in Nat, FrontierGrows,
           ZenonT(60)
      <4> QED
        BY ONLY <4>1, <4>3, <4>5
    <3>15. stack' # <<>> /\ Top' = stack'[H - 1 + fresh]
      BY ONLY <3>1, <3>2, <3>3, <3>11, NoElements DEF Top, Last
    <3>16. Current' = Current
      BY <1>2 DEF Current
    <3>17. LoopOK'
      BY <3>8, <3>9, <3>11, <3>13, <3>14, <3>15, <3>16, <2>2 DEF LoopOK
    <3> QED
      BY <3>3, <3>5, <3>6, <3>17, <2>2, <1>2, <1>3 DEF IInv
  <2> QED
    BY <2>4, <2>5, <1>9
<1> QED
  BY <1>2, <1>7, <1>8, <1>9
-----------------------------------------------------------------------------
(* The parser.                                                             *)

\* Every step of the parser keeps the invariant.
LEMMA StepInvariant ==
    ASSUME IInv, [ParserNext]_vars PROVE IInv'
<1>1. CASE ParserNext
  BY <1>1, CreateRootInvariant, ScanFirstInvariant, PushRootInvariant,
     MatchTerminalInvariant, RefuseTerminalInvariant,
     RefuseNonterminalInvariant, ExpandInvariant, FinishInvariant,
     FinishFailedInvariant DEF ParserNext
<1>2. CASE UNCHANGED vars
  BY <1>2 DEF vars, memory, items, fault, IInv, TypeOK, StateOK, PhaseOK,
              TokensOK, WorkIsLinear, LoopOK, Current, Top
<1> QED
  BY <1>1, <1>2

\* The inductive invariant holds whatever parser_parse_tree does, and whichever
\* allocation or growth of the stack fails.
THEOREM Invariant == Spec => []IInv
<1>1. Init => IInv
  BY InitInvariant
<1>2. IInv /\ [ParserNext]_vars => IInv'
  BY StepInvariant
<1> QED
  BY <1>1, <1>2, PTL DEF Spec

(* The state has its type, and the branches of the code that would give    *)
(* the messages "unexpected token" and "invalid grammar production" are    *)
(* not reached.                                                            *)
THEOREM TypeCorrect == Spec => []TypeOK
<1>1. IInv => TypeOK
  BY DEF IInv
<1> QED
  BY <1>1, Invariant, PTL

(* However many nodes the grammar puts between two tokens, the tree has    *)
(* at most nine for each token that is read: parsing ends, in time and     *)
(* memory linear in the pattern.                                           *)
THEOREM LinearWork == Spec => []WorkIsLinear
<1>1. IInv => WorkIsLinear
  BY DEF IInv
<1> QED
  BY <1>1, Invariant, PTL

\* Pairs and their parts.
LEMMA Pairs ==
    ASSUME NEW S, NEW T
    PROVE  /\ \A p \in S, i \in T : /\ <<p, i>> \in S \X T
                                   /\ <<p, i>>[1] = p /\ <<p, i>>[2] = i
           /\ \A e \in S \X T : /\ e = <<e[1], e[2]>>
                                /\ e[1] \in S /\ e[2] \in T
OBVIOUS

\* In a tree, one place of one node refers to each node but the root.
LEMMA OneParent ==
    ASSUME TreeOK(tree), NEW S, S = DOMAIN tree, NEW n \in S, n # ROOT
    PROVE  Cardinality({e \in S \X (1 .. 3) :
                          /\ e[2] \in DOMAIN tree[e[1]].children
                          /\ tree[e[1]].children[e[2]] = n}) = 1
<1> DEFINE places == {e \in S \X (1 .. 3) :
                          /\ e[2] \in DOMAIN tree[e[1]].children
                          /\ tree[e[1]].children[e[2]] = n}
<1>1. /\ DOMAIN tree = 1 .. Len(tree) /\ Len(tree) \in Nat \ {0}
      /\ \A p \in DOMAIN tree : /\ Ids(tree[p].children)
                                /\ Len(tree[p].children) <= 3
  BY TreeDomain
<1>2. n \in 2 .. Len(tree) /\ n # NO_NODE
  BY <1>1 DEF ROOT, NO_NODE
<1>3. PICK p \in DOMAIN tree : \E i \in DOMAIN tree[p].children :
                                   tree[p].children[i] = n
  BY <1>2 DEF TreeOK
<1>4. PICK i \in DOMAIN tree[p].children : tree[p].children[i] = n
  BY <1>3
<1>5. i \in 1 .. 3
  <2>1. PICK K \in Nat : K = Len(tree[p].children)
    BY <1>1, FewIds
  <2>2. K <= 3 /\ i \in 1 .. K
    BY <2>1, <1>1, FewIds
  <2> QED
    BY ONLY <2>2, K \in Nat
<1>6. <<p, i>> \in places
  <2>1. /\ <<p, i>> \in S \X (1 .. 3)
        /\ <<p, i>>[1] = p /\ <<p, i>>[2] = i
    BY <1>5, Pairs
  <2> QED
    BY ONLY <2>1, <1>4, i \in DOMAIN tree[p].children
<1>7. ASSUME NEW e \in places PROVE e = <<p, i>>
  <2>1. /\ e \in S \X (1 .. 3) /\ e[2] \in DOMAIN tree[e[1]].children
        /\ tree[e[1]].children[e[2]] = n
    BY ONLY e \in places
  <2>2. e = <<e[1], e[2]>> /\ e[1] \in S
    BY ONLY <2>1, Pairs
  <2>3. e[1] = p /\ e[2] = i
    <3> HIDE DEF places
    <3> QED
      BY <2>1, <2>2, <1>2, <1>4, SMTT(30) DEF TreeOK
  <2> QED
    BY ONLY <2>2, <2>3
<1>8. places = {<<p, i>>}
  BY <1>6, <1>7
<1>9. Cardinality({<<p, i>>}) = 1
  BY FS_Singleton
<1> QED
  BY <1>8, <1>9

\* The invariant has every node owned once.
LEMMA OwnedOnce ==
    ASSUME IInv PROVE NodesOwnedOnce
<1>1. /\ pc = "done" /\ error # NoError => live = {}
      /\ pc # "done" \/ error = NoError => live = DOMAIN tree
  BY RootFacts, NoElements DEF IInv, TypeOK, StateOK, PhaseOK, ROOT
<1>2. ASSUME NEW n \in live \ {ROOT}
      PROVE  Cardinality({e \in live \X (1 .. 3) :
                          /\ e[2] \in DOMAIN tree[e[1]].children
                          /\ tree[e[1]].children[e[2]] = n}) = 1
  <2>1. live = DOMAIN tree /\ n \in DOMAIN tree /\ n # ROOT
    BY <1>1, <1>2
  <2>2. tree # <<>>
    BY ONLY <2>1, NoElements
  <2>3. TreeOK(tree)
    BY <2>2 DEF IInv
  <2> QED
    BY ONLY <2>1, <2>3, OneParent
<1> QED
  BY <1>1, <1>2 DEF NodesOwnedOnce

(* Whatever allocation fails, and wherever: every node but the root is the *)
(* child of one node, once, so that freeing the root releases every node,  *)
(* and each of them once; and no node is left if there is no result.       *)
THEOREM NodesAreOwnedOnce == Spec => []NodesOwnedOnce
<1>1. IInv => NodesOwnedOnce
  BY OwnedOnce
<1> QED
  BY <1>1, Invariant, PTL

\* The invariant has the stack be the frontier.
LEMMA FrontierIsStack ==
    ASSUME IInv PROVE StackIsFrontier
<1> DEFINE leaves == Leaves[ROOT]
           matched == IF pc = "loop" /\ stack # <<>> THEN read - 1 ELSE read
<1>1. TypeOK
  BY DEF IInv
<1>2. ASSUME pc = "loop" \/ (pc = "done" /\ error = NoError)
      PROVE  /\ Len(leaves) = matched + Len(stack)
             /\ \A k \in 1 .. matched : /\ tree[leaves[k]].token = k
                                        /\ tree[leaves[k]].symbol =
                                              tokens[k].terminal
             /\ \A k \in matched + 1 .. Len(leaves) :
                    /\ leaves[k] = stack[Len(leaves) + 1 - k]
                    /\ tree[leaves[k]].token = 0
  <2>1. /\ tree # <<>> /\ ExpandedOK(tree) /\ PendingOK(tree, stack)
        /\ FrontierOK(tree, stack, IF stack = <<>> THEN read ELSE read - 1)
    BY <1>2 DEF IInv, LoopOK
  <2>2. TreeOK(tree) /\ TokensOK(tree) /\ tokens \in Inputs
    BY <2>1 DEF IInv
  <2>3. pc = "done" => stack = <<>>
    BY DEF IInv, PhaseOK
  <2>4. FrontierOK(tree, stack, matched)
    BY <2>1, <2>3, <1>2
  <2>5. /\ read \in Nat /\ (pc = "loop" => read \in Nat \ {0})
        /\ stack \in Seq(DOMAIN tree)
    <3>1. /\ read \in 0 .. Len(tokens) /\ Len(tokens) \in Nat
          /\ stack \in Seq(DOMAIN tree)
      BY <2>2, TokenFacts DEF IInv, TypeOK, StateOK
    <3>2. pc = "loop" => read \in 1 .. Len(tokens)
      BY LoopFacts
    <3> QED
      BY <3>1, <3>2
  <2>6. PICK m \in Nat : m = matched
    BY <2>5, <1>2
  <2> HIDE DEF matched, leaves
  <2>7. PICK at : /\ Ids(at)
                  /\ \E from \in [DOMAIN tree -> Nat],
                        to \in [DOMAIN tree -> Nat] :
                            SpansOK(tree, stack, m, at, from, to)
    BY <2>4, <2>6 DEF FrontierOK, Ids
  <2>8. PICK from \in [DOMAIN tree -> Nat], to \in [DOMAIN tree -> Nat] :
            SpansOK(tree, stack, m, at, from, to)
    BY <2>7
  <2>9. leaves = at
    BY <2>1, <2>2, <2>7, <2>8, LeavesAre DEF leaves
  <2>10. PICK H \in Nat : H = Len(stack) /\ DOMAIN stack = 1 .. H
    BY <2>5
  <2>11. Len(at) = m + H
    BY <2>8, <2>10 DEF SpansOK
  <2>12. ASSUME NEW k \in 1 .. m
         PROVE  /\ tree[at[k]].token = k
                /\ tree[at[k]].symbol = tokens[k].terminal
    <3>1. at[k] \in DOMAIN tree /\ tree[at[k]].token = k
      BY ONLY <2>8, k \in 1 .. m DEF SpansOK
    <3>2. k # 0
      BY ONLY k \in 1 .. m, m \in Nat
    <3> QED
      BY ONLY <3>1, <3>2, <2>2 DEF TokensOK
  <2>13. ASSUME NEW k \in m + 1 .. m + H
         PROVE  /\ at[k] = stack[m + H + 1 - k]
                /\ tree[at[k]].token = 0
    <3>1. at[k] = stack[m + H + 1 - k]
      BY ONLY <2>8, <2>11, k \in m + 1 .. m + H DEF SpansOK
    <3>2. m + H + 1 - k \in 1 .. H
      BY ONLY k \in m + 1 .. m + H, m \in Nat, H \in Nat
    <3>3. tree[stack[m + H + 1 - k]].token = 0
      BY ONLY <3>2, <2>1, <2>10 DEF PendingOK
    <3> QED
      BY ONLY <3>1, <3>3
  <2> QED
    BY ONLY <2>6, <2>9, <2>10, <2>11, <2>12, <2>13
<1> QED
  BY <1>1, <1>2 DEF StackIsFrontier

(* The leaves of the tree are, from left to right, the tokens read so far  *)
(* and then the stack from its top down, as long as parsing goes on and    *)
(* when it has succeeded: the tree of an accepted pattern has the          *)
(* pattern's tokens for leaves, all of them, in order.                     *)
THEOREM StackFrontier == Spec => []StackIsFrontier
<1>1. IInv => StackIsFrontier
  BY FrontierIsStack
<1> QED
  BY <1>1, Invariant, PTL
-----------------------------------------------------------------------------
(* What the parser has read and what it expects.                           *)

\* What the token read last and the current one can be when a symbol is on
\* top of the stack.
Guided(symbol, previous, next) ==
    /\ symbol = "Regex" => previous = "BEGIN"
    /\ symbol = "Alternation" => previous = "LPAREN" \/ next \in AtomStarts
    /\ symbol = "Concatenation" => previous = "PIPE" \/ next \in AtomStarts
    /\ symbol \in {"Repetition", "Atom"} => next \in AtomStarts
    /\ symbol \in {"Quantifier"} \cup Quantifiers =>
           previous \in Abs!Atoms \cup {"RPAREN"}
    /\ symbol = "ConcatenationTail" =>
           /\ previous \in Abs!OperandEnds
           /\ next \in Quantifiers => previous \in Quantifiers
    /\ symbol \in {"AlternationTail", "PIPE", "RPAREN"} =>
           previous \in Abs!OperandEnds
    /\ symbol = "END" => \/ previous \in Abs!OperandEnds
                         \/ previous = "BEGIN" /\ next = "END"

\* The groups that a symbol on the stack still has to close, less the one it
\* still has to open.
Closes(symbol) == CASE symbol = "RPAREN" -> 1
                    [] symbol = "LPAREN" -> 0 - 1
                    [] OTHER -> 0

\* The stack closes the groups that are open.
DepthOK(tr, st, depth) ==
    \E depths \in [0 .. Len(st) -> Nat] :
        /\ depths[0] = 0
        /\ \A i \in DOMAIN st :
              depths[i] = depths[i - 1] + Closes(tr[st[i]].symbol)
        /\ depths[Len(st)] = depth

MatchedOK(matched) ==
    /\ Abs!IsViable(tokens, matched)
    /\ DepthOK(tree, stack, Abs!Depth(tokens, matched))

\* An error is out of memory, or what is wrong with the tokens.
FaultOK ==
    \/ error \in ParserMemoryErrors
    \/ /\ ~Abs!IsPattern(tokens)
       /\ error = Abs!Complaint(tokens) /\ position = Abs!FirstWrong(tokens)

SyntaxIInv ==
    /\ error = NoError => position = 0
    /\ error # NoError => FaultOK
    /\ pc = "loop" \/ (pc = "done" /\ error = NoError) =>
           IF stack = <<>> THEN MatchedOK(read) /\ Current = "END"
           ELSE /\ MatchedOK(read - 1)
                /\ Guided(Node.symbol, Abs!Kind(tokens, read - 1), Current)
-----------------------------------------------------------------------------
(* The reference.                                                          *)

\* How many of the first n tokens are of a kind.
Count(w, kind, n) == Cardinality({i \in 1 .. n : Abs!Kind(w, i) = kind})

\* That number, one token at a time.
LEMMA KindsCounted ==
    ASSUME NEW w, NEW kind, NEW k \in Nat
    PROVE  /\ Count(w, kind, k) \in Nat
           /\ Count(w, kind, k + 1) =
                Count(w, kind, k) + 
                   (IF Abs!Kind(w, k + 1) = kind THEN 1 ELSE 0)
<1> DEFINE Of(n) == {i \in 1 .. n : Abs!Kind(w, i) = kind}
<1>1. IsFiniteSet(1 .. k)
  BY FS_Interval
<1>2. IsFiniteSet(Of(k)) /\ Cardinality(Of(k)) \in Nat
  BY <1>1, FS_Subset, FS_CardinalityType
<1>3. 1 .. k + 1 = 1 .. k \cup {k + 1} /\ k + 1 \notin 1 .. k
  OBVIOUS
<1>4. CASE Abs!Kind(w, k + 1) = kind
  <2>1. Of(k + 1) = Of(k) \cup {k + 1} /\ k + 1 \notin Of(k)
    BY <1>3, <1>4
  <2> HIDE DEF Of
  <2>2. Cardinality(Of(k + 1)) = Cardinality(Of(k)) + 1
    BY <2>1, <1>2, FS_AddElement
  <2> QED
    BY <2>2, <1>2, <1>4 DEF Of, Count
<1>5. CASE Abs!Kind(w, k + 1) # kind
  <2>1. Of(k + 1) = Of(k)
    BY <1>3, <1>5
  <2> QED
    BY <2>1, <1>2, <1>5 DEF Count
<1> QED
  BY <1>4, <1>5, <1>2 DEF Count

\* The instance counts as FiniteSets does.
LEMMA SameCount ==
    \A S : Abs!Cardinality(S) = Cardinality(S)
BY DEF Abs!Cardinality, Cardinality

\* How many groups are open, one token at a time.
LEMMA DepthStep ==
    ASSUME NEW w, NEW k \in Nat
    PROVE  /\ Abs!Depth(w, 0) = 0
           /\ Abs!Depth(w, k) \in Int
           /\ Abs!Depth(w, k + 1) =
                Abs!Depth(w, k) - Closes(Abs!Kind(w, k + 1))
<1> DEFINE kind == Abs!Kind(w, k + 1)
<1>1. Abs!Depth(w, 0) = 0
  <2>1. {i \in 1 .. 0 : Abs!Kind(w, i) = "LPAREN"} = {}
        /\ {i \in 1 .. 0 : Abs!Kind(w, i) = "RPAREN"} = {}
    OBVIOUS
  <2> QED
    BY <2>1, FS_EmptySet, SameCount DEF Abs!Depth
<1>2. /\ Count(w, "LPAREN", k) \in Nat
      /\ Count(w, "LPAREN", k + 1) =
           Count(w, "LPAREN", k) + (IF kind = "LPAREN" THEN 1 ELSE 0)
  BY KindsCounted
<1>3. /\ Count(w, "RPAREN", k) \in Nat
      /\ Count(w, "RPAREN", k + 1) =
           Count(w, "RPAREN", k) + (IF kind = "RPAREN" THEN 1 ELSE 0)
  BY KindsCounted
<1>4. /\ Abs!Depth(w, k) = Count(w, "LPAREN", k) - Count(w, "RPAREN", k)
      /\ Abs!Depth(w, k + 1)
         = Count(w, "LPAREN", k + 1) - Count(w, "RPAREN", k + 1)
  BY SameCount DEF Abs!Depth, Count
<1> HIDE DEF kind
<1>5. Closes(kind) = (IF kind = "RPAREN" THEN 1 ELSE 0)
                     - (IF kind = "LPAREN" THEN 1 ELSE 0)
  BY DEF Closes
<1>6. Abs!Depth(w, k + 1) = Abs!Depth(w, k) - Closes(kind)
  BY ONLY <1>2, <1>3, <1>4, <1>5
<1>7. Abs!Depth(w, k) \in Int
  BY ONLY <1>2, <1>3, <1>4
<1> QED
  BY <1>1, <1>6, <1>7 DEF kind

\* The k-th token goes on with a pattern.
GoesOnAt(w, k) ==
    /\ Abs!MayFollow(Abs!Kind(w, k), Abs!Kind(w, k - 1))
    /\ Abs!Kind(w, k) = "RPAREN" => Abs!Depth(w, k) >= 0
    /\ Abs!Kind(w, k) = "END" => Abs!Depth(w, k) = 0

\* What is viable is so token by token.
LEMMA ViableStep ==
    ASSUME NEW w, NEW k \in Nat
    PROVE  /\ Abs!IsViable(w, 0)
           /\ Abs!IsViable(w, k + 1) <=>
                Abs!IsViable(w, k) /\ GoesOnAt(w, k + 1)
<1>1. 1 .. 0 = {} /\ 1 .. k + 1 = 1 .. k \cup {k + 1}
  OBVIOUS
<1>2. \A n : Abs!IsViable(w, n) <=> \A i \in 1 .. n : GoesOnAt(w, i)
  BY DEF Abs!IsViable, GoesOnAt
<1> QED
  BY ONLY <1>1, <1>2

\* The first wrong token is the one at which a viable beginning ends.
LEMMA WrongFirst ==
    ASSUME NEW w \in Inputs, NEW k \in DOMAIN w,
           Abs!IsViable(w, k - 1), ~Abs!IsViable(w, k)
    PROVE  ~Abs!IsPattern(w) /\ Abs!FirstWrong(w) = k
<1>1. PICK N \in Nat : N = Len(w) /\ DOMAIN w = 1 .. N
  BY ParserAssumption DEF Abs!IsTokenSequence
<1>2. ASSUME NEW j \in Int, NEW n \in Int, j <= n, Abs!IsViable(w, n)
      PROVE  Abs!IsViable(w, j)
  <2>1. \A i \in 1 .. j : i \in 1 .. n
    BY <1>2
  <2> QED
    BY <2>1, <1>2 DEF Abs!IsViable
<1>3. ~Abs!IsViable(w, N)
  BY <1>1, <1>2
<1>4. PICK c \in DOMAIN w : /\ c = Abs!FirstWrong(w)
                            /\ ~Abs!IsViable(w, c) /\ Abs!IsViable(w, c - 1)
  BY DEF Abs!FirstWrong
<1>5. k \in 1 .. N /\ c \in 1 .. N
  BY <1>1
<1>6. CASE c < k
  BY <1>2, <1>4, <1>5, <1>6
<1>7. CASE c > k
  BY <1>2, <1>4, <1>5, <1>7
<1> QED
  BY <1>1, <1>3, <1>4, <1>5, <1>6, <1>7 DEF Abs!IsPattern
-----------------------------------------------------------------------------
(* The groups that are open.                                               *)

\* What a nonterminal becomes closes as many groups as it opens, the one
\* that it opens before the one that it closes.
RowCloses(symbols, K) ==
    \/ \A j \in 1 .. K : Closes(symbols[j]) = 0
    \/ K = 3 /\ Closes(symbols[1]) = 0 - 1 /\ Closes(symbols[2]) = 0
             /\ Closes(symbols[3]) = 1

\* An expansion puts on top what the tokens guide the parser to.
RowGuides(symbol, previous, next, symbols) ==
    IF symbols[1] = EPSILON
    THEN \A under \in Below(symbol) : Guided(under, previous, next)
    ELSE Guided(symbols[1], previous, next)

\* The rows of the table are like that.
LEMMA RowsGuide ==
    ASSUME NEW production \in DOMAIN Productions,
           NEW next \in FirstOf[production], NEW previous,
           Guided(HeadOf[production], previous, next)
    PROVE  /\ RowGuides(HeadOf[production], previous, next,
                        Productions[production])
           /\ RowCloses(Productions[production],
                        Len(Productions[production]))
           /\ Closes(HeadOf[production]) = 0
<1> USE DEF Guided, RowGuides, RowCloses, Closes, Below, EPSILON, AtomStarts,
            Quantifiers, Endings, Abs!Atoms, Abs!Repeaters, Abs!OperandEnds
<1>1. CASE production = "REGEX_END"
  <2>1. /\ HeadOf[production] = "Regex"
        /\ Productions[production] = <<"END">>
        /\ next \in {"END"}
    BY <1>1 DEF HeadOf, FirstOf, Productions
  <2> QED
    BY <2>1
<1>2. CASE production = "REGEX_ALTERNATION_END"
  <2>1. /\ HeadOf[production] = "Regex"
        /\ Productions[production] = <<"Alternation", "END">>
        /\ next \in AtomStarts
    BY <1>2 DEF HeadOf, FirstOf, Productions
  <2> QED
    BY <2>1
<1>3. CASE production = "ALTERNATION"
  <2>1. /\ HeadOf[production] = "Alternation"
        /\ Productions[production] = <<"Concatenation", "AlternationTail">>
        /\ next \in AtomStarts
    BY <1>3 DEF HeadOf, FirstOf, Productions
  <2> QED
    BY <2>1
<1>4. CASE production = "ALTERNATION_TAIL_PIPE"
  <2>1. /\ HeadOf[production] = "AlternationTail"
        /\ Productions[production]
           = <<"PIPE", "Concatenation", "AlternationTail">>
        /\ next \in {"PIPE"}
    BY <1>4 DEF HeadOf, FirstOf, Productions
  <2> QED
    BY <2>1
<1>5. CASE production = "ALTERNATION_TAIL_EMPTY"
  <2>1. /\ HeadOf[production] = "AlternationTail"
        /\ Productions[production] = <<"epsilon">>
        /\ next \in {"RPAREN", "END"}
    BY <1>5 DEF HeadOf, FirstOf, Productions
  <2> QED
    BY <2>1
<1>6. CASE production = "CONCATENATION"
  <2>1. /\ HeadOf[production] = "Concatenation"
        /\ Productions[production] = <<"Repetition", "ConcatenationTail">>
        /\ next \in AtomStarts
    BY <1>6 DEF HeadOf, FirstOf, Productions
  <2> QED
    BY <2>1
<1>7. CASE production = "CONCATENATION_TAIL_REPETITION"
  <2>1. /\ HeadOf[production] = "ConcatenationTail"
        /\ Productions[production] = <<"Repetition", "ConcatenationTail">>
        /\ next \in AtomStarts
    BY <1>7 DEF HeadOf, FirstOf, Productions
  <2> QED
    BY <2>1
<1>8. CASE production = "CONCATENATION_TAIL_EMPTY"
  <2>1. /\ HeadOf[production] = "ConcatenationTail"
        /\ Productions[production] = <<"epsilon">>
        /\ next \in Endings
    BY <1>8 DEF HeadOf, FirstOf, Productions
  <2> QED
    BY <2>1
<1>9. CASE production = "REPETITION"
  <2>1. /\ HeadOf[production] = "Repetition"
        /\ Productions[production] = <<"Atom", "Quantifier">>
        /\ next \in AtomStarts
    BY <1>9 DEF HeadOf, FirstOf, Productions
  <2> QED
    BY <2>1
<1>10. CASE production = "QUANTIFIER_STAR"
  <2>1. /\ HeadOf[production] = "Quantifier"
        /\ Productions[production] = <<"STAR">>
        /\ next \in {"STAR"}
    BY <1>10 DEF HeadOf, FirstOf, Productions
  <2> QED
    BY <2>1
<1>11. CASE production = "QUANTIFIER_PLUS"
  <2>1. /\ HeadOf[production] = "Quantifier"
        /\ Productions[production] = <<"PLUS">>
        /\ next \in {"PLUS"}
    BY <1>11 DEF HeadOf, FirstOf, Productions
  <2> QED
    BY <2>1
<1>12. CASE production = "QUANTIFIER_QUESTION"
  <2>1. /\ HeadOf[production] = "Quantifier"
        /\ Productions[production] = <<"QUESTION">>
        /\ next \in {"QUESTION"}
    BY <1>12 DEF HeadOf, FirstOf, Productions
  <2> QED
    BY <2>1
<1>13. CASE production = "QUANTIFIER_EMPTY"
  <2>1. /\ HeadOf[production] = "Quantifier"
        /\ Productions[production] = <<"epsilon">>
        /\ next \in AtomStarts \cup Endings
    BY <1>13 DEF HeadOf, FirstOf, Productions
  <2> QED
    BY <2>1
<1>14. CASE production = "ATOM_LITERAL"
  <2>1. /\ HeadOf[production] = "Atom"
        /\ Productions[production] = <<"LITERAL">>
        /\ next \in {"LITERAL"}
    BY <1>14 DEF HeadOf, FirstOf, Productions
  <2> QED
    BY <2>1
<1>15. CASE production = "ATOM_DOT"
  <2>1. /\ HeadOf[production] = "Atom"
        /\ Productions[production] = <<"DOT">>
        /\ next \in {"DOT"}
    BY <1>15 DEF HeadOf, FirstOf, Productions
  <2> QED
    BY <2>1
<1>16. CASE production = "ATOM_CLASS"
  <2>1. /\ HeadOf[production] = "Atom"
        /\ Productions[production] = <<"CLASS">>
        /\ next \in {"CLASS"}
    BY <1>16 DEF HeadOf, FirstOf, Productions
  <2> QED
    BY <2>1
<1>17. CASE production = "ATOM_CARET"
  <2>1. /\ HeadOf[production] = "Atom"
        /\ Productions[production] = <<"CARET">>
        /\ next \in {"CARET"}
    BY <1>17 DEF HeadOf, FirstOf, Productions
  <2> QED
    BY <2>1
<1>18. CASE production = "ATOM_DOLLAR"
  <2>1. /\ HeadOf[production] = "Atom"
        /\ Productions[production] = <<"DOLLAR">>
        /\ next \in {"DOLLAR"}
    BY <1>18 DEF HeadOf, FirstOf, Productions
  <2> QED
    BY <2>1
<1>19. CASE production = "ATOM_GROUP"
  <2>1. /\ HeadOf[production] = "Atom"
        /\ Productions[production] = <<"LPAREN", "Alternation", "RPAREN">>
        /\ next \in {"LPAREN"}
    BY <1>19 DEF HeadOf, FirstOf, Productions
  <2> QED
    BY <2>1
<1>20. production \in {"REGEX_END", "REGEX_ALTERNATION_END",
          "ALTERNATION", "ALTERNATION_TAIL_PIPE",
          "ALTERNATION_TAIL_EMPTY", "CONCATENATION",
          "CONCATENATION_TAIL_REPETITION", "CONCATENATION_TAIL_EMPTY",
          "REPETITION", "QUANTIFIER_STAR",
          "QUANTIFIER_PLUS", "QUANTIFIER_QUESTION",
          "QUANTIFIER_EMPTY", "ATOM_LITERAL",
          "ATOM_DOT", "ATOM_CLASS",
          "ATOM_CARET", "ATOM_DOLLAR",
          "ATOM_GROUP"}
  BY DEF Productions
<1> QED
  BY ONLY <1>1, <1>2, <1>3, <1>4, <1>5, <1>6, <1>7, <1>8, <1>9, <1>10,
          <1>11, <1>12, <1>13, <1>14, <1>15, <1>16, <1>17, <1>18, <1>19,
          <1>20

\* An expansion leaves as many groups to close.
LEMMA DepthGrows ==
    ASSUME NEW tr, NEW st, NEW H, NEW symbols, NEW K, NEW fresh,
           NEW new, NEW st2,
           SymbolsOnto(tr, st, H, symbols, K, fresh, new, st2),
           Len(st) = H, Len(st2) = H - 1 + fresh,
           Closes(tr[st[H]].symbol) = 0, RowCloses(symbols, K),
           NEW depth, DepthOK(tr, st, depth)
    PROVE  DepthOK(new, st2, depth)
<1>1. /\ H \in Nat \ {0} /\ DOMAIN st = 1 .. H /\ K \in 1 .. 3
      /\ DOMAIN st2 = 1 .. H - 1 + fresh
      /\ \A i \in 1 .. H - 1 : new[st2[i]].symbol = tr[st[i]].symbol
      /\ \A j \in 1 .. fresh :
            new[st2[H - 1 + j]].symbol = symbols[fresh + 1 - j]
      /\ fresh = 0 \/ fresh = K
  BY DEF SymbolsOnto
<1>2. PICK depths \in [0 .. H -> Nat] :
         /\ depths[0] = 0
         /\ \A i \in 1 .. H :
               depths[i] = depths[i - 1] + Closes(tr[st[i]].symbol)
         /\ depths[H] = depth
  BY <1>1 DEF DepthOK
<1>3. /\ depths[H - 1] \in Nat /\ depths[H - 1] = depth
      /\ \A i \in 0 .. H - 1 : depths[i] \in Nat
  <2>1. /\ H \in 1 .. H /\ H - 1 \in 0 .. H
        /\ \A i \in 0 .. H - 1 : i \in 0 .. H
    BY <1>1
  <2> QED
    BY <2>1, <1>2
<1> DEFINE group == \E j \in 1 .. K : Closes(symbols[j]) # 0
           F == H - 1 + fresh
           depths2 == [i \in 0 .. F |-> IF i <= H - 1 THEN depths[i]
                                        ELSE IF group /\ i < F THEN depth + 1
                                        ELSE depth]
<1>4. F \in Nat /\ fresh \in 0 .. 3 /\ H - 1 \in 0 .. F
  BY <1>1
<1>5. depths2 \in [0 .. F -> Nat]
  <2>1. \A i \in 0 .. F : i <= H - 1 => i \in 0 .. H - 1
    BY <1>1, <1>4
  <2> QED
    BY <2>1, <1>3
<1>6. /\ \A i \in 0 .. H - 1 : depths2[i] = depths[i]
      /\ \A i \in H .. F : depths2[i] = IF group /\ i < F THEN depth + 1
                                        ELSE depth
      /\ depths2[F] = depth
  <2>1. /\ \A i \in 0 .. H - 1 : i \in 0 .. F /\ i <= H - 1
        /\ \A i \in H .. F : i \in 0 .. F /\ ~(i <= H - 1)
        /\ F \in 0 .. F /\ (F <= H - 1 => F = H - 1)
    BY <1>1, <1>4
  <2> QED
    BY <2>1, <1>3
<1> HIDE DEF depths2
<1>7. group => /\ K = 3 /\ Closes(symbols[1]) = 0 - 1
               /\ Closes(symbols[2]) = 0 /\ Closes(symbols[3]) = 1
  BY DEF RowCloses
<1>8. ~group => \A j \in 1 .. K : Closes(symbols[j]) = 0
  OBVIOUS
<1> HIDE DEF group
<1>9. ASSUME NEW i \in 1 .. F
      PROVE  depths2[i] = depths2[i - 1] + Closes(new[st2[i]].symbol)
  <2>1. CASE i <= H - 1
    <3>1. i \in 1 .. H - 1 /\ i \in 0 .. H - 1 /\ i - 1 \in 0 .. H - 1
          /\ i \in 1 .. H
      BY <2>1, <1>1
    <3> QED
      BY <3>1, <1>1, <1>2, <1>6, ZenonT(60)
  <2>2. CASE ~(i <= H - 1)
    <3>1. PICK j \in 1 .. fresh : i = H - 1 + j
      <4>1. i - (H - 1) \in 1 .. fresh /\ i = H - 1 + (i - (H - 1))
        BY <2>2, <1>1, <1>4
      <4> QED
        BY ONLY <4>1
    <3>2. fresh = K /\ fresh + 1 - j \in 1 .. K /\ i \in H .. F
      BY ONLY <3>1, <2>2, <1>1, <1>4
    <3>3. Closes(new[st2[i]].symbol) = Closes(symbols[fresh + 1 - j])
      BY <3>1, <1>1
    <3>4. depths2[i - 1] = IF j = 1 THEN depth
                           ELSE IF group THEN depth + 1 ELSE depth
      <4>1. CASE j = 1
        <5>1. i - 1 = H - 1 /\ H - 1 \in 0 .. H - 1
          BY <4>1, <3>1, <1>1
        <5> QED
          BY <5>1, <4>1, <1>3, <1>6
      <4>2. CASE j # 1
        <5>1. i - 1 \in H .. F /\ i - 1 < F
          BY <4>2, <3>1, <1>1, <1>4
        <5> QED
          BY <5>1, <4>2, <1>6
      <4> QED
        BY <4>1, <4>2
    <3>5. depths2[i] = IF group /\ j < fresh THEN depth + 1 ELSE depth
      <4>1. i < F <=> j < fresh
        BY <3>1, <1>1, <1>4
      <4> QED
        BY <4>1, <3>2, <1>6
    <3>6. CASE ~group
      BY <3>2, <3>3, <3>4, <3>5, <3>6, <1>3, <1>8
    <3>7. CASE group
      <4>1. fresh = 3 /\ (j = 1 \/ j = 2 \/ j = 3)
        BY <3>1, <3>2, <3>7, <1>7
      <4> QED
        BY <4>1, <3>3, <3>4, <3>5, <3>7, <1>3, <1>7, SMTT(30)
    <3> QED
      BY <3>6, <3>7
  <2> QED
    BY <2>1, <2>2
<1>10. depths2[0] = 0 /\ DOMAIN st2 = 1 .. F /\ Len(st2) = F
  <2>1. 0 \in 0 .. H - 1
    BY <1>1
  <2> QED
    BY <2>1, <1>1, <1>2, <1>6
<1> HIDE DEF F
<1> QED
  BY <1>5, <1>6, <1>9, <1>10 DEF DepthOK

\* What is below the symbol on top closes a number of groups, none if there
\* is nothing.
LEMMA TopCloses ==
    ASSUME NEW tr, NEW st, NEW H \in Nat \ {0}, Len(st) = H,
           DOMAIN st = 1 .. H, NEW depth \in Int, DepthOK(tr, st, depth)
    PROVE  /\ depth - Closes(tr[st[H]].symbol) \in Nat
           /\ H = 1 => depth - Closes(tr[st[H]].symbol) = 0
<1>1. PICK depths \in [0 .. H -> Nat] :
         /\ depths[0] = 0
         /\ \A i \in 1 .. H :
               depths[i] = depths[i - 1] + Closes(tr[st[i]].symbol)
         /\ depths[H] = depth
  BY DEF DepthOK
<1>2. /\ H \in 1 .. H /\ H - 1 \in 0 .. H
      /\ Closes(tr[st[H]].symbol) \in Int
  BY DEF Closes
<1>3. /\ depth = depths[H - 1] + Closes(tr[st[H]].symbol)
      /\ depths[H - 1] \in Nat
  BY <1>1, <1>2
<1> QED
  BY ONLY <1>1, <1>2, <1>3

\* Matching a token leaves to be closed what is below the symbol.
LEMMA DepthMatches ==
    ASSUME NEW tr, NEW N, NEW st, NEW H, NEW k, NEW new, NEW st2,
           Matches(tr, N, st, H, k, new, st2),
           Len(st) = H, Len(st2) = H - 1,
           NEW depth \in Int, DepthOK(tr, st, depth)
    PROVE  DepthOK(new, st2, depth - Closes(tr[st[H]].symbol))
<1>1. /\ N \in Nat \ {0} /\ H \in Nat \ {0}
      /\ DOMAIN st = 1 .. H /\ DOMAIN st2 = 1 .. H - 1
      /\ \A i \in 1 .. H : st[i] \in 1 .. N
      /\ \A i \in 1 .. H - 1 : st2[i] = st[i]
      /\ \A n \in 1 .. N : new[n].symbol = tr[n].symbol
  BY DEF Matches
<1>2. PICK depths \in [0 .. H -> Nat] :
         /\ depths[0] = 0
         /\ \A i \in 1 .. H :
               depths[i] = depths[i - 1] + Closes(tr[st[i]].symbol)
         /\ depths[H] = depth
  BY <1>1 DEF DepthOK
<1> DEFINE depths2 == [i \in 0 .. H - 1 |-> depths[i]]
<1>3. /\ depths2 \in [0 .. H - 1 -> Nat]
      /\ \A i \in 0 .. H - 1 : depths2[i] = depths[i]
  <2>1. \A i \in 0 .. H - 1 : i \in 0 .. H
    BY <1>1
  <2> QED
    BY <2>1
<1> HIDE DEF depths2
<1>4. \A i \in 1 .. H - 1 : /\ i \in 1 .. H /\ i - 1 \in 0 .. H - 1
                            /\ i \in 0 .. H - 1
                            /\ new[st2[i]].symbol = tr[st[i]].symbol
  <2> TAKE i \in 1 .. H - 1
  <2>1. i \in 1 .. H /\ i - 1 \in 0 .. H - 1 /\ i \in 0 .. H - 1
    BY <1>1
  <2> QED
    BY <2>1, <1>1
<1>5. \A i \in 1 .. H - 1 :
         depths2[i] = depths2[i - 1] + Closes(new[st2[i]].symbol)
  BY <1>2, <1>3, <1>4
<1>6. /\ depths2[0] = 0
      /\ depths2[H - 1] = depth - Closes(tr[st[H]].symbol)
  <2>1. 0 \in 0 .. H - 1 /\ H - 1 \in 0 .. H - 1 /\ H \in 1 .. H
    BY <1>1
  <2>2. depths2[0] = 0
    BY <2>1, <1>2, <1>3
  <2>3. depths2[H - 1] = depths[H - 1] /\ depths[H - 1] \in Nat
    BY <2>1, <1>3
  <2>4. depth = depths[H - 1] + Closes(tr[st[H]].symbol)
    BY <2>1, <1>2
  <2>5. Closes(tr[st[H]].symbol) \in Int
    BY DEF Closes
  <2> QED
    BY ONLY <2>2, <2>3, <2>4, <2>5
<1> QED
  BY <1>1, <1>3, <1>5, <1>6 DEF DepthOK
-----------------------------------------------------------------------------
(* The errors.                                                             *)

\* When the table has nothing for the nonterminal on top.
LEMMA Refused ==
    ASSUME NEW symbol \in Nonterminals, NEW next \in Terminals, NEW previous,
           next \in Fitting(symbol), Guided(symbol, previous, next),
           grammar_table_lookup(symbol, next) = NONE
    PROVE  /\ next \in Quantifiers \cup Endings
           /\ \/ symbol = "Regex" /\ previous = "BEGIN" /\ next # "END"
              \/ symbol = "Alternation" /\ previous = "LPAREN"
              \/ symbol = "Concatenation" /\ previous = "PIPE"
              \/ /\ symbol = "ConcatenationTail"
                 /\ previous \in Quantifiers /\ next \in Quantifiers
<1> USE DEF grammar_table_lookup, NONE, Guided, Fitting, Terminals, Endings
<1>1. CASE symbol = "Regex"
  BY <1>1 DEF AtomStarts, Quantifiers
<1>2. CASE symbol = "Alternation"
  BY <1>2 DEF AtomStarts, Quantifiers
<1>3. CASE symbol = "Concatenation"
  BY <1>3 DEF AtomStarts, Quantifiers
<1>4. CASE symbol = "ConcatenationTail"
  BY <1>4 DEF AtomStarts, Quantifiers
<1>5. CASE symbol = "AlternationTail"
  BY <1>5 DEF AtomStarts, Quantifiers
<1>6. CASE symbol = "Repetition"
  BY <1>6 DEF AtomStarts, Quantifiers
<1>7. CASE symbol = "Quantifier"
  BY <1>7 DEF AtomStarts, Quantifiers
<1>8. CASE symbol = "Atom"
  BY <1>8 DEF AtomStarts, Quantifiers
<1> QED
  BY ONLY <1>1, <1>2, <1>3, <1>4, <1>5, <1>6, <1>7, <1>8,
          symbol \in Nonterminals, Zenon DEF Nonterminals

\* What is known of the tokens when there is something on the stack.
LEMMA GuideFacts ==
    ASSUME IInv, SyntaxIInv, pc = "loop", stack # <<>>
    PROVE  /\ tokens \in Inputs /\ read \in DOMAIN tokens
           /\ read \in Nat \ {0} /\ read - 1 \in Nat /\ read - 1 + 1 = read
           /\ Current \in Terminals /\ Abs!Kind(tokens, read) = Current
           /\ Abs!IsViable(tokens, read - 1)
           /\ Abs!Depth(tokens, read - 1) \in Int
           /\ DepthOK(tree, stack, Abs!Depth(tokens, read - 1))
           /\ Guided(Node.symbol, Abs!Kind(tokens, read - 1), Current)
           /\ error = NoError /\ position = 0
<1>1. /\ tokens \in Inputs /\ read \in DOMAIN tokens /\ Current \in Terminals
      /\ error = NoError
  BY LoopFacts
<1>2. DOMAIN tokens \subseteq Nat \ {0}
  BY <1>1, TokenFacts
<1>3. /\ read \in Nat \ {0} /\ read - 1 \in Nat /\ read - 1 + 1 = read
  BY ONLY <1>1, <1>2
<1>4. Abs!Kind(tokens, read) = Current
  BY <1>3 DEF Abs!Kind, Current
<1>5. /\ MatchedOK(read - 1) /\ position = 0
      /\ Guided(Node.symbol, Abs!Kind(tokens, read - 1), Current)
  BY <1>1 DEF SyntaxIInv
<1>6. Abs!Depth(tokens, read - 1) \in Int
  BY <1>3, DepthStep
<1> QED
  BY <1>1, <1>3, <1>4, <1>5, <1>6 DEF MatchedOK

\* The current token is the first wrong one.
LEMMA WrongHere ==
    ASSUME IInv, SyntaxIInv, pc = "loop", stack # <<>>,
           ~GoesOnAt(tokens, read)
    PROVE  ~Abs!IsPattern(tokens) /\ Abs!FirstWrong(tokens) = read
<1>1. /\ tokens \in Inputs /\ read \in DOMAIN tokens /\ read - 1 \in Nat
      /\ read - 1 + 1 = read /\ Abs!IsViable(tokens, read - 1)
  BY GuideFacts
<1>2. Abs!IsViable(tokens, read) <=>
        Abs!IsViable(tokens, read - 1) /\ GoesOnAt(tokens, read)
  BY <1>1, ViableStep
<1> QED
  BY <1>1, <1>2, WrongFirst

\* What the invariant asks for after an error.
LEMMA FaultIsRight ==
    ASSUME IInv', pc' = "fail", tokens' = tokens,
           \/ error' \in ParserMemoryErrors
           \/ /\ ~Abs!IsPattern(tokens) /\ error' = Abs!Complaint(tokens)
              /\ position' = Abs!FirstWrong(tokens)
    PROVE  SyntaxIInv'
<1>1. error' # NoError
  BY DEF IInv, PhaseOK
<1>2. FaultOK'
  BY DEF FaultOK
<1> QED
  BY <1>1, <1>2 DEF SyntaxIInv

\* parser_set_table_error says what is wrong.
LEMMA RefuseNonterminalIsRight ==
    ASSUME IInv, SyntaxIInv, RefuseNonterminal, IInv' PROVE SyntaxIInv'
<1> DEFINE previous == Abs!Kind(tokens, read - 1)
<1>1. /\ pc = "loop" /\ stack # <<>> /\ Node.symbol \in Nonterminals
      /\ grammar_table_lookup(Node.symbol, Current) = NONE
      /\ Fail(TableError(Node.symbol)) /\ tokens' = tokens
  BY DEF RefuseNonterminal, AtNonterminal, Production
<1>2. /\ Current \in Terminals /\ Abs!Kind(tokens, read) = Current
      /\ Guided(Node.symbol, previous, Current)
  BY <1>1, GuideFacts
<1>3. Current \in Fitting(Node.symbol)
  BY <1>1, TopFacts
<1>4. PICK symbol, next : symbol = Node.symbol /\ next = Current
  OBVIOUS
<1>5. /\ next \in Quantifiers \cup Endings
      /\ \/ symbol = "Regex" /\ previous = "BEGIN" /\ next # "END"
         \/ symbol = "Alternation" /\ previous = "LPAREN"
         \/ symbol = "Concatenation" /\ previous = "PIPE"
         \/ /\ symbol = "ConcatenationTail"
            /\ previous \in Quantifiers /\ next \in Quantifiers
  BY ONLY <1>1, <1>2, <1>3, <1>4, Refused
<1> HIDE DEF previous
<1>6. ~Abs!MayFollow(next, previous)
  BY ONLY <1>5
     DEF Abs!MayFollow, Abs!Atoms, Abs!Repeaters, Abs!OperandEnds,
         Quantifiers, Endings
<1>7. ~Abs!IsPattern(tokens) /\ Abs!FirstWrong(tokens) = read
  BY <1>1, <1>2, <1>4, <1>6, WrongHere DEF GoesOnAt, previous
<1>8. Abs!Complaint(tokens) =
        CASE next = "ERROR" -> "lexical error"
          [] next \in Abs!Repeaters ->
                IF previous \in Abs!Repeaters
                THEN "multiple consecutive quantifiers are not supported"
                ELSE "quantifier has no preceding expression"
          [] next = "PIPE" -> "alternation operator is missing an operand"
          [] next = "RPAREN" -> IF previous \in {"LPAREN", "PIPE"}
                                THEN "empty or incomplete group"
                                ELSE "unexpected closing parenthesis"
          [] next = "END" -> IF previous \in {"LPAREN", "PIPE"}
                             THEN "expected an expression"
                             ELSE "missing closing parenthesis"
  BY <1>2, <1>4, <1>7 DEF Abs!Complaint, previous
<1>9. TableError(Node.symbol) =
        CASE next \in Quantifiers ->
                IF symbol \in {"ConcatenationTail", "AlternationTail"}
                THEN "multiple consecutive quantifiers are not supported"
                ELSE "quantifier has no preceding expression"
          [] next = "PIPE" -> "alternation operator is missing an operand"
          [] next = "RPAREN" ->
                IF symbol \in {"Alternation", "Concatenation"}
                THEN "empty or incomplete group"
                ELSE "unexpected closing parenthesis"
          [] next = "END" -> "expected an expression"
  BY <1>4 DEF TableError
<1>10. Abs!Complaint(tokens) = TableError(Node.symbol)
  <2>1. CASE next \in Quantifiers
    BY ONLY <2>1, <1>5, <1>8, <1>9 DEF Abs!Repeaters, Quantifiers
  <2>2. CASE next = "PIPE"
    BY ONLY <2>2, <1>8, <1>9 DEF Abs!Repeaters, Quantifiers
  <2>3. CASE next = "RPAREN"
    BY ONLY <2>3, <1>5, <1>8, <1>9 DEF Abs!Repeaters, Quantifiers
  <2>4. CASE next = "END"
    BY ONLY <2>4, <1>5, <1>8, <1>9 DEF Abs!Repeaters, Quantifiers
  <2> QED
    BY <2>1, <2>2, <2>3, <2>4, <1>5 DEF Endings
<1> QED
  BY <1>1, <1>7, <1>10, FaultIsRight DEF Fail, FailAt

\* parser_set_terminal_error says what is wrong.
LEMMA RefuseTerminalIsRight ==
    ASSUME IInv, SyntaxIInv, RefuseTerminal, IInv' PROVE SyntaxIInv'
<1> DEFINE previous == Abs!Kind(tokens, read - 1)
           depth == Abs!Depth(tokens, read - 1)
<1>1. /\ pc = "loop" /\ stack # <<>> /\ Node.symbol \in Terminals
      /\ Node.symbol # Current /\ Fail(TerminalError(Node.symbol))
      /\ tokens' = tokens
  BY DEF RefuseTerminal, AtTerminal
<1>2. /\ Current \in Terminals /\ Abs!Kind(tokens, read) = Current
      /\ Guided(Node.symbol, previous, Current)
      /\ depth \in Int /\ DepthOK(tree, stack, depth)
      /\ read - 1 \in Nat /\ read - 1 + 1 = read
  BY <1>1, GuideFacts
<1>3. /\ Current \in Fitting(Node.symbol) /\ Node = tree[stack[Len(stack)]]
      /\ DOMAIN stack = 1 .. Len(stack) /\ Len(stack) \in Nat \ {0}
  BY <1>1, TopFacts
<1>4. \/ Node.symbol = "END" /\ Current = "RPAREN"
      \/ Node.symbol = "RPAREN" /\ Current = "END"
  BY <1>1, <1>3, SMTT(30) DEF Fitting, Terminals, AtomStarts, Quantifiers
<1>5. PICK H \in Nat \ {0} : H = Len(stack)
  BY <1>3
<1>6. /\ depth - Closes(Node.symbol) \in Nat
      /\ H = 1 => depth - Closes(Node.symbol) = 0
  BY <1>2, <1>3, <1>5, TopCloses
<1>7. Node.symbol = "END" => H = 1
  <2>1. H # 1 => tree[stack[H - 1]].symbol \in Below(Node.symbol)
    <3>1. OrderOK(tree, stack) /\ H \in DOMAIN stack
      BY <1>1, <1>3, <1>5, LoopFacts
    <3> QED
      BY <3>1, <1>3, <1>5 DEF OrderOK
  <2>2. Below("END") = {}
    BY <1>1, BehindTerminal
  <2> QED
    BY <2>1, <2>2
<1>8. Abs!Depth(tokens, read) = depth - Closes(Current)
  BY <1>2, DepthStep
<1> HIDE DEF depth
<1>9. ~GoesOnAt(tokens, read)
  <2>1. CASE Node.symbol = "END" /\ Current = "RPAREN"
    <3>1. Abs!Depth(tokens, read) = depth - 1 /\ depth = 0
      BY <2>1, <1>2, <1>6, <1>7, <1>8 DEF Closes
    <3> QED
      BY <3>1, <2>1, <1>2 DEF GoesOnAt
  <2>2. CASE Node.symbol = "RPAREN" /\ Current = "END"
    <3>1. Abs!Depth(tokens, read) = depth /\ depth - 1 \in Nat
      BY <2>2, <1>2, <1>6, <1>8 DEF Closes
    <3> QED
      BY <3>1, <2>2, <1>2 DEF GoesOnAt
  <2> QED
    BY <2>1, <2>2, <1>4
<1>10. ~Abs!IsPattern(tokens) /\ Abs!FirstWrong(tokens) = read
  BY <1>1, <1>9, WrongHere
<1>11. previous \in Abs!OperandEnds
  BY <1>2, <1>4 DEF Guided
<1>12. previous \notin {"LPAREN", "PIPE"}
  BY ONLY <1>11 DEF Abs!OperandEnds, Abs!Atoms, Abs!Repeaters
<1>13. Abs!Complaint(tokens) = TerminalError(Node.symbol)
  BY <1>2, <1>4, <1>10, <1>12
     DEF Abs!Complaint, TerminalError, Abs!Repeaters
<1> QED
  BY <1>1, <1>10, <1>13, FaultIsRight DEF Fail, FailAt
-----------------------------------------------------------------------------
(* The steps.                                                              *)

\* An error of the lexer is the first wrong token.
LEMMA LexicalErrorIsRight ==
    ASSUME IInv, NEW k \in Nat, k + 1 \in DOMAIN tokens,
           Abs!IsViable(tokens, k), Abs!Kind(tokens, k + 1) = "ERROR"
    PROVE  /\ ~Abs!IsPattern(tokens) /\ Abs!FirstWrong(tokens) = k + 1
           /\ Abs!Complaint(tokens) = "lexical error"
<1>1. tokens \in Inputs
  BY DEF IInv
<1>2. ~Abs!MayFollow(Abs!Kind(tokens, k + 1), Abs!Kind(tokens, k + 1 - 1))
  BY DEF Abs!MayFollow, Abs!Atoms, Abs!Repeaters
<1>3. ~Abs!IsViable(tokens, k + 1)
  BY <1>2, ViableStep DEF GoesOnAt
<1>4. k + 1 - 1 = k
  OBVIOUS
<1>5. ~Abs!IsPattern(tokens) /\ Abs!FirstWrong(tokens) = k + 1
  BY <1>1, <1>3, <1>4, WrongFirst
<1> QED
  BY <1>5 DEF Abs!Complaint, Abs!Repeaters

\* What a terminal that is matched guides to.
LEMMA GuidesOn ==
    ASSUME NEW symbol \in Terminals, NEW next, NEW under \in Below(symbol)
    PROVE  Guided(under, symbol, next)
<1>1. CASE symbol \in Quantifiers
  <2>1. under = "ConcatenationTail"
    BY <1>1 DEF Below, Quantifiers, AtomStarts
  <2> QED
    BY ONLY <1>1, <2>1
       DEF Guided, Quantifiers, Abs!OperandEnds, Abs!Repeaters
<1>2. CASE symbol \in {"RPAREN"} \cup (AtomStarts \ {"LPAREN"})
  <2>1. under = "Quantifier"
    BY <1>2 DEF Below, Quantifiers, AtomStarts
  <2> QED
    BY ONLY <1>2, <2>1 DEF Guided, Quantifiers, Abs!Atoms, AtomStarts
<1>3. CASE symbol = "LPAREN"
  <2>1. under = "Alternation"
    BY <1>3 DEF Below, Quantifiers, AtomStarts
  <2> QED
    BY ONLY <1>3, <2>1 DEF Guided, Quantifiers
<1>4. CASE symbol = "PIPE"
  <2>1. under = "Concatenation"
    BY <1>4 DEF Below, Quantifiers, AtomStarts
  <2> QED
    BY ONLY <1>4, <2>1 DEF Guided, Quantifiers
<1>5. CASE symbol = "END"
  BY <1>5, BehindTerminal
<1> QED
  BY <1>1, <1>2, <1>3, <1>4, <1>5 DEF Terminals

\* A token that is matched goes on with the pattern.
LEMMA MatchedGoesOn ==
    ASSUME NEW symbol \in Terminals, NEW k, Abs!Kind(tokens, k) = symbol,
           Guided(symbol, Abs!Kind(tokens, k - 1), symbol),
           NEW rest \in Nat, Abs!Depth(tokens, k) = rest,
           symbol = "END" => rest = 0
    PROVE  GoesOnAt(tokens, k)
<1>1. PICK previous : previous = Abs!Kind(tokens, k - 1)
  OBVIOUS
<1>2. Guided(symbol, previous, symbol)
  BY <1>1
<1>3. Abs!MayFollow(symbol, previous)
  BY ONLY <1>2, symbol \in Terminals
     DEF Abs!MayFollow, Guided, Terminals, AtomStarts, Quantifiers,
         Abs!Atoms, Abs!Repeaters
<1> QED
  BY <1>1, <1>3 DEF GoesOnAt

\* A token is matched.
LEMMA MatchTerminalIsRight ==
    ASSUME IInv, SyntaxIInv, MatchTerminal, IInv' PROVE SyntaxIInv'
<1> DEFINE depth == Abs!Depth(tokens, read - 1)
<1>1. /\ pc = "loop" /\ stack # <<>> /\ Node.symbol \in Terminals
      /\ Node.symbol = Current
      /\ stack' = Front(stack)
      /\ tree' = [tree EXCEPT ![Last(stack)].token = read]
      /\ tokens' = tokens
  BY DEF MatchTerminal, AtTerminal, Pop, Top
<1>2. /\ tokens \in Inputs /\ read \in DOMAIN tokens
      /\ read \in Nat \ {0} /\ read - 1 \in Nat /\ read - 1 + 1 = read
      /\ Current \in Terminals /\ Abs!Kind(tokens, read) = Current
      /\ Abs!IsViable(tokens, read - 1)
      /\ depth \in Int /\ DepthOK(tree, stack, depth)
      /\ Guided(Node.symbol, Abs!Kind(tokens, read - 1), Current)
      /\ error = NoError /\ position = 0
  BY <1>1, GuideFacts
<1>3. /\ stack \in Seq(DOMAIN tree) /\ TreeOK(tree) /\ OrderOK(tree, stack)
  BY <1>1, LoopFacts
<1>4. PICK N, H : /\ Matches(tree, N, stack, H, read, tree', stack')
                  /\ Len(stack) = H /\ Len(stack') = H - 1
  <2>1. tree' = Matched(tree, stack, read)
    BY <1>1 DEF Matched
  <2>2. /\ stack # <<>> /\ stack \in Seq(DOMAIN tree) /\ TreeOK(tree)
        /\ read \in Nat \ {0}
    BY <1>1, <1>2, <1>3
  <2>3. \E N, H : /\ Matches(tree, N, stack, H, read, tree', Front(stack))
                  /\ Len(tree) = N /\ Len(tree') = N
                  /\ Len(stack) = H /\ Len(Front(stack)) = H - 1
    BY ONLY <2>1, <2>2, MatchIs
  <2> QED
    BY ONLY <2>3, <1>1
<1>5. /\ H \in Nat \ {0} /\ DOMAIN stack = 1 .. H
      /\ \A i \in 1 .. H : stack[i] \in 1 .. N
      /\ \A i \in 1 .. H - 1 : stack'[i] = stack[i]
      /\ \A n \in 1 .. N : tree'[n].symbol = tree[n].symbol
  BY <1>4 DEF Matches
<1>6. Node.symbol = tree[stack[H]].symbol /\ H \in DOMAIN stack
  BY <1>1, <1>4, <1>5, TopFacts
<1>7. DepthOK(tree', stack', depth - Closes(Current))
  BY <1>1, <1>2, <1>4, <1>6, DepthMatches
<1>8. Abs!Depth(tokens, read) = depth - Closes(Current)
  BY <1>2, DepthStep
<1> HIDE DEF depth
<1>9. /\ depth - Closes(Current) \in Nat
      /\ H = 1 => depth - Closes(Current) = 0
  <2>1. /\ depth - Closes(tree[stack[H]].symbol) \in Nat
        /\ H = 1 => depth - Closes(tree[stack[H]].symbol) = 0
    <3>1. /\ H \in Nat \ {0} /\ Len(stack) = H /\ DOMAIN stack = 1 .. H
          /\ depth \in Int /\ DepthOK(tree, stack, depth)
      BY ONLY <1>2, <1>4, <1>5
    <3> QED
      BY ONLY <3>1, TopCloses
  <2> QED
    BY ONLY <2>1, <1>1, <1>6
<1>10. /\ Current = "END" => H = 1
       /\ Current # "END" =>
             /\ H # 1
             /\ tree'[stack'[H - 1]].symbol \in Below(Current)
  <2>1. IF H = 1 THEN Current \in Bottom
        ELSE tree[stack[H - 1]].symbol \in Below(Current)
    BY <1>1, <1>3, <1>6 DEF OrderOK
  <2>2. H # 1 => H - 1 \in 1 .. H - 1 /\ H - 1 \in 1 .. H
    BY ONLY <1>5
  <2>3. H # 1 => tree'[stack'[H - 1]].symbol = tree[stack[H - 1]].symbol
    BY ONLY <2>2, <1>5
  <2>4. Below("END") = {} /\ (Current = "END" <=> Current \in Bottom)
    BY <1>2, BehindTerminal
  <2> QED
    BY ONLY <2>1, <2>3, <2>4
<1>11. PICK rest \in Nat : rest = depth - Closes(Current)
  BY <1>9
<1>12. GoesOnAt(tokens, read)
  <2>1. Guided(Current, Abs!Kind(tokens, read - 1), Current)
    BY ONLY <1>1, <1>2
  <2>2. Current = "END" => rest = 0
    BY ONLY <1>9, <1>10, <1>11
  <2>3. Abs!Depth(tokens, read) = rest
    BY ONLY <1>8, <1>11
  <2> QED
    BY ONLY <2>1, <2>2, <2>3, <1>2, <1>11, MatchedGoesOn
<1>13. Abs!IsViable(tokens, read)
  BY <1>2, <1>12, ViableStep
<1>14. DepthOK(tree', stack', Abs!Depth(tokens, read))
  BY <1>7, <1>8
<1>15. CASE Current # "END" /\ Advance("loop")
  <2>1. read' = read + 1 /\ read' - 1 = read
    <3>1. read' = read + 1
      BY <1>15 DEF Advance
    <3> QED
      BY ONLY <3>1, <1>2
  <2>2. read' \in DOMAIN tokens
    <3>1. tokens[read].terminal \notin {"END", "ERROR"}
      BY <1>2, <1>15 DEF Current, Terminals, AtomStarts, Quantifiers
    <3> QED
      BY <2>1, <3>1, <1>2, TokenFacts
  <2>3. Abs!Kind(tokens, read') = tokens[read'].terminal
    <3>1. read' # 0
      BY <2>1, <1>2
    <3> QED
      BY <3>1 DEF Abs!Kind
  <2>4. CASE tokens[read'].terminal = "ERROR"
    <3>1. pc' = "fail" /\ error' = "lexical error" /\ position' = read'
      BY <2>1, <2>4, <1>1, <1>15 DEF Advance, FailAt
    <3>2. /\ ~Abs!IsPattern(tokens) /\ Abs!FirstWrong(tokens) = read'
          /\ Abs!Complaint(tokens) = "lexical error"
      BY <2>1, <2>2, <2>3, <2>4, <1>2, <1>13, LexicalErrorIsRight
    <3> QED
      BY <3>1, <3>2, <1>1, FaultIsRight
  <2>5. CASE tokens[read'].terminal # "ERROR"
    <3>1. pc' = "loop" /\ error' = NoError /\ position' = 0
      BY <2>1, <2>5, <1>1, <1>2, <1>15 DEF Advance, fault
    <3>2. stack' # <<>> /\ Top' = stack'[H - 1]
      <4>1. H - 1 \in Nat \ {0}
        BY ONLY <1>5, <1>10, <1>15
      <4> QED
        BY ONLY <4>1, <1>4, NoElements DEF Top, Last
    <3>3. Guided(tree'[Top'].symbol, Abs!Kind(tokens, read), Current')
      BY <3>2, <1>2, <1>10, <1>15, GuidesOn
    <3>4. (Abs!Kind(tokens, read - 1))' = Abs!Kind(tokens, read)
      BY ONLY <2>1, <1>1
    <3>5. (MatchedOK(read - 1))'
      BY <2>1, <1>1, <1>13, <1>14 DEF MatchedOK
    <3> QED
      BY <3>1, <3>2, <3>3, <3>4, <3>5 DEF SyntaxIInv, Node
  <2> QED
    BY <2>4, <2>5
<1>16. CASE Current = "END" /\ UNCHANGED <<pc, read, fault>>
  <2>1. pc' = "loop" /\ read' = read /\ error' = NoError /\ position' = 0
    BY <1>1, <1>2, <1>16 DEF fault
  <2>2. stack' = <<>>
    <3>1. Len(stack') = 0 /\ stack' \in Seq(DOMAIN tree')
      BY <1>4, <1>10, <1>16 DEF IInv, TypeOK, StateOK
    <3> QED
      BY ONLY <3>1, EmptySeq
  <2>3. MatchedOK(read)'
    BY <2>1, <1>1, <1>13, <1>14 DEF MatchedOK
  <2>4. Current' = "END"
    BY <2>1, <1>1, <1>16 DEF Current
  <2> QED
    BY <2>1, <2>2, <2>3, <2>4 DEF SyntaxIInv
<1> QED
  BY <1>15, <1>16 DEF MatchTerminal

\* A nonterminal is expanded, or not for want of memory.
LEMMA ExpandIsRight ==
    ASSUME IInv, SyntaxIInv, Expand, IInv' PROVE SyntaxIInv'
<1> DEFINE depth == Abs!Depth(tokens, read - 1)
           previous == Abs!Kind(tokens, read - 1)
<1>1. PICK symbols : symbols = grammar_production_symbols(Production)
  OBVIOUS
<1> DEFINE pushed == Front(stack)
                     \o Frontier([i \in DOMAIN symbols |-> Len(tree) + i],
                                 symbols)
<1>2. /\ AtNonterminal /\ Production # NONE /\ tokens' = tokens /\ read' = read
      /\ \/ Fail("failed to allocate parse tree children")
         \/ Fail("failed to allocate parse tree node")
         \/ /\ CreateChildren(symbols, Len(symbols))
            /\ \/ PushAll(pushed) /\ UNCHANGED <<pc, fault>>
               \/ Fail("failed to grow parser stack")
  BY <1>1 DEF Expand
<1>3. pc = "loop" /\ stack # <<>> /\ Node.symbol \in Nonterminals
  BY <1>2 DEF AtNonterminal
<1>4. ASSUME NEW why \in ParserMemoryErrors, Fail(why) PROVE SyntaxIInv'
  BY <1>2, <1>4, FaultIsRight DEF Fail, FailAt
<1>5. CASE \/ Fail("failed to allocate parse tree children")
           \/ Fail("failed to allocate parse tree node")
           \/ Fail("failed to grow parser stack")
  BY <1>4, <1>5 DEF ParserMemoryErrors
<1>6. CASE /\ CreateChildren(symbols, Len(symbols))
           /\ PushAll(pushed) /\ UNCHANGED <<pc, fault>>
  <2>1. /\ read \in Nat \ {0} /\ Current \in Terminals
        /\ Abs!IsViable(tokens, read - 1) /\ DepthOK(tree, stack, depth)
        /\ Guided(Node.symbol, previous, Current)
        /\ error = NoError /\ position = 0
    BY <1>3, GuideFacts
  <2> HIDE DEF depth, previous, pushed
  <2>2. /\ TreeOK(tree) /\ stack \in Seq(DOMAIN tree)
        /\ PendingOK(tree, stack) /\ OrderOK(tree, stack)
    BY <1>3, LoopFacts
  <2>3. /\ Top \in DOMAIN tree /\ Node = tree[Top] /\ Top = Last(stack)
        /\ Node.children = <<>>
    BY <1>3, TopFacts DEF Top
  <2>4. /\ Production \in DOMAIN Productions
        /\ symbols = Productions[Production]
        /\ Node.symbol = HeadOf[Production]
        /\ RowOK(Node.symbol, Current, symbols) /\ Len(symbols) \in 1 .. 3
    BY <1>1, <1>2, ExpandFacts
  <2>5. Current \in FirstOf[Production]
    BY <2>1, <1>2, <1>3, Table DEF Production
  <2>6. PICK production, next : production = Production /\ next = Current
    OBVIOUS
  <2>7. /\ RowGuides(Node.symbol, previous, next, symbols)
        /\ RowCloses(symbols, Len(symbols)) /\ Closes(Node.symbol) = 0
    BY ONLY <2>1, <2>4, <2>5, <2>6, RowsGuide
  <2>8. tree' = With(tree, Last(stack), Production, symbols, Len(symbols))
    <3>1. Len(symbols) \in 0 .. Len(symbols)
      BY <2>4
    <3> QED
      BY <3>1, <2>3, <1>1, <1>2, <1>6, ChildrenInvariant
  <2>9. PICK N, H, K, fresh :
           /\ Expands(tree, N, stack, H, production, symbols, K, fresh, tree',
                      pushed)
           /\ Sizes(tree, N, stack, H, symbols, K, fresh, tree', pushed)
           /\ stack[H] = Last(stack)
    <3>1. pushed = Pushed(tree, stack, symbols)
      BY DEF Pushed, pushed
    <3>2. /\ production \in DOMAIN Productions
          /\ symbols = Productions[production] /\ stack # <<>>
          /\ tree' = With(tree, Last(stack), production, symbols, Len(symbols))
      BY ONLY <2>4, <2>6, <2>8, <1>3
    <3>3. \E N, H, K, fresh :
           /\ Expands(tree, N, stack, H, production, symbols, K, fresh, tree',
                      pushed)
           /\ Sizes(tree, N, stack, H, symbols, K, fresh, tree', pushed)
           /\ stack[H] = Last(stack)
           /\ Len(tree'[stack[H]].children) = K
           /\ tree'[stack[H]].children # <<>>
           /\ tree'[stack[H]].token = tree[stack[H]].token
           /\ pushed \in Seq(DOMAIN tree')
      BY ONLY <2>2, <2>4, <3>1, <3>2, ExpansionIs
    <3> QED
      BY ONLY <3>3
  <2>10. stack' = pushed /\ pc' = "loop" /\ error' = NoError /\ position' = 0
    BY <2>1, <1>3, <1>6 DEF PushAll, fault
  <2>11. /\ Len(stack) = H /\ Len(symbols) = K /\ Len(stack') = H - 1 + fresh
         /\ Node.symbol = tree[stack[H]].symbol
    BY ONLY <2>3, <2>9, <2>10 DEF Sizes
  <2>12. SymbolsOnto(tree, stack, H, symbols, K, fresh, tree', stack')
    BY ONLY <2>2, <2>9, <2>10, AreOnto
  <2>13. DepthOK(tree', stack', depth)
    BY ONLY <2>1, <2>7, <2>11, <2>12, DepthGrows
  <2>14. /\ H \in Nat \ {0} /\ DOMAIN stack = 1 .. H
         /\ \/ fresh = 0 /\ symbols[1] = EPSILON
            \/ fresh = K /\ K \in 1 .. 3 /\ symbols[1] # EPSILON
         /\ \A i \in 1 .. H - 1 :
                tree'[stack'[i]].symbol = tree[stack[i]].symbol
         /\ \A j \in 1 .. fresh :
               tree'[stack'[H - 1 + j]].symbol = symbols[fresh + 1 - j]
    <3>1. K \in 1 .. 3 => 1 \in 1 .. K
      OBVIOUS
    <3> QED
      BY ONLY <3>1, <2>12 DEF SymbolsOnto
  <2>15. H - 1 + fresh \in Nat \ {0}
    <3>1. H - 1 + fresh >= 1
      BY ONLY <2>2, <2>4, <2>11, <2>12, <1>3, OrderGrows
    <3> QED
      BY ONLY <3>1, <2>14
  <2>16. Guided(tree'[stack'[H - 1 + fresh]].symbol, previous, next)
    <3>1. CASE fresh = 0 /\ symbols[1] = EPSILON
      <4>1. H - 1 \in 1 .. H - 1 /\ H - 1 + fresh = H - 1 /\ H \in 1 .. H
            /\ H # 1
        BY ONLY <3>1, <2>14, <2>15
      <4>2. tree[stack[H - 1]].symbol \in Below(Node.symbol)
        BY ONLY <4>1, <2>2, <2>11, <2>14 DEF OrderOK
      <4> QED
        BY ONLY <4>1, <4>2, <3>1, <2>7, <2>14 DEF RowGuides
    <3>2. CASE fresh = K /\ K \in 1 .. 3 /\ symbols[1] # EPSILON
      <4>1. fresh \in 1 .. fresh /\ fresh + 1 - fresh = 1
        BY ONLY <3>2
      <4> QED
        BY ONLY <4>1, <3>2, <2>7, <2>14 DEF RowGuides
    <3> QED
      BY <3>1, <3>2, <2>14
  <2>17. stack' # <<>> /\ Top' = stack'[H - 1 + fresh]
    BY ONLY <2>11, <2>15, NoElements DEF Top, Last
  <2>18. /\ Current' = next /\ (Abs!Kind(tokens, read - 1))' = previous
         /\ (Abs!Depth(tokens, read - 1))' = depth
         /\ (Abs!IsViable(tokens, read - 1))'
    BY <2>1, <2>6, <1>2 DEF Current, previous, depth
  <2>19. (MatchedOK(read - 1))'
    BY <2>13, <2>18 DEF MatchedOK
  <2> QED
    BY <2>10, <2>16, <2>17, <2>18, <2>19 DEF SyntaxIInv, Node
<1> QED
  BY <1>2, <1>5, <1>6

\* Nothing is read yet.
LEMMA InitIsRight == ASSUME Init PROVE SyntaxIInv
BY DEF Init, SyntaxIInv, NoError

\* The root is created, or not.
LEMMA CreateRootIsRight ==
    ASSUME IInv, SyntaxIInv, CreateRoot, IInv' PROVE SyntaxIInv'
<1>1. tokens' = tokens /\ pc = "create" /\ error = NoError
  BY DEF CreateRoot, IInv, PhaseOK
<1>2. CASE pc' = "begin" /\ UNCHANGED fault
  BY <1>1, <1>2 DEF SyntaxIInv, fault
<1>3. CASE FailAt(0, "failed to allocate parse tree root")
  BY <1>1, <1>3, FaultIsRight DEF FailAt, ParserMemoryErrors
<1> QED
  BY <1>2, <1>3 DEF CreateRoot

\* The first token is scanned.
LEMMA ScanFirstIsRight ==
    ASSUME IInv, SyntaxIInv, ScanFirst, IInv' PROVE SyntaxIInv'
<1>1. /\ tokens' = tokens /\ pc = "begin" /\ read = 0 /\ read' = 0 + 1
      /\ error = NoError /\ tokens \in Inputs /\ position = 0
  BY DEF ScanFirst, Advance, IInv, PhaseOK, SyntaxIInv
<1>2. CASE tokens[1].terminal = "ERROR"
  <2>1. pc' = "fail" /\ error' = "lexical error" /\ position' = 0 + 1
    <3>1. read' = 1 /\ 0 + 1 = 1
      BY <1>1
    <3>2. Advance("push") /\ tokens[read'].terminal = "ERROR"
      BY ONLY <3>1, <1>2, ScanFirst DEF ScanFirst
    <3> QED
      BY ONLY <3>1, <3>2 DEF Advance, FailAt
  <2>2. 0 + 1 \in DOMAIN tokens /\ 0 + 1 = 1
    BY <1>1, TokenFacts
  <2>3. Abs!IsViable(tokens, 0) /\ Abs!Kind(tokens, 0 + 1) = "ERROR"
    BY <1>2, ViableStep DEF Abs!Kind
  <2>4. /\ ~Abs!IsPattern(tokens) /\ Abs!FirstWrong(tokens) = 0 + 1
        /\ Abs!Complaint(tokens) = "lexical error"
    BY <2>2, <2>3, LexicalErrorIsRight
  <2> QED
    BY <2>1, <2>4, <1>1, FaultIsRight
<1>3. CASE tokens[1].terminal # "ERROR"
  <2>1. pc' = "push" /\ error' = NoError /\ position' = 0
    BY <1>1, <1>3 DEF ScanFirst, Advance, fault
  <2> QED
    BY <2>1 DEF SyntaxIInv
<1> QED
  BY <1>2, <1>3

\* The root is pushed, or the parser gives up.
LEMMA PushRootIsRight ==
    ASSUME IInv, SyntaxIInv, PushRoot, IInv' PROVE SyntaxIInv'
<1>1. /\ tokens' = tokens /\ pc = "push" /\ read = 1 /\ read' = 1
      /\ tree = <<NewNode("Regex")>> /\ tree' = tree
      /\ error = NoError /\ position = 0
  BY DEF PushRoot, IInv, PhaseOK, SyntaxIInv, memory
<1>2. CASE PushAll(<<ROOT>>) /\ pc' = "loop" /\ UNCHANGED fault
  <2>1. /\ pc' = "loop" /\ error' = NoError /\ position' = 0
        /\ stack' = <<1>> /\ Len(stack') = 1 /\ DOMAIN stack' = {1}
        /\ stack'[1] = 1 /\ stack' # <<>>
    BY <1>1, <1>2 DEF PushAll, ROOT, fault
  <2>2. tree'[1].symbol = "Regex"
    BY <1>1, RootFacts
  <2>3. /\ Abs!Depth(tokens, 0) = 0 /\ Abs!IsViable(tokens, 0)
        /\ Abs!Kind(tokens, 0) = "BEGIN"
    BY DepthStep, ViableStep DEF Abs!Kind
  <2>4. DepthOK(tree', stack', 0)
    <3> DEFINE depths == [i \in 0 .. 1 |-> 0]
    <3>1. /\ depths \in [0 .. 1 -> Nat]
          /\ depths[0] = 0 /\ depths[1] = 0 /\ depths[1 - 1] = 0
      OBVIOUS
    <3>2. Closes(tree'[stack'[1]].symbol) = 0
      BY <2>1, <2>2 DEF Closes
    <3> HIDE DEF depths
    <3> QED
      BY ONLY <3>1, <3>2, <2>1 DEF DepthOK
  <2>5. (MatchedOK(read - 1))'
    BY <1>1, <2>3, <2>4 DEF MatchedOK
  <2>6. Guided("Regex", "BEGIN", Current')
    BY DEF Guided, Quantifiers
  <2>7. Node' = tree'[1]
    BY ONLY <2>1 DEF Node, Top, Last
  <2>8. (Abs!Kind(tokens, read - 1))' = "BEGIN"
    BY <1>1, <2>3
  <2> QED
    BY <2>1, <2>2, <2>5, <2>6, <2>7, <2>8 DEF SyntaxIInv
<1>3. CASE FailAt(0, "failed to allocate parser stack")
  BY <1>1, <1>3, FaultIsRight DEF FailAt, ParserMemoryErrors
<1> QED
  BY <1>2, <1>3 DEF PushRoot

\* The loop ends.
LEMMA FinishIsRight ==
    ASSUME IInv, SyntaxIInv, Finish, IInv' PROVE SyntaxIInv'
<1>1. /\ pc = "loop" /\ stack = <<>> /\ tokens' = tokens /\ read' = read
      /\ tree' = tree /\ stack' = stack /\ error' = error
      /\ position' = position
  BY DEF Finish, memory, fault
<1>2. error = NoError /\ position = 0 /\ MatchedOK(read) /\ Current = "END"
  BY <1>1, LoopFacts DEF SyntaxIInv
<1> QED
  BY <1>1, <1>2 DEF SyntaxIInv, MatchedOK, Current

\* The error stays.
LEMMA FinishFailedIsRight ==
    ASSUME IInv, SyntaxIInv, FinishFailed, IInv' PROVE SyntaxIInv'
<1>1. /\ pc = "fail" /\ tokens' = tokens /\ pc' = "done"
      /\ error' = error /\ position' = position /\ error # NoError
  BY DEF FinishFailed, fault, IInv, PhaseOK
<1> QED
  BY <1>1 DEF SyntaxIInv, FaultOK

\* Every step keeps what the tokens and the stack have to do with each other.
LEMMA SyntaxStep ==
    ASSUME IInv, SyntaxIInv, [ParserNext]_vars, IInv' PROVE SyntaxIInv'
<1>1. CASE ParserNext
  BY <1>1, CreateRootIsRight, ScanFirstIsRight, PushRootIsRight,
     MatchTerminalIsRight, RefuseTerminalIsRight,
     RefuseNonterminalIsRight, ExpandIsRight, FinishIsRight,
     FinishFailedIsRight DEF ParserNext
<1>2. CASE UNCHANGED vars
  BY <1>2 DEF vars, memory, items, fault, SyntaxIInv, FaultOK, MatchedOK,
              Current, Node, Top
<1> QED
  BY <1>1, <1>2

\* What the parser has read can be the beginning of a pattern, what is on the
\* stack can follow, and an error names what is wrong.
THEOREM SyntaxInvariant == Spec => [](IInv /\ SyntaxIInv)
<1>1. Init => IInv /\ SyntaxIInv
  BY InitInvariant, InitIsRight
<1>2. IInv /\ SyntaxIInv /\ [ParserNext]_vars => IInv' /\ SyntaxIInv'
  BY StepInvariant, SyntaxStep
<1> QED
  BY <1>1, <1>2, PTL DEF Spec
-----------------------------------------------------------------------------
(* The answer.                                                             *)

\* When everything on the stack is matched, the tokens are a pattern.
LEMMA AllMatched ==
    ASSUME IInv, MatchedOK(read), Current = "END", read \in DOMAIN tokens
    PROVE  Abs!IsPattern(tokens)
<1>1. tokens \in Inputs /\ DOMAIN tokens \subseteq Nat \ {0}
  BY TokenFacts DEF IInv
<1>2. Abs!Kind(tokens, read) = "END"
  BY <1>1 DEF Abs!Kind, Current
<1>3. read = Len(tokens)
  BY <1>1, <1>2, ParserAssumption DEF Abs!IsTokenSequence
<1> QED
  BY <1>3 DEF MatchedOK, Abs!IsPattern

\* The answer is the one promised.
AnswerOK ==
    \/ /\ error = NoError /\ position = 0 /\ live # {}
       /\ Abs!IsPattern(tokens)
    \/ /\ error # NoError /\ position \in 0 .. Len(tokens) /\ live = {}
       /\ FaultOK

\* It is, by the invariant.
LEMMA AnswerIsRight ==
    ASSUME IInv, SyntaxIInv, pc = "done" PROVE AnswerOK
<1>1. CASE error = NoError
  <2>1. /\ position = 0 /\ MatchedOK(read) /\ Current = "END"
        /\ stack = <<>> /\ live = DOMAIN tree /\ LoopOK
    BY <1>1 DEF IInv, PhaseOK, SyntaxIInv
  <2>2. tree # <<>> /\ TreeOK(tree)
    BY <2>1 DEF IInv, LoopOK
  <2>3. live # {}
    BY <2>1, <2>2, TreeDomain
  <2>4. read \in DOMAIN tokens
    <3>1. CostOK(tree, stack, 9 * read - 5) /\ Len(stack) = 0
      BY <2>1, NoElements DEF LoopOK
    <3>2. Len(tree) <= 9 * read - 5
      BY ONLY <3>1 DEF CostOK
    <3>3. PICK N \in Nat \ {0} : N = Len(tree)
      BY <2>2, TreeDomain
    <3>4. /\ read \in 0 .. Len(tokens) /\ Len(tokens) \in Nat
          /\ DOMAIN tokens = 1 .. Len(tokens)
      BY TokenFacts DEF IInv, TypeOK, StateOK
    <3> QED
      BY ONLY <3>2, <3>3, <3>4
  <2>5. Abs!IsPattern(tokens)
    BY <2>1, <2>4, AllMatched
  <2> QED
    BY <1>1, <2>1, <2>3, <2>5 DEF AnswerOK
<1>2. CASE error # NoError
  BY <1>2 DEF IInv, PhaseOK, TypeOK, StateOK, SyntaxIInv, AnswerOK
<1> QED
  BY <1>1, <1>2

\* Nothing is answered before the end, and what is answered then is promised.
LEMMA AnswerStep ==
    ASSUME IInv, [ParserNext]_vars, (pc = "done" => AnswerOK)'
    PROVE  [Abs!Answer]_(Abs!vars)
<1>1. CASE pc = "done" \/ UNCHANGED vars
  <2>1. UNCHANGED vars
    BY <1>1 DEF ParserNext, CreateRoot, ScanFirst, PushRoot, MatchTerminal,
       RefuseTerminal, RefuseNonterminal, Expand, Finish, FinishFailed,
       AtTerminal, AtNonterminal
  <2> QED
    BY <2>1 DEF vars, memory, fault, Abs!vars
<1>2. CASE pc # "done" /\ ParserNext
  <2>1. tokens' = tokens
    BY <1>2 DEF ParserNext, CreateRoot, ScanFirst, PushRoot, MatchTerminal,
       RefuseTerminal, RefuseNonterminal, Expand, Finish, FinishFailed
  <2>2. CASE pc' # "done"
    BY <2>1, <2>2, <1>2 DEF Abs!vars
  <2>3. CASE pc' = "done"
    <3>1. AnswerOK'
      BY <2>3
    <3>2. CASE error' = NoError
      BY <2>1, <2>3, <3>1, <3>2, <1>2
         DEF AnswerOK, Abs!Answer, Abs!Accept, Abs!Pending, Abs!NoError,
             NoError
    <3>3. CASE error' \in ParserMemoryErrors
      BY <2>1, <2>3, <3>1, <3>3, <1>2
         DEF AnswerOK, Abs!Answer, Abs!RunOutOfMemory, Abs!Pending,
             Abs!NoError, NoError, ParserMemoryErrors
    <3>4. CASE error' # NoError /\ error' \notin ParserMemoryErrors
      BY <2>1, <2>3, <3>1, <3>4, <1>2
         DEF AnswerOK, FaultOK, Abs!Answer, Abs!Refuse, Abs!Pending,
             Abs!NoError, NoError
    <3> QED
      BY <3>2, <3>3, <3>4
  <2> QED
    BY <2>2, <2>3
<1> QED
  BY <1>1, <1>2

(* parser_parse_tree gives a tree exactly when the tokens are a pattern,    *)
(* and otherwise names the first token that is wrong and what is wrong     *)
(* with it, unless it runs out of memory: it does what the reference,       *)
(* which has neither grammar nor table, says.                              *)
THEOREM ParserRefinement == Spec => ImplementsParserSpec
<1>1. Init => Abs!Init
  BY DEF Init, Abs!Init, Abs!Pending, Abs!NoError, NoError
<1>2. IInv /\ SyntaxIInv => (pc = "done" => AnswerOK)
  BY AnswerIsRight
<1>3. IInv /\ [ParserNext]_vars /\ (pc = "done" => AnswerOK)'
        => [Abs!Answer]_(Abs!vars)
  BY AnswerStep
<1> QED
  BY <1>1, <1>2, <1>3, SyntaxInvariant, PTL
     DEF Spec, ImplementsParserSpec, Abs!Spec
=============================================================================
