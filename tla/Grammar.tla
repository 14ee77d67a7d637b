------------------------------- MODULE Grammar -------------------------------
(***************************************************************************)
(* The grammar of patterns and its LL(1) table: src/grammar.c and          *)
(* include/cregex/grammar.h.                                               *)
(***************************************************************************)

\* terminal_starts_atom
AtomStarts == {"LITERAL", "DOT", "CLASS", "CARET", "DOLLAR", "LPAREN"}

Quantifiers == {"STAR", "PLUS", "QUESTION"}

Terminals == AtomStarts \cup Quantifiers \cup {"RPAREN", "PIPE", "END"}

Nonterminals == {"Regex", "Alternation", "AlternationTail", "Concatenation",
                 "ConcatenationTail", "Repetition", "Quantifier", "Atom"}

EPSILON == "epsilon"

Productions == [
    REGEX_ALTERNATION_END         |-> <<"Alternation", "END">>,
    REGEX_END                     |-> <<"END">>,
    ALTERNATION                   |-> <<"Concatenation", "AlternationTail">>,
    ALTERNATION_TAIL_PIPE         |-> <<"PIPE", "Concatenation",
                                        "AlternationTail">>,
    ALTERNATION_TAIL_EMPTY        |-> <<EPSILON>>,
    CONCATENATION                 |-> <<"Repetition", "ConcatenationTail">>,
    CONCATENATION_TAIL_REPETITION |-> <<"Repetition", "ConcatenationTail">>,
    CONCATENATION_TAIL_EMPTY      |-> <<EPSILON>>,
    REPETITION                    |-> <<"Atom", "Quantifier">>,
    QUANTIFIER_STAR               |-> <<"STAR">>,
    QUANTIFIER_PLUS               |-> <<"PLUS">>,
    QUANTIFIER_QUESTION           |-> <<"QUESTION">>,
    QUANTIFIER_EMPTY              |-> <<EPSILON>>,
    ATOM_LITERAL                  |-> <<"LITERAL">>,
    ATOM_DOT                      |-> <<"DOT">>,
    ATOM_CLASS                    |-> <<"CLASS">>,
    ATOM_CARET                    |-> <<"CARET">>,
    ATOM_DOLLAR                   |-> <<"DOLLAR">>,
    ATOM_GROUP                    |-> <<"LPAREN", "Alternation", "RPAREN">>]

\* PARSE_PRODUCTION_NONE
NONE == "none"

\* Mutant: the list of alternatives is left recursive.
SymbolsLeftRecursive(production) ==
    IF production = "ALTERNATION" THEN <<"Alternation", "AlternationTail">>
    ELSE Productions[production]

grammar_production_symbols(production) == Productions[production]

grammar_table_lookup(nonterminal, lookahead) ==
    LET row == <<nonterminal, lookahead>>
        starts_atom == lookahead \in AtomStarts
        ends_alternative == lookahead \in {"PIPE", "RPAREN", "END"}
    IN CASE row = <<"Regex", "END">> -> "REGEX_END"
         [] nonterminal = "Regex" /\ starts_atom -> "REGEX_ALTERNATION_END"
         [] nonterminal = "Alternation" /\ starts_atom -> "ALTERNATION"
         [] row = <<"AlternationTail", "PIPE">> -> "ALTERNATION_TAIL_PIPE"
         [] nonterminal = "AlternationTail" /\ lookahead \in {"RPAREN", "END"}
                -> "ALTERNATION_TAIL_EMPTY"
         [] nonterminal = "Concatenation" /\ starts_atom -> "CONCATENATION"
         [] nonterminal = "ConcatenationTail" /\ starts_atom
                -> "CONCATENATION_TAIL_REPETITION"
         [] nonterminal = "ConcatenationTail" /\ ends_alternative
                -> "CONCATENATION_TAIL_EMPTY"
         [] nonterminal = "Repetition" /\ starts_atom -> "REPETITION"
         [] row = <<"Quantifier", "STAR">> -> "QUANTIFIER_STAR"
         [] row = <<"Quantifier", "PLUS">> -> "QUANTIFIER_PLUS"
         [] row = <<"Quantifier", "QUESTION">> -> "QUANTIFIER_QUESTION"
         [] nonterminal = "Quantifier" /\ (starts_atom \/ ends_alternative)
                -> "QUANTIFIER_EMPTY"
         [] row = <<"Atom", "LITERAL">> -> "ATOM_LITERAL"
         [] row = <<"Atom", "DOT">> -> "ATOM_DOT"
         [] row = <<"Atom", "CLASS">> -> "ATOM_CLASS"
         [] row = <<"Atom", "CARET">> -> "ATOM_CARET"
         [] row = <<"Atom", "DOLLAR">> -> "ATOM_DOLLAR"
         [] row = <<"Atom", "LPAREN">> -> "ATOM_GROUP"
         [] OTHER -> NONE
=============================================================================
