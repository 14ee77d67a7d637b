------------------------------- MODULE Scanner -------------------------------
(***************************************************************************)
(* parser_scan_token and parser_scan_character_class of src/parser.c: the  *)
(* terminals of the grammar from the tokens of the lexer.  The parser      *)
(* calls until it has the end of the pattern or an error; it may also stop *)
(* before.                                                                 *)
(*                                                                         *)
(* One turn of the loop over a class is one step.  A CharSet is the set of *)
(* its characters: that is what CharSet.tla shows of it.                   *)
(***************************************************************************)
EXTENDS Lexer, FiniteSets

CONSTANT Patterns            \* the patterns to scan

ASSUME ScannerAssumption ==
    /\ Chars \subseteq 1 .. 255        \* a 0 ends the pattern
    /\ \A p \in Patterns : p \in Seq(Chars)
    /\ {110, 114, 116} \cap Chars # {} => {9, 10, 13} \subseteq Chars

VARIABLES
    pattern,                 \* the argument of parser_parse
    lexer,
    pc,                      \* where the scanner is
    opening,                 \* the position of the class being scanned
    current,                 \* its last token
    set, negated,            \* its members so far
    result,                  \* the terminals scanned
    error, position          \* parser.error

class == <<opening, current, set, negated>>
fault == <<error, position>>
vars  == <<pattern, lexer, pc, class, result, fault>>

NoError == "none"
NoToken == make_token("END", 0, 0)

Syntax == INSTANCE PatternSyntax

\* A terminal, what it matches, and the part of the pattern it is; where it
\* ends is not kept by the code.
ParserToken == [terminal : Syntax!Kinds \ {"ERROR"}, chars : SUBSET Chars,
                from : Nat, to : Nat]

Init == /\ pattern \in Patterns
        /\ lexer = lexer_init
        /\ pc = "next"
        /\ opening = 0 /\ current = NoToken
        /\ set = {} /\ negated = FALSE
        /\ result = <<>>
        /\ error = NoError /\ position = 0

Next1 == lexer_next(pattern, lexer)
Next2 == lexer_next(pattern, Next1.lexer)
Next3 == lexer_next(pattern, Next2.lexer)

\* The next token is `current`, and the lexer is behind it.
Take(next) == current' = next.token /\ lexer' = next.lexer

Fail(where, why) == /\ pc' = "failed"
                    /\ error' = why
                    /\ position' = where
                    /\ UNCHANGED <<pattern, result, opening, set, negated>>

Emit(terminal, chars, from) ==
    /\ result' = Append(result, [terminal |-> terminal, chars |-> chars,
                                 from |-> from, to |-> lexer'.position])
    /\ UNCHANGED <<pattern, opening, set, negated, fault>>
-----------------------------------------------------------------------------
(* Ordinary tokens.                                                        *)

Range(first, last) == (first .. last) \cap Chars

\* charset_digit, charset_word, charset_space
Shorthand(type) ==
    CASE type = "DIGIT_CLASS" -> Range(48, 57)
      [] type = "WORD_CLASS" -> UNION {Range(97, 122), Range(65, 90),
                                       Range(48, 57), Range(95, 95)}
      [] type = "SPACE_CLASS" -> {32, 9, 10, 13, 12, 11} \cap Chars

Shorthands == {"DIGIT_CLASS", "WORD_CLASS", "SPACE_CLASS"}

Refused == {"RBRACKET", "LBRACE", "RBRACE", "ERROR"}

ScanToken ==
    /\ pc = "next"
    /\ Next1.token.type \notin Refused \cup {"LBRACKET"}
    /\ Take(Next1)
    /\ LET token == Next1.token
       IN  /\ pc' = IF token.type = "END" THEN "end" ELSE "next"
           /\ Emit(IF token.type \in Shorthands THEN "CLASS" ELSE token.type,
                   CASE token.type = "LITERAL" -> {token.character}
                     [] token.type \in Shorthands -> Shorthand(token.type)
                     [] OTHER -> {},
                   token.position)

\* A DASH is a token inside of a class only: "unexpected range operator" is
\* not reached.
RefuseToken ==
    /\ pc = "next"
    /\ Next1.token.type \in Refused
    /\ Take(Next1)
    /\ Fail(Next1.token.position,
            CASE Next1.token.type = "RBRACKET" -> "unexpected closing bracket"
              [] Next1.token.type = "ERROR" ->
                    "pattern ends with an incomplete escape"
              [] OTHER -> "unexpected token")
-----------------------------------------------------------------------------
(* A class.                                                                *)

OpenClass == /\ pc = "next"
             /\ Next1.token.type = "LBRACKET"
             /\ Take(Next1)
             /\ pc' = "open"
             /\ opening' = Next1.token.position
             /\ set' = {} /\ negated' = FALSE
             /\ UNCHANGED <<pattern, result, fault>>

\* The token the class begins with, behind a ^ if there is one.
First == IF Next1.token.type = "CARET" THEN Next2 ELSE Next1

BeginItems == /\ pc = "open"
              /\ First.token.type # "RBRACKET"
              /\ Next1.token.type # "ERROR"
              /\ Take(First)
              /\ negated' = (Next1.token.type = "CARET")
              /\ pc' = "item"
              /\ UNCHANGED <<pattern, result, opening, set, fault>>

RefuseClass ==
    /\ pc = "open"
    /\ \/ /\ Next1.token.type = "ERROR"
          /\ Take(Next1)
          /\ Fail(Next1.token.position,
                  "pattern ends with an incomplete escape")
       \/ /\ First.token.type = "RBRACKET"
          /\ Take(First)
          /\ Fail(opening, "character class cannot be empty")

\* parser_raw_token_to_character; its character is in the token already.
IsRaw(token) == token.type \in {"LITERAL", "CARET", "DASH"}

Add(members) == /\ set' = set \cup members
                /\ UNCHANGED <<pattern, pc, result, opening, negated, fault>>

\* Mutant: stays at the shorthand.
AddShorthandAgain == /\ pc = "item"
                     /\ current.type \in Shorthands
                     /\ Add(Shorthand(current.type))
                     /\ UNCHANGED <<current, lexer>>

AddShorthand == /\ pc = "item"
                /\ current.type \in Shorthands
                /\ Add(Shorthand(current.type))
                /\ Take(Next1)

AddCharacter == /\ pc = "item"
                /\ IsRaw(current)
                /\ Next1.token.type # "DASH"
                /\ Add({current.character})
                /\ Take(Next1)

\* A hyphen before the closing bracket is itself.
AddHyphen == /\ pc = "item"
             /\ IsRaw(current)
             /\ Next1.token.type = "DASH"
             /\ lexer_peek(pattern, Next1.lexer).type = "RBRACKET"
             /\ Add({current.character, HYPHEN} \cap Chars)
             /\ Take(Next2)

AddRange == /\ pc = "item"
            /\ IsRaw(current)
            /\ Next1.token.type = "DASH"
            /\ IsRaw(Next2.token)
            /\ current.character <= Next2.token.character
            /\ Add(Range(current.character, Next2.token.character))
            /\ Take(Next3)

RefuseRange ==
    /\ pc = "item"
    /\ IsRaw(current)
    /\ Next1.token.type = "DASH"
    /\ Next2.token.type # "RBRACKET"
    /\ Take(Next2)
    /\ \/ /\ ~IsRaw(Next2.token)
          /\ Fail(Next2.token.position,
                  "range endpoint must be a literal character")
       \/ /\ IsRaw(Next2.token)
          /\ current.character > Next2.token.character
          /\ Fail(current.position, "character range is reversed")

\* Mutant: says where the pattern ends, not where the class begins.
RefuseItemAtEnd ==
    /\ pc = "item"
    /\ current.type \in {"ERROR", "END"}
    /\ Fail(current.position,
            IF current.type = "END" THEN "missing closing bracket"
            ELSE "pattern ends with an incomplete escape")
    /\ UNCHANGED <<lexer, current>>

RefuseItem ==
    /\ pc = "item"
    /\ \/ /\ current.type = "ERROR"
          /\ Fail(current.position, "pattern ends with an incomplete escape")
       \/ /\ current.type = "END"
          /\ Fail(opening, "missing closing bracket")
    /\ UNCHANGED <<lexer, current>>

\* Mutant: forgets the ^.
CloseClassPlain == /\ pc = "item"
                   /\ current.type = "RBRACKET"
                   /\ pc' = "next"
                   /\ UNCHANGED <<lexer, current>>
                   /\ Emit("CLASS", set, opening)

CloseClass == /\ pc = "item"
              /\ current.type = "RBRACKET"
              /\ pc' = "next"
              /\ UNCHANGED <<lexer, current>>
              /\ Emit("CLASS", IF negated THEN Chars \ set ELSE set, opening)

Next == \/ ScanToken \/ RefuseToken
        \/ OpenClass \/ BeginItems \/ RefuseClass
        \/ AddShorthand \/ AddCharacter \/ AddHyphen \/ AddRange
        \/ RefuseRange \/ RefuseItem \/ CloseClass

Spec == Init /\ [][Next]_vars /\ WF_vars(Next)
-----------------------------------------------------------------------------
(* Properties.                                                             *)

Text == INSTANCE PatternText

\* What parser_advance has given to the parser.
Given == LET Plain(token) == [terminal |-> token.terminal,
                              chars    |-> token.chars]
         IN [i \in DOMAIN result |-> Plain(result[i])]
            \o IF pc = "failed"
               THEN <<[terminal |-> "ERROR", chars |-> {}]>> ELSE <<>>

\* The variables have their types.
TypeOK == /\ pattern \in Patterns
          /\ lexer.position \in 0 .. Len(pattern)
          /\ lexer.in_character_class \in BOOLEAN
          /\ pc \in {"next", "open", "item", "end", "failed"}
          /\ current.type \in TokenType
          /\ set \subseteq Chars
          /\ negated \in BOOLEAN
          /\ result \in Seq(ParserToken)

\* The lexer is in the mode of the scanner: it leaves a class with the token
\* that ends it, although the scanner looks one token ahead (lexer.c:126,
\* parser.c:197), so that neither an operator is read for a character nor a
\* character of a class for an operator.
ModesAgree ==
    /\ pc \in {"next", "end"} => ~lexer.in_character_class
    /\ pc \in {"open", "item"} =>
          (lexer.in_character_class <=> current.type # "RBRACKET")

\* The tokens are those of the pattern, one after the other, nothing left
\* out and nothing read twice, and each matches what its part of the pattern
\* says; nothing was wrong with any of them.  At the end they are what
\* Parser.tla takes for the tokens of a pattern, with one END or error.
TokensAreRight ==
    /\ TypeOK
    /\ pc \in {"end", "failed"} => Syntax!IsTokenSequence(Given)
    /\ result # <<>> => result[1].from = 0
    /\ \A i \in DOMAIN result :
          /\ result[i] = Text!TokenAt(pattern, result[i].from)
          /\ Text!Complaint(pattern, result[i].from) = Text!Complete
          /\ i + 1 \in DOMAIN result => result[i + 1].from = result[i].to
    /\ pc \in {"next", "open"} /\ result # <<>> =>
          result[Len(result)].to = IF pc = "next" THEN lexer.position
                                   ELSE opening

\* A refusal names what is wrong with the token the scanner was at, and the
\* position of that (parser.c:115-232, 292, 371): the first wrong thing of the
\* class, and what the user reads about an END or an incomplete escape in the
\* place of the end of a range.
ErrorIsRight ==
    pc = "failed" =>
        <<position, error>> =
            Text!Complaint(pattern, IF result = <<>> THEN 0
                                    ELSE result[Len(result)].to)

\* The loop over a class comes to its end (parser.c:136).
Terminates == <>(pc \in {"end", "failed"})

\* tests/test_repetition.c:205: the counts of a repetition are scanned, as a
\* pattern with them is parsed.
CountsAreScanned == pc # "failed"
=============================================================================
