-------------------------------- MODULE Lexer --------------------------------
(***************************************************************************)
(* src/lexer.c: the tokens of a pattern, which are others inside of a      *)
(* character class.  A pattern is a sequence of unsigned char values, and  *)
(* positions in it count from 0, as in the code.                           *)
(***************************************************************************)
EXTENDS Characters, Integers, Sequences

HYPHEN == 45
LBRACKET == 91
BACKSLASH == 92
RBRACKET == 93
CARET == 94

TokenType == {"LITERAL", "DASH", "END", "ERROR",
              "DOLLAR", "LPAREN", "RPAREN", "STAR", "PLUS", "DOT",
              "QUESTION", "LBRACKET", "RBRACKET", "CARET", "LBRACE", "PIPE",
              "RBRACE", "DIGIT_CLASS", "SPACE_CLASS", "WORD_CLASS"}

\* The token that a character is outside of a class, and inside.
OutsideType(character) ==
    CASE character = 36 -> "DOLLAR"      [] character = 40 -> "LPAREN"
      [] character = 41 -> "RPAREN"      [] character = 42 -> "STAR"
      [] character = 43 -> "PLUS"        [] character = 46 -> "DOT"
      [] character = 63 -> "QUESTION"    [] character = 124 -> "PIPE"
      [] character = 123 -> "LBRACE"     [] character = 125 -> "RBRACE"
      [] character = LBRACKET -> "LBRACKET"
      [] character = RBRACKET -> "RBRACKET"
      [] character = CARET -> "CARET"
      [] OTHER -> "LITERAL"

InsideType(character) == CASE character = HYPHEN -> "DASH"
                           [] character = RBRACKET -> "RBRACKET"
                           [] character = CARET -> "CARET"
                           [] OTHER -> "LITERAL"

\* The escapes that are more than the character itself: \d \s \w, \n \r \t.
EscapeType(escaped) == CASE escaped = 100 -> "DIGIT_CLASS"
                         [] escaped = 115 -> "SPACE_CLASS"
                         [] escaped = 119 -> "WORD_CLASS"
                         [] OTHER -> "LITERAL"

Unescaped(escaped) == CASE escaped = 110 -> 10
                        [] escaped = 114 -> 13
                        [] escaped = 116 -> 9
                        [] OTHER -> escaped

make_token(type, character, position) ==
    [type |-> type, character |-> character, position |-> position]

lexer_init == [position |-> 0, in_character_class |-> FALSE]

\* lexer_scan_escape, behind the backslash at `at`.
EscapedToken(escaped, at) ==
    make_token(EscapeType(escaped), Unescaped(escaped), at)

\* Mutant: is inside of a class till the end of the pattern.
ModeStuck(mode, character) == mode \/ character = LBRACKET

\* in_character_class behind an unescaped character.
ModeAfter(mode, character) == IF mode THEN character # RBRACKET
                              ELSE character = LBRACKET

\* lexer_next: the token, and the lexer behind it.
lexer_next(pattern, lexer) ==
    LET at == lexer.position
        mode == lexer.in_character_class
        current == pattern[at + 1]
        type == IF mode THEN InsideType(current) ELSE OutsideType(current)
        Step(token, width, next) ==
            [token |-> token,
             lexer |-> [position           |-> at + width,
                        in_character_class |-> next]]
    IN CASE at >= Len(pattern) -> Step(make_token("END", 0, at), 0, mode)
         [] at < Len(pattern) /\ current # BACKSLASH ->
                Step(make_token(type, current, at), 1,
                     ModeAfter(mode, current))
         [] at + 1 < Len(pattern) /\ current = BACKSLASH ->
                Step(EscapedToken(pattern[at + 2], at), 2, mode)
         [] OTHER -> Step(make_token("ERROR", 0, at), 1, mode)

\* lexer_peek scans with a copy of the lexer.
lexer_peek(pattern, lexer) == lexer_next(pattern, lexer).token
=============================================================================
