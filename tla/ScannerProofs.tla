---------------------------- MODULE ScannerProofs ----------------------------
(***************************************************************************)
(* For patterns of any length over any characters: the lexer is in the     *)
(* mode of the scanner; the terminals are those of the pattern, with what  *)
(* their parts of the pattern match; and a refusal names what is wrong     *)
(* first.  For arrays of any size: the bytes of charset.c, to which the    *)
(* scanner adds, behave as sets of characters.                             *)
(*                                                                         *)
(* What PatternText says of a class counts its elements from the front, by *)
(* recursion; the scanner adds to a set and has the rest still to read.    *)
(* The invariant joins them: what was read and what the elements still     *)
(* there add are together what all of the elements say.                    *)
(***************************************************************************)
EXTENDS Scanner, CharSet, WellFoundedInduction, TLAPS

\* A lexer at k.
LexerAt(k, mode) == [position |-> k, in_character_class |-> mode]

\* What it gives there.
Seen(p, k, mode) == lexer_next(p, LexerAt(k, mode))

\* The position k is the end of p, or not behind an odd number of backslashes.
Fresh(p, k) == k \in 0 .. Len(p) /\ (k # Len(p) => ~Text!IsEscaped(p, k))

\* Where the last token ends, and the next one begins.
Covered == IF result = <<>> THEN 0 ELSE result[Len(result)].to

\* The class opened at o has been read up to its element at q.
ClassOK(p, o, q, not, members) ==
    /\ q \in Text!Body(p, o) .. Text!Closing(p, o)
    /\ Fresh(p, q)
    /\ Text!IsClosed(p, o) => Text!Closing(p, o) # Text!Body(p, o)
    /\ not = Text!IsNegated(p, o)
    /\ Text!IsClosed(p, o) =>
           members \cup Text!MembersFrom(p, o)[q] =
               Text!MembersFrom(p, o)[Text!Body(p, o)]
    /\ Text!ComplaintFrom(p, o)[q] =
           Text!ComplaintFrom(p, o)[Text!Body(p, o)]

\* Where the scanner and the lexer are.  Between two terminals both are where
\* the last one ends.  Inside of a class the scanner is at an element, and the
\* lexer behind it: the last token is what the lexer gives there.
ModeOK ==
    /\ pc \in {"next", "end"} =>
           /\ Fresh(pattern, Covered)
           /\ lexer = LexerAt(Covered, FALSE)
    /\ pc \in {"open", "item"} =>
           /\ opening = Covered
           /\ Fresh(pattern, opening) /\ Text!IsPlain(pattern, opening, 91)
    /\ pc = "open" => /\ set = {} /\ lexer = LexerAt(opening + 1, TRUE)
                      /\ current.type = "LBRACKET"
    /\ pc = "item" =>
           /\ ClassOK(pattern, opening, current.position, negated, set)
           /\ [token |-> current, lexer |-> lexer] =
                  Seen(pattern, current.position, TRUE)
    /\ pc = "failed" =>
           <<position, error>> = Text!Complaint(pattern, Covered)

\* The terminals, and that the end is the last of them and no other.
ResultOK ==
    /\ result \in Seq(ParserToken)
    /\ \A i \in DOMAIN result :
          /\ result[i] = Text!TokenAt(pattern, result[i].from)
          /\ Text!Complaint(pattern, result[i].from) = Text!Complete
          /\ result[i].from = IF i = 1 THEN 0 ELSE result[i - 1].to
          /\ result[i].terminal = "END" <=> (pc = "end" /\ i = Len(result))
    /\ pc = "end" => result # <<>>

IInv == TypeOK /\ ModeOK /\ ResultOK
-----------------------------------------------------------------------------
(* Least numbers, and recursion.                                          *)

\* A set of numbers that is not empty has a least one.
LEMMA LeastNatural ==
    ASSUME NEW S \in SUBSET Nat, S # {}
    PROVE  \E n \in S : \A m \in S : n <= m
<1> DEFINE Less == {pair \in Nat \X Nat : pair[1] < pair[2]}
<1>1. IsWellFoundedOn(Less, Nat)
  BY NatLessThanWellFounded DEF OpToRel
<1>2. PICK n \in S : \A m \in S : ~ (<<m, n>> \in Less)
  <2> HIDE DEF Less
  <2> QED
    BY <1>1, WFMin
<1>3. ASSUME NEW m \in S PROVE n <= m
  <2>1. <<m, n>> \in Nat \X Nat /\ <<m, n>>[1] = m /\ <<m, n>>[2] = n
    OBVIOUS
  <2> QED
    BY <1>2, <2>1
<1> QED
  BY <1>3

\* Counting up: what holds of 0 and is passed on holds of all up to N.
LEMMA Upwards ==
    ASSUME NEW N \in Nat, NEW G, 0 \in G,
           \A n \in 1 .. N : n - 1 \in G => n \in G
    PROVE  0 .. N \subseteq G
<1> DEFINE Bad == {n \in 0 .. N : n \notin G}
<1>1. SUFFICES ASSUME Bad # {} PROVE FALSE
  OBVIOUS
<1>2. PICK n \in Bad : \A m \in Bad : n <= m
  <2>1. Bad \in SUBSET Nat
    OBVIOUS
  <2> HIDE DEF Bad
  <2> QED
    BY <1>1, <2>1, LeastNatural
<1>3. n \in 1 .. N /\ n - 1 \in 0 .. N /\ n \notin G
  BY <1>2
<1>4. n - 1 \in G
  BY <1>2, <1>3
<1> QED
  BY <1>3, <1>4

\* A function whose values follow from the ones behind.
StepsDown(step, N, V) ==
    /\ V # {}
    /\ step \in [1 .. N -> [[1 .. N -> V] -> V]]
    /\ \A n \in 1 .. N : \A g \in [1 .. N -> V], h \in [1 .. N -> V] :
          (\A m \in n + 1 .. N : g[m] = h[m]) => step[n][g] = step[n][h]

\* A recursive function over 1 .. N whose value follows from the ones behind
\* exists.
LEMMA DownwardFunction ==
    ASSUME NEW N \in Nat, NEW V, NEW step, StepsDown(step, N, V)
    PROVE  \E f \in [1 .. N -> V] : \A n \in 1 .. N : f[n] = step[n][f]
<1> USE DEF StepsDown
<1> DEFINE G == {k \in 0 .. N :
                   \E f \in [1 .. N -> V] :
                      \A n \in N - k + 1 .. N : f[n] = step[n][f]}
<1>1. 0 \in G
  <2>1. PICK v \in V : TRUE
    OBVIOUS
  <2>2. [n \in 1 .. N |-> v] \in [1 .. N -> V]
    OBVIOUS
  <2>3. N - 0 + 1 .. N = {} /\ 0 \in 0 .. N
    OBVIOUS
  <2>4. \E f \in [1 .. N -> V] :
           \A n \in N - 0 + 1 .. N : f[n] = step[n][f]
    BY <2>2, <2>3
  <2> QED
    BY <2>3, <2>4
<1>2. ASSUME NEW k \in 1 .. N, k - 1 \in G PROVE k \in G
  <2> DEFINE c == N - k + 1
  <2>1. PICK f \in [1 .. N -> V] :
              \A n \in N - (k - 1) + 1 .. N : f[n] = step[n][f]
    BY <1>2
  <2>2. /\ c \in 1 .. N /\ \A n \in c .. N : n = c \/ n \in c + 1 .. N
        /\ N - (k - 1) + 1 = c + 1
    OBVIOUS
  <2> HIDE DEF c
  <2> DEFINE g == [f EXCEPT ![c] = step[c][f]]
  <2>3. step[c][f] \in V
    BY <2>2
  <2>4. g \in [1 .. N -> V] /\ g[c] = step[c][f]
        /\ \A n \in 1 .. N : n # c => g[n] = f[n]
    BY <2>2, <2>3
  <2> HIDE DEF g
  <2>5. ASSUME NEW n \in c .. N PROVE g[n] = step[n][g]
    <3>1. n \in 1 .. N /\ \A m \in n + 1 .. N : g[m] = f[m]
      BY <2>2, <2>4
    <3>2. step[n][g] = step[n][f]
      BY <3>1, <2>4
    <3>3. CASE n = c
      BY <3>2, <3>3, <2>4
    <3>4. CASE n # c
      BY <3>1, <3>2, <3>4, <2>1, <2>2, <2>4
    <3> QED
      BY <3>3, <3>4
  <2> QED
    BY <2>4, <2>5, SMTT(30) DEF c
<1>3. N \in G
  <2> HIDE DEF G
  <2>1. 0 .. N \subseteq G
    BY <1>1, <1>2, Upwards
  <2> QED
    BY <2>1
<1> QED
  BY <1>3
-----------------------------------------------------------------------------
(* Escapes.                                                                *)

\* The characters of a pattern.
LEMMA PatternFacts ==
    ASSUME NEW p \in Patterns
    PROVE  /\ p \in Seq(Chars) /\ Len(p) \in Nat
           /\ \A k \in 0 .. Len(p) - 1 : /\ Text!At(p, k) = p[k + 1]
                                         /\ Text!At(p, k) \in Chars
                                         /\ Text!At(p, k) \in 1 .. 255
<1>1. p \in Seq(Chars) /\ Chars \subseteq 1 .. 255
  BY ScannerAssumption
<1>2. Len(p) \in Nat /\ DOMAIN p = 1 .. Len(p)
  BY <1>1
<1>3. ASSUME NEW k \in 0 .. Len(p) - 1
      PROVE  p[k + 1] \in Chars
  BY <1>1, <1>2
<1> QED
  BY <1>1, <1>2, <1>3 DEF Text!At

\* Whether a position is escaped, from the one before.
LEMMA EscapedStep ==
    ASSUME NEW p, NEW k \in Nat
    PROVE  /\ ~Text!IsEscaped(p, 0)
           /\ Text!IsEscaped(p, k + 1) <=>
                Text!At(p, k) = 92 /\ ~Text!IsEscaped(p, k)
<1> DEFINE Slash(i) == Text!At(p, i) = 92
           Run(n, j) == /\ \A i \in j - n .. j - 1 : Slash(i)
                        /\ n = j \/ ~Slash(j - n - 1)
<1>1. \A j : Text!IsEscaped(p, j) <=> \E n \in 1 .. j : n % 2 = 1 /\ Run(n, j)
  BY DEF Text!IsEscaped
<1>2. PICK r \in 0 .. k : Run(r, k)
  <2> DEFINE Ends == {n \in 0 .. k : n = k \/ ~Slash(k - n - 1)}
  <2>1. Ends \in SUBSET Nat /\ k \in Ends
    OBVIOUS
  <2>2. PICK r \in Ends : \A m \in Ends : r <= m
    <3> HIDE DEF Ends
    <3> QED
      BY <2>1, LeastNatural
  <2>3. ASSUME NEW i \in k - r .. k - 1 PROVE Slash(i)
    <3>1. r \in 0 .. k
      BY <2>2
    <3>2. /\ k - 1 - i \in 0 .. k /\ k - 1 - i < r /\ k - 1 - i # k
          /\ k - (k - 1 - i) - 1 = i
      BY <3>1
    <3>3. k - 1 - i \notin Ends
      <4> HIDE DEF Ends
      <4> QED
        BY <2>2, <3>1, <3>2
    <3> QED
      BY <3>2, <3>3
  <2> QED
    BY <2>2, <2>3
<1>3. \A n \in 0 .. k : Run(n, k) => n = r
  <2> SUFFICES ASSUME NEW n \in 0 .. k, Run(n, k) PROVE n = r
    OBVIOUS
  <2>1. CASE n < r
    <3>1. k - n - 1 \in k - r .. k - 1 /\ n # k
      BY <2>1
    <3> QED
      BY <3>1, <1>2
  <2>2. CASE r < n
    <3>1. k - r - 1 \in k - n .. k - 1 /\ r # k
      BY <2>2
    <3> QED
      BY <3>1, <1>2
  <2> QED
    BY <2>1, <2>2
<1>4. Text!IsEscaped(p, k) <=> r % 2 = 1
  <2>1. r % 2 = 1 => r \in 1 .. k
    OBVIOUS
  <2>2. \A n \in 1 .. k : n \in 0 .. k
    OBVIOUS
  <2> HIDE DEF Run
  <2> QED
    BY <1>1, <1>2, <1>3, <2>1, <2>2
<1>5. \A n \in 1 .. k + 1 : Run(n, k + 1) <=> Slash(k) /\ Run(n - 1, k)
  <2> TAKE n \in 1 .. k + 1
  <2>1. /\ k + 1 - n = k - (n - 1) /\ k + 1 - n - 1 = k - (n - 1) - 1
        /\ k + 1 - 1 = k /\ (n = k + 1 <=> n - 1 = k)
        /\ k - (n - 1) .. k = (k - (n - 1) .. k - 1) \cup {k}
    OBVIOUS
  <2> HIDE DEF Slash
  <2> QED
    BY <2>1
<1>6. Text!IsEscaped(p, k + 1) <=> Slash(k) /\ (r + 1) % 2 = 1
  <2>1. r + 1 \in 1 .. k + 1 /\ r + 1 - 1 = r
    OBVIOUS
  <2>2. \A n \in 1 .. k + 1 : n - 1 \in 0 .. k /\ (n - 1 = r <=> n = r + 1)
    OBVIOUS
  <2> HIDE DEF Run, Slash
  <2> QED
    BY <1>1, <1>2, <1>3, <1>5, <2>1, <2>2
<1>7. (r + 1) % 2 = 1 <=> ~(r % 2 = 1)
  OBVIOUS
<1>8. ~Text!IsEscaped(p, 0)
  BY DEF Text!IsEscaped
<1> QED
  BY <1>4, <1>6, <1>7, <1>8

\* An element of a pattern, and where it ends.
LEMMA ElementFacts ==
    ASSUME NEW p \in Patterns, NEW k, Fresh(p, k), k # Len(p)
    PROVE  /\ k \in Nat /\ k < Len(p) /\ Text!At(p, k) = p[k + 1]
           /\ Text!At(p, k) \in Chars /\ Text!At(p, k) \in 1 .. 255
           /\ \A c : Text!IsPlain(p, k, c) <=> Text!At(p, k) = c
           /\ Text!After(p, k) \in Nat /\ k < Text!After(p, k)
           /\ Text!After(p, k) <= Len(p)
           /\ Fresh(p, Text!After(p, k))
           /\ Text!IsEscape(p, k) => Text!At(p, k) = 92
           /\ Text!At(p, k) # 92 => Text!After(p, k) = k + 1
           /\ Text!At(p, k) = 92 =>
                 IF k + 1 = Len(p)
                 THEN Text!IsIncomplete(p, k) /\ Text!After(p, k) = k + 1
                 ELSE /\ ~Text!IsIncomplete(p, k)
                      /\ Text!After(p, k) = k + 2 /\ k + 2 <= Len(p)
                      /\ Text!At(p, k + 1) = p[k + 2]
                      /\ Text!At(p, k + 1) \in Chars
                      /\ Text!At(p, k + 1) \in 1 .. 255
<1>1. PICK N \in Nat : N = Len(p)
  BY PatternFacts
<1>2. /\ k \in 0 .. N - 1 /\ ~Text!IsEscaped(p, k)
      /\ \A j \in 0 .. N - 1 : /\ Text!At(p, j) = p[j + 1]
                               /\ Text!At(p, j) \in Chars
                               /\ Text!At(p, j) \in 1 .. 255
  BY <1>1, PatternFacts DEF Fresh
<1>3. \A c : Text!IsPlain(p, k, c) <=> Text!At(p, k) = c
  BY <1>1, <1>2 DEF Text!IsPlain, Text!Positions
<1>4. /\ Text!IsEscape(p, k) <=> Text!At(p, k) = 92
      /\ Text!IsIncomplete(p, k) <=> Text!At(p, k) = 92 /\ k + 1 = N
  BY <1>1, <1>2, <1>3 DEF Text!IsEscape, Text!IsIncomplete
<1>5. Text!After(p, k) =
         IF Text!At(p, k) = 92 /\ k + 1 # N THEN k + 2 ELSE k + 1
  BY <1>4 DEF Text!After
<1>6. /\ Text!IsEscaped(p, k + 1) <=> Text!At(p, k) = 92
      /\ Text!At(p, k) = 92 => ~Text!IsEscaped(p, k + 2)
  <2>1. k \in Nat /\ k + 1 \in Nat /\ k + 1 + 1 = k + 2
    BY <1>2
  <2>2. Text!IsEscaped(p, k + 1) <=> Text!At(p, k) = 92
    BY <2>1, <1>2, EscapedStep, SMTT(30)
  <2>3. Text!IsEscaped(p, k + 1 + 1) <=>
           Text!At(p, k + 1) = 92 /\ ~Text!IsEscaped(p, k + 1)
    BY <2>1, EscapedStep
  <2> QED
    BY <2>1, <2>2, <2>3
<1>7. Fresh(p, Text!After(p, k))
  BY <1>1, <1>2, <1>5, <1>6 DEF Fresh
<1>8. k + 1 # N => k + 1 \in 0 .. N - 1 /\ k + 1 + 1 = k + 2
  BY <1>2
<1> HIDE DEF Fresh
<1> QED
  BY <1>1, <1>2, <1>3, <1>4, <1>5, <1>7, <1>8

\* What the lexer gives at an element, and where it is then.
LEMMA LexerMoves ==
    ASSUME NEW p \in Patterns, NEW k, Fresh(p, k), k # Len(p),
           NEW mode \in BOOLEAN
    PROVE  /\ Seen(p, k, mode).lexer =
                 LexerAt(Text!After(p, k),
                         IF mode THEN ~Text!IsPlain(p, k, 93)
                         ELSE Text!IsPlain(p, k, 91))
           /\ Seen(p, k, mode).token =
                 IF Text!At(p, k) # 92
                 THEN make_token(IF mode THEN InsideType(Text!At(p, k))
                                 ELSE OutsideType(Text!At(p, k)),
                                 Text!At(p, k), k)
                 ELSE IF Text!IsIncomplete(p, k)
                 THEN make_token("ERROR", 0, k)
                 ELSE EscapedToken(Text!At(p, k + 1), k)
           /\ Seen(p, k, mode) =
                 [token |-> Seen(p, k, mode).token,
                  lexer |-> Seen(p, k, mode).lexer]
<1> DEFINE c == Text!At(p, k)
           Step(token, width, next) ==
               [token |-> token,
                lexer |-> [position |-> k + width,
                           in_character_class |-> next]]
<1>1. PICK N \in Nat : N = Len(p)
  BY PatternFacts
<1>2. /\ k \in Nat /\ k < N /\ c = p[k + 1] /\ c \in 1 .. 255
      /\ c # 92 => Text!After(p, k) = k + 1
      /\ c = 92 => IF k + 1 = N
                   THEN Text!IsIncomplete(p, k) /\ Text!After(p, k) = k + 1
                   ELSE /\ ~Text!IsIncomplete(p, k)
                        /\ Text!After(p, k) = k + 2 /\ k + 2 <= N
                        /\ Text!At(p, k + 1) = p[k + 2]
  <2>1. /\ k \in Nat /\ k < Len(p) /\ c = p[k + 1] /\ c \in 1 .. 255
        /\ c # 92 => Text!After(p, k) = k + 1
        /\ c = 92 =>
              IF k + 1 = Len(p)
              THEN Text!IsIncomplete(p, k) /\ Text!After(p, k) = k + 1
              ELSE /\ ~Text!IsIncomplete(p, k)
                   /\ Text!After(p, k) = k + 2 /\ k + 2 <= Len(p)
                   /\ Text!At(p, k + 1) = p[k + 2]
    BY ElementFacts
  <2> QED
    BY ONLY <1>1, <2>1
<1>7. \A d : Text!IsPlain(p, k, d) = (c = d)
  BY ElementFacts DEF Text!IsPlain
<1>8. c = 92 => mode = IF mode THEN ~Text!IsPlain(p, k, 93)
                       ELSE Text!IsPlain(p, k, 91)
  <2>1. c = 92 => Text!IsPlain(p, k, 93) = FALSE
                  /\ Text!IsPlain(p, k, 91) = FALSE
    <3>1. \A d : Text!IsPlain(p, k, d) <=> c = d
      BY ElementFacts
    <3>2. c = 92 => ~Text!IsPlain(p, k, 93) /\ ~Text!IsPlain(p, k, 91)
      <4> HIDE DEF c
      <4>1. (Text!IsPlain(p, k, 93) <=> c = 93)
            /\ (Text!IsPlain(p, k, 91) <=> c = 91)
        BY <3>1, Zenon
      <4> QED
        BY ONLY <4>1
    <3> QED
      BY <3>2 DEF Text!IsPlain
  <2>2. CASE mode = TRUE
    BY <2>1, <2>2
  <2>3. CASE mode = FALSE
    BY <2>1, <2>3
  <2> QED
    BY <2>2, <2>3
<1> HIDE DEF c
<1>3. Seen(p, k, mode) =
        CASE k >= N -> Step(make_token("END", 0, k), 0, mode)
          [] k < N /\ c # 92 ->
                Step(make_token(IF mode THEN InsideType(c) ELSE OutsideType(c),
                                c, k), 1, ModeAfter(mode, c))
          [] k + 1 < N /\ c = 92 -> Step(EscapedToken(p[k + 2], k), 2, mode)
          [] OTHER -> Step(make_token("ERROR", 0, k), 1, mode)
  BY <1>1, <1>2 DEF Seen, lexer_next, LexerAt, BACKSLASH
<1> HIDE DEF Step
<1>4. CASE c # 92
  <2>1. Seen(p, k, mode) =
          Step(make_token(IF mode THEN InsideType(c) ELSE OutsideType(c),
                          c, k), 1, ModeAfter(mode, c))
    BY <1>2, <1>3, <1>4
  <2>2. ModeAfter(mode, c) = IF mode THEN ~Text!IsPlain(p, k, 93)
                             ELSE Text!IsPlain(p, k, 91)
    BY <1>7 DEF ModeAfter, LBRACKET, RBRACKET
  <2> QED
    BY <2>1, <2>2, <1>2, <1>4 DEF Step, LexerAt, c
<1>5. CASE c = 92 /\ k + 1 = N
  <2>1. Seen(p, k, mode) = Step(make_token("ERROR", 0, k), 1, mode)
    BY <1>2, <1>3, <1>5
  <2>2. mode = IF mode THEN ~Text!IsPlain(p, k, 93)
               ELSE Text!IsPlain(p, k, 91)
    BY <1>8, <1>5
  <2> QED
    BY <2>1, <2>2, <1>2, <1>5 DEF Step, LexerAt, c
<1>6. CASE c = 92 /\ k + 1 # N
  <2>1. Seen(p, k, mode) = Step(EscapedToken(p[k + 2], k), 2, mode)
    BY <1>2, <1>3, <1>6
  <2>2. mode = IF mode THEN ~Text!IsPlain(p, k, 93)
               ELSE Text!IsPlain(p, k, 91)
    BY <1>8, <1>6
  <2> QED
    BY <2>1, <2>2, <1>2, <1>6 DEF Step, LexerAt, c
<1> QED
  BY <1>4, <1>5, <1>6

\* At the end of the pattern there is nothing else.
LEMMA LexerEnds ==
    ASSUME NEW p \in Patterns, NEW mode \in BOOLEAN
    PROVE  /\ Seen(p, Len(p), mode) =
                [token |-> make_token("END", 0, Len(p)),
                 lexer |-> LexerAt(Len(p), mode)]
           /\ Seen(p, Len(p), mode).token = make_token("END", 0, Len(p))
           /\ Seen(p, Len(p), mode).lexer = LexerAt(Len(p), mode)
           /\ Fresh(p, Len(p))
<1>1. PICK N \in Nat : N = Len(p)
  BY PatternFacts
<1>2. N >= N /\ N + 0 = N /\ N \in 0 .. N
  OBVIOUS
<1>3. Seen(p, N, mode) = [token |-> make_token("END", 0, N),
                          lexer |-> LexerAt(N, mode)]
  BY <1>1, <1>2 DEF Seen, lexer_next, LexerAt
<1>4. /\ Seen(p, N, mode).token = make_token("END", 0, N)
      /\ Seen(p, N, mode).lexer = LexerAt(N, mode)
  BY <1>3
<1> QED
  BY <1>1, <1>2, <1>3, <1>4 DEF Fresh
-----------------------------------------------------------------------------
(* Tokens.                                                                 *)

\* What an escape stands for.
LEMMA EscapeFacts ==
    ASSUME NEW p \in Patterns, NEW k, Fresh(p, k), k # Len(p),
           Text!At(p, k) = 92, ~Text!IsIncomplete(p, k)
    PROVE  LET e == Text!At(p, k + 1)
           IN  /\ EscapeType(e) \in Shorthands \cup {"LITERAL"}
               /\ Text!IsShorthand(p, k) <=> EscapeType(e) \in Shorthands
               /\ Text!IsShorthand(p, k) =>
                     Text!Denoted(p, k) = Shorthand(EscapeType(e))
               /\ ~Text!IsShorthand(p, k) =>
                     /\ Text!Denoted(p, k) = {Unescaped(e)}
                     /\ Unescaped(e) \in Chars
<1> DEFINE e == Text!At(p, k + 1)
           D(S) == Text!Denoted(p, k) = Chars \cap S
<1>1. e \in Chars /\ e \in 1 .. 255 /\ k + 1 # Len(p)
  BY ElementFacts
<1>2. Text!IsEscape(p, k)
  <2>1. Text!IsPlain(p, k, 92)
    BY ElementFacts
  <2> QED
    BY <2>1 DEF Text!IsEscape
<1>3. Text!IsShorthand(p, k) <=> e \in {100, 115, 119}
  BY <1>2 DEF Text!IsShorthand
<1>4. Text!Denoted(p, k) =
        Chars \cap
        CASE e = 100 -> 48 .. 57
          [] e = 115 -> (9 .. 13) \cup {32}
          [] e = 119 -> (48 .. 57) \cup (65 .. 90) \cup {95} \cup (97 .. 122)
          [] e = 110 -> {10}
          [] e = 114 -> {13}
          [] e = 116 -> {9}
          [] OTHER -> {e}
  BY <1>2 DEF Text!Denoted
<1>5. /\ e = 100 => D(48 .. 57)
      /\ e = 115 => D((9 .. 13) \cup {32})
      /\ e = 119 => D((48 .. 57) \cup (65 .. 90) \cup {95} \cup (97 .. 122))
      /\ e = 110 => D({10})
      /\ e = 114 => D({13})
      /\ e = 116 => D({9})
      /\ e \notin {100, 115, 119, 110, 114, 116} => D({e})
  <2> HIDE DEF e
  <2> QED
    BY <1>1, <1>4
<1> HIDE DEF e, D
<1>6. /\ e = 100 => EscapeType(e) = "DIGIT_CLASS"
      /\ e = 115 => EscapeType(e) = "SPACE_CLASS"
      /\ e = 119 => EscapeType(e) = "WORD_CLASS"
      /\ e \notin {100, 115, 119} => EscapeType(e) = "LITERAL"
  BY <1>1 DEF EscapeType
<1>7. /\ EscapeType(e) \in Shorthands \cup {"LITERAL"}
      /\ Text!IsShorthand(p, k) <=> EscapeType(e) \in Shorthands
  BY <1>3, <1>6 DEF Shorthands
<1>8. /\ Shorthand("DIGIT_CLASS") = Chars \cap 48 .. 57
      /\ Shorthand("SPACE_CLASS") = Chars \cap ((9 .. 13) \cup {32})
      /\ Shorthand("WORD_CLASS") =
            Chars \cap ((48 .. 57) \cup (65 .. 90) \cup {95} \cup (97 .. 122))
  <2>1. Shorthand("DIGIT_CLASS") = Chars \cap 48 .. 57
    BY DEF Shorthand, Range
  <2>2. Shorthand("SPACE_CLASS") = Chars \cap ((9 .. 13) \cup {32})
    BY DEF Shorthand
  <2>3. Shorthand("WORD_CLASS") =
          UNION {Range(97, 122), Range(65, 90), Range(48, 57), Range(95, 95)}
    BY DEF Shorthand
  <2>4. Shorthand("WORD_CLASS") =
          Range(97, 122) \cup Range(65, 90) \cup Range(48, 57)
          \cup Range(95, 95)
    BY ONLY <2>3
  <2>5. Shorthand("WORD_CLASS") =
            Chars \cap ((48 .. 57) \cup (65 .. 90) \cup {95} \cup (97 .. 122))
    BY <2>4 DEF Range
  <2> QED
    BY <2>1, <2>2, <2>5
<1>9. Text!IsShorthand(p, k) =>
        Text!Denoted(p, k) = Shorthand(EscapeType(e))
  BY <1>3, <1>5, <1>6, <1>8 DEF D
<1>10. ~Text!IsShorthand(p, k) =>
         Text!Denoted(p, k) = {Unescaped(e)} /\ Unescaped(e) \in Chars
  <2>1. e \in {110, 114, 116} => {9, 10, 13} \subseteq Chars
    BY <1>1, ScannerAssumption
  <2>2. /\ e = 110 => Unescaped(e) = 10
        /\ e = 114 => Unescaped(e) = 13
        /\ e = 116 => Unescaped(e) = 9
        /\ e \notin {110, 114, 116} => Unescaped(e) = e
    BY <1>1 DEF Unescaped
  <2>3. /\ e = 110 => Text!Denoted(p, k) = {10}
        /\ e = 114 => Text!Denoted(p, k) = {13}
        /\ e = 116 => Text!Denoted(p, k) = {9}
    BY <1>5, <2>1 DEF D
  <2>4. e \notin {100, 115, 119, 110, 114, 116} =>
           Text!Denoted(p, k) = {e}
    BY <1>1, <1>5 DEF D
  <2> QED
    BY <1>1, <1>3, <2>1, <2>2, <2>3, <2>4
<1> QED
  BY <1>7, <1>9, <1>10 DEF e

\* The token of the element at k, inside of a class.
Reads(p, k, token) ==
    /\ token.position = k
    /\ token.type \in TokenType \ {"LBRACKET"}
    /\ token.type = "END" <=> k = Len(p)
    /\ token.type = "ERROR" <=> Text!IsIncomplete(p, k)
    /\ token.type = "RBRACKET" <=> Text!IsPlain(p, k, 93)
    /\ token.type = "CARET" <=> Text!IsPlain(p, k, 94)
    /\ token.type = "DASH" <=> Text!IsPlain(p, k, 45)
    /\ token.type \in Shorthands <=> Text!IsShorthand(p, k)
    /\ token.type \in Shorthands =>
          Text!Denoted(p, k) = Shorthand(token.type)
    /\ IsRaw(token) <=> Text!IsLiteral(p, k) /\ ~Text!IsPlain(p, k, 93)
    /\ IsRaw(token) => /\ token.character \in Chars
                       /\ Text!Denoted(p, k) = {token.character}
                       /\ Text!Character(p, k) = token.character

\* A set of one character.
LEMMA OneCharacter ==
    ASSUME NEW p, NEW k, NEW c, Text!Denoted(p, k) = {c}
    PROVE  Text!Character(p, k) = c
BY DEF Text!Character

\* Nothing is at the end of a pattern.
LEMMA EndFacts ==
    ASSUME NEW p \in Patterns
    PROVE  /\ \A c : ~Text!IsPlain(p, Len(p), c)
           /\ ~Text!IsEscape(p, Len(p)) /\ ~Text!IsIncomplete(p, Len(p))
           /\ ~Text!IsShorthand(p, Len(p)) /\ ~Text!IsLiteral(p, Len(p))
           /\ Text!After(p, Len(p)) = Len(p) + 1
<1>1. PICK N \in Nat : N = Len(p)
  BY PatternFacts
<1>2. \A c : ~Text!IsPlain(p, N, c)
  BY <1>1 DEF Text!IsPlain, Text!Positions
<1> QED
  BY <1>1, <1>2 DEF Text!IsEscape, Text!IsIncomplete, Text!IsShorthand,
                    Text!IsLiteral, Text!After

\* An element that is a plain character.
LEMMA PlainFacts ==
    ASSUME NEW p \in Patterns, NEW k, Fresh(p, k), k # Len(p),
           Text!At(p, k) # 92
    PROVE  /\ ~Text!IsEscape(p, k) /\ ~Text!IsIncomplete(p, k)
           /\ ~Text!IsShorthand(p, k) /\ Text!IsLiteral(p, k)
           /\ Text!Denoted(p, k) = {Text!At(p, k)}
           /\ Text!Character(p, k) = Text!At(p, k)
<1>1. ~Text!IsEscape(p, k)
  BY ElementFacts
<1>2. /\ ~Text!IsIncomplete(p, k) /\ ~Text!IsShorthand(p, k)
      /\ Text!IsLiteral(p, k)
  BY <1>1 DEF Text!IsIncomplete, Text!IsShorthand, Text!IsLiteral
<1>3. Text!At(p, k) \in Chars
  BY ElementFacts
<1>4. Text!Denoted(p, k) = {Text!At(p, k)}
  BY <1>1, <1>3 DEF Text!Denoted
<1> QED
  BY <1>1, <1>2, <1>4, OneCharacter

\* The lexer reads elements.
LEMMA InsideToken ==
    ASSUME NEW p \in Patterns, NEW k, Fresh(p, k)
    PROVE  Reads(p, k, Seen(p, k, TRUE).token)
<1> PICK t : t = Seen(p, k, TRUE).token
  OBVIOUS
<1> SUFFICES Reads(p, k, t)
  OBVIOUS
<1> DEFINE c == Text!At(p, k)
           e == Text!At(p, k + 1)
<1>1. CASE k = Len(p)
  <2>1. t = make_token("END", 0, k)
    <3>1. Seen(p, Len(p), TRUE).token = make_token("END", 0, Len(p))
      BY LexerEnds
    <3> QED
      BY <3>1, <1>1, Zenon
  <2>2. t.type = "END" /\ t.position = k
    BY ONLY <2>1 DEF make_token
  <2>3. /\ \A d : ~Text!IsPlain(p, k, d)
        /\ ~Text!IsIncomplete(p, k) /\ ~Text!IsShorthand(p, k)
        /\ ~Text!IsLiteral(p, k)
    BY <1>1, EndFacts
  <2> QED
    BY <2>2, <2>3, <1>1 DEF Reads, IsRaw, Shorthands, TokenType
<1>2. CASE k # Len(p) /\ c # 92
  <2>1. t = make_token(InsideType(c), c, k)
    BY <1>2, LexerMoves
  <2>2. t.type = InsideType(c) /\ t.position = k /\ t.character = c
    BY ONLY <2>1 DEF make_token
  <2>3. \A d : Text!IsPlain(p, k, d) <=> c = d
    BY <1>2, ElementFacts
  <2>4. /\ ~Text!IsIncomplete(p, k) /\ ~Text!IsShorthand(p, k)
        /\ Text!IsLiteral(p, k)
        /\ Text!Denoted(p, k) = {c} /\ Text!Character(p, k) = c
    BY <1>2, PlainFacts
  <2>5. c \in Chars /\ c \in 1 .. 255
    BY <1>2, ElementFacts
  <2> HIDE DEF c
  <2>6. /\ c = 45 => t.type = "DASH"
        /\ c = 93 => t.type = "RBRACKET"
        /\ c = 94 => t.type = "CARET"
        /\ c \notin {45, 93, 94} => t.type = "LITERAL"
    BY ONLY <2>2, <2>5 DEF InsideType, HYPHEN, RBRACKET, CARET
  <2>7. /\ Text!IsPlain(p, k, 45) <=> c = 45
        /\ Text!IsPlain(p, k, 93) <=> c = 93
        /\ Text!IsPlain(p, k, 94) <=> c = 94
    BY <2>3, Zenon
  <2> QED
    BY <2>2, <2>4, <2>5, <2>6, <2>7, <1>2, ZenonT(60)
       DEF Reads, IsRaw, Shorthands, TokenType
<1>3. CASE k # Len(p) /\ c = 92 /\ Text!IsIncomplete(p, k)
  <2>1. t = make_token("ERROR", 0, k)
    BY <1>3, LexerMoves
  <2>2. t.type = "ERROR" /\ t.position = k
    BY ONLY <2>1 DEF make_token
  <2>3. \A d : Text!IsPlain(p, k, d) <=> c = d
    BY <1>3, ElementFacts
  <2>4. ~Text!IsShorthand(p, k) /\ ~Text!IsLiteral(p, k)
    BY <1>3 DEF Text!IsShorthand, Text!IsLiteral
  <2> HIDE DEF c
  <2>5. /\ ~Text!IsPlain(p, k, 45) /\ ~Text!IsPlain(p, k, 93)
        /\ ~Text!IsPlain(p, k, 94)
    BY <2>3, <1>3
  <2> QED
    BY <2>2, <2>4, <2>5, <1>3 DEF Reads, IsRaw, Shorthands, TokenType
<1>4. CASE k # Len(p) /\ c = 92 /\ ~Text!IsIncomplete(p, k)
  <2>1. t = EscapedToken(e, k)
    BY <1>4, LexerMoves, ZenonT(60)
  <2>2. t.type = EscapeType(e) /\ t.position = k /\ t.character = Unescaped(e)
    BY ONLY <2>1 DEF EscapedToken, make_token
  <2>3. \A d : Text!IsPlain(p, k, d) <=> c = d
    BY <1>4, ElementFacts
  <2>4. /\ EscapeType(e) \in Shorthands \cup {"LITERAL"}
        /\ Text!IsShorthand(p, k) <=> EscapeType(e) \in Shorthands
        /\ Text!IsShorthand(p, k) =>
              Text!Denoted(p, k) = Shorthand(EscapeType(e))
        /\ ~Text!IsShorthand(p, k) =>
              Text!Denoted(p, k) = {Unescaped(e)} /\ Unescaped(e) \in Chars
    BY <1>4, EscapeFacts
  <2>5. ~Text!IsShorthand(p, k) => Text!Character(p, k) = Unescaped(e)
    BY <2>4, OneCharacter
  <2>6. Text!IsLiteral(p, k) <=> ~Text!IsShorthand(p, k)
    BY <1>4 DEF Text!IsLiteral
  <2> HIDE DEF c, e
  <2>7. /\ ~Text!IsPlain(p, k, 45) /\ ~Text!IsPlain(p, k, 93)
        /\ ~Text!IsPlain(p, k, 94)
    BY <2>3, <1>4
  <2> QED
    BY <2>2, <2>4, <2>5, <2>6, <2>7, <1>4
       DEF Reads, IsRaw, Shorthands, TokenType
<1> QED
  BY <1>1, <1>2, <1>3, <1>4

\* The name of an operator is the type of its token.
LEMMA OperatorNames ==
    ASSUME NEW c \in 1 .. 255
    PROVE  /\ \A name \in DOMAIN Text!Operators :
                 Text!Operators[name] = c <=> OutsideType(c) = name
           /\ OutsideType(c) \in TokenType \ {"DASH", "END", "ERROR"}
           /\ OutsideType(c) \notin Shorthands
           /\ OutsideType(c) = "LBRACKET" <=> c = 91
           /\ OutsideType(c) = "RBRACKET" <=> c = 93
           /\ OutsideType(c) \in {"LBRACE", "RBRACE"} <=> c \in {123, 125}
           /\ OutsideType(c) \in DOMAIN Text!Operators =>
                 OutsideType(c) \in Syntax!Kinds \ {"ERROR", "END"}
           /\ OutsideType(c) \notin DOMAIN Text!Operators =>
                 \/ OutsideType(c) \in {"LBRACKET"} \cup Refused
                 \/ OutsideType(c) = "LITERAL"
           /\ OutsideType(c) \in DOMAIN Text!Operators =>
                 OutsideType(c) \notin {"LBRACKET", "LITERAL"} \cup Refused
<1> DEFINE t == OutsideType(c)
           Names == {"DOLLAR", "LPAREN", "RPAREN", "STAR", "PLUS", "DOT",
                     "QUESTION", "CARET", "PIPE"}
<1>1. t = CASE c = 36 -> "DOLLAR"      [] c = 40 -> "LPAREN"
            [] c = 41 -> "RPAREN"      [] c = 42 -> "STAR"
            [] c = 43 -> "PLUS"        [] c = 46 -> "DOT"
            [] c = 63 -> "QUESTION"    [] c = 124 -> "PIPE"
            [] c = 123 -> "LBRACE"     [] c = 125 -> "RBRACE"
            [] c = 91 -> "LBRACKET"
            [] c = 93 -> "RBRACKET"
            [] c = 94 -> "CARET"
            [] OTHER -> "LITERAL"
  BY DEF OutsideType, LBRACKET, RBRACKET, CARET
<1> HIDE DEF t
<1>2. /\ t = "DOLLAR" <=> c = 36
      /\ t = "LPAREN" <=> c = 40
      /\ t = "RPAREN" <=> c = 41
      /\ t = "STAR" <=> c = 42
      /\ t = "PLUS" <=> c = 43
      /\ t = "DOT" <=> c = 46
      /\ t = "QUESTION" <=> c = 63
      /\ t = "PIPE" <=> c = 124
      /\ t = "LBRACE" <=> c = 123
      /\ t = "RBRACE" <=> c = 125
      /\ t = "LBRACKET" <=> c = 91
      /\ t = "RBRACKET" <=> c = 93
      /\ t = "CARET" <=> c = 94
      /\ t \in Names \cup {"LBRACE", "RBRACE", "LBRACKET", "RBRACKET",
                           "LITERAL"}
  <2> DEFINE Others == {36, 40, 41, 42, 43, 46, 63, 124, 123, 125, 91, 93, 94}
  <2>1. c = 36 => t = "DOLLAR"
    BY ONLY <1>1
  <2>2. c = 40 => t = "LPAREN"
    BY ONLY <1>1
  <2>3. c = 41 => t = "RPAREN"
    BY ONLY <1>1
  <2>4. c = 42 => t = "STAR"
    BY ONLY <1>1
  <2>5. c = 43 => t = "PLUS"
    BY ONLY <1>1
  <2>6. c = 46 => t = "DOT"
    BY ONLY <1>1
  <2>7. c = 63 => t = "QUESTION"
    BY ONLY <1>1
  <2>8. c = 124 => t = "PIPE"
    BY ONLY <1>1
  <2>9. c = 123 => t = "LBRACE"
    BY ONLY <1>1
  <2>10. c = 125 => t = "RBRACE"
    BY ONLY <1>1
  <2>11. c = 91 => t = "LBRACKET"
    BY ONLY <1>1
  <2>12. c = 93 => t = "RBRACKET"
    BY ONLY <1>1
  <2>13. c = 94 => t = "CARET"
    BY ONLY <1>1
  <2>14. c \notin Others => t = "LITERAL"
    BY ONLY <1>1, c \in 1 .. 255
  <2> QED
    BY ONLY <2>1, <2>2, <2>3, <2>4, <2>5, <2>6, <2>7, <2>8, <2>9, <2>10, <2>11,
       <2>12, <2>13, <2>14
<1>3. /\ DOMAIN Text!Operators = Names
      /\ Text!Operators["DOLLAR"] = 36
      /\ Text!Operators["LPAREN"] = 40
      /\ Text!Operators["RPAREN"] = 41
      /\ Text!Operators["STAR"] = 42
      /\ Text!Operators["PLUS"] = 43
      /\ Text!Operators["DOT"] = 46
      /\ Text!Operators["QUESTION"] = 63
      /\ Text!Operators["CARET"] = 94
      /\ Text!Operators["PIPE"] = 124
  BY DEF Text!Operators
<1>4. \A name \in DOMAIN Text!Operators : Text!Operators[name] = c <=> t = name
  BY ONLY <1>2, <1>3
<1>5. /\ t \in TokenType \ {"DASH", "END", "ERROR"} /\ t \notin Shorthands
      /\ t \in {"LBRACE", "RBRACE"} <=> c \in {123, 125}
  BY ONLY <1>2 DEF TokenType, Shorthands
<1>6. t \in Names => t \in Syntax!Kinds \ {"ERROR", "END"}
  BY DEF Syntax!Kinds, Syntax!OperandEnds, Syntax!Atoms, Syntax!Repeaters
<1>7. /\ t \notin Names => t \in {"LBRACKET"} \cup Refused \/ t = "LITERAL"
      /\ t \in Names => t \notin {"LBRACKET", "LITERAL"} \cup Refused
  BY ONLY <1>2 DEF Refused
<1> QED
  BY <1>2, <1>3, <1>4, <1>5, <1>6, <1>7 DEF t

\* What the scanner gives for a token outside of a class.
Kept(token) == IF token.type \in Shorthands THEN "CLASS" ELSE token.type
Matched(token) == CASE token.type = "LITERAL" -> {token.character}
                    [] token.type \in Shorthands -> Shorthand(token.type)
                    [] OTHER -> {}
Reason(token) ==
    CASE token.type = "RBRACKET" -> "unexpected closing bracket"
      [] token.type = "ERROR" -> "pattern ends with an incomplete escape"
      [] OTHER -> "unexpected token"

\* The token of the element at k, outside of a class, and where it ends.
Stands(p, k, token, to) ==
    /\ token.position = k
    /\ token.type \in TokenType
    /\ token.type = "LBRACKET" <=> Text!IsPlain(p, k, 91)
    /\ token.type = "END" <=> k = Len(p)
    /\ token.type \in Refused => Text!Complaint(p, k) = <<k, Reason(token)>>
    /\ token.type \notin Refused \cup {"LBRACKET"} =>
          /\ Text!TokenAt(p, k) =
                [terminal |-> Kept(token), chars |-> Matched(token),
                 from |-> k, to |-> to]
          /\ Text!Complaint(p, k) = Text!Complete
          /\ Kept(token) \in Syntax!Kinds \ {"ERROR"}
          /\ Kept(token) = "END" <=> k = Len(p)
          /\ Matched(token) \subseteq Chars

\* A token that is no bracket and no operator.
LEMMA SimpleTokenAt ==
    ASSUME NEW p, NEW k, k # Len(p), ~Text!IsPlain(p, k, 91),
           \A name \in DOMAIN Text!Operators :
               ~Text!IsPlain(p, k, Text!Operators[name])
    PROVE  Text!TokenAt(p, k) =
             [terminal |-> IF Text!IsShorthand(p, k) THEN "CLASS"
                           ELSE "LITERAL",
              chars    |-> Text!Denoted(p, k),
              from     |-> k,
              to       |-> k + IF Text!IsEscape(p, k) THEN 2 ELSE 1]
BY DEF Text!TokenAt

\* An operator.
LEMMA OperatorTokenAt ==
    ASSUME NEW p, NEW k, k # Len(p), ~Text!IsPlain(p, k, 91),
           NEW operator \in DOMAIN Text!Operators,
           \A name \in DOMAIN Text!Operators :
               Text!IsPlain(p, k, Text!Operators[name]) <=> operator = name
    PROVE  Text!TokenAt(p, k) =
             [terminal |-> operator, chars |-> {}, from |-> k, to |-> k + 1]
<1> DEFINE Is(name) == Text!IsPlain(p, k, Text!Operators[name])
<1>1. (CHOOSE name \in DOMAIN Text!Operators : Is(name)) = operator
  OBVIOUS
<1>2. \E name \in DOMAIN Text!Operators : Is(name)
  OBVIOUS
<1> QED
  BY <1>1, <1>2 DEF Text!TokenAt

\* Nothing is wrong with such a token.
LEMMA NoComplaint ==
    ASSUME NEW p, NEW k, ~Text!IsIncomplete(p, k),
           ~Text!IsPlain(p, k, 91), ~Text!IsPlain(p, k, 93),
           ~Text!IsPlain(p, k, 123), ~Text!IsPlain(p, k, 125)
    PROVE  Text!Complaint(p, k) = Text!Complete
BY DEF Text!Complaint

\* The lexer reads tokens.
LEMMA OutsideToken ==
    ASSUME NEW p \in Patterns, NEW k, Fresh(p, k)
    PROVE  Stands(p, k, Seen(p, k, FALSE).token,
                  IF k = Len(p) THEN k ELSE Text!After(p, k))
<1> PICK t : t = Seen(p, k, FALSE).token
  OBVIOUS
<1> PICK to : to = IF k = Len(p) THEN k ELSE Text!After(p, k)
  OBVIOUS
<1> SUFFICES Stands(p, k, t, to)
  OBVIOUS
<1> DEFINE c == Text!At(p, k)
           e == Text!At(p, k + 1)
<1>1. CASE k = Len(p)
  <2>1. t = make_token("END", 0, k)
    <3>1. Seen(p, Len(p), FALSE).token = make_token("END", 0, Len(p))
      BY LexerEnds
    <3> QED
      BY <3>1, <1>1, Zenon
  <2>2. t.type = "END" /\ t.position = k
    BY ONLY <2>1 DEF make_token
  <2>3. /\ ~Text!IsPlain(p, k, 91) /\ ~Text!IsPlain(p, k, 93)
        /\ ~Text!IsPlain(p, k, 123) /\ ~Text!IsPlain(p, k, 125)
        /\ ~Text!IsIncomplete(p, k)
    BY <1>1, EndFacts
  <2>4. k + 0 = k /\ to = k
    <3>1. PICK N \in Nat : N = Len(p)
      BY PatternFacts
    <3>2. k \in Nat
      BY <3>1, <1>1
    <3> QED
      BY <3>2, <1>1
  <2>5. Text!TokenAt(p, k) = [terminal |-> "END", chars |-> {},
                              from |-> k, to |-> to]
    <3>1. Text!TokenAt(p, k) = [terminal |-> "END", chars |-> {},
                                from |-> k, to |-> k + 0]
      <4>1. \A c2 : ~Text!IsPlain(p, k, c2)
        BY <1>1, EndFacts
      <4>2. ~Text!IsPlain(p, k, 91)
            /\ \A name \in DOMAIN Text!Operators :
                  ~Text!IsPlain(p, k, Text!Operators[name])
        BY ONLY <4>1
      <4> QED
        BY ONLY <1>1, <4>2 DEF Text!TokenAt
    <3> QED
      BY ONLY <3>1, <2>4
  <2>6. Text!Complaint(p, k) = Text!Complete
    BY <2>3, NoComplaint
  <2>7. Kept(t) = "END" /\ Matched(t) = {}
    BY ONLY <2>2 DEF Kept, Matched, Shorthands
  <2>8. "END" \in Syntax!Kinds \ {"ERROR"}
    BY DEF Syntax!Kinds
  <2>9. t.type \in TokenType /\ t.type \notin Refused \cup {"LBRACKET"}
    BY ONLY <2>2 DEF TokenType, Refused
  <2> QED
    BY ONLY <2>2, <2>3, <2>5, <2>6, <2>7, <2>8, <2>9, <1>1 DEF Stands
<1>2. ASSUME k # Len(p)
      PROVE  /\ to = Text!After(p, k) /\ k \in Nat
             /\ \A d : Text!IsPlain(p, k, d) <=> c = d
             /\ c \in Chars /\ c \in 1 .. 255
             /\ Text!IsPlain(p, k, 91) <=> c = 91
             /\ Text!IsPlain(p, k, 93) <=> c = 93
             /\ Text!IsPlain(p, k, 123) <=> c = 123
             /\ Text!IsPlain(p, k, 125) <=> c = 125
  <2>1. \A d : Text!IsPlain(p, k, d) <=> c = d
    BY <1>2, ElementFacts
  <2>2. c \in Chars /\ c \in 1 .. 255 /\ k \in Nat
    BY <1>2, ElementFacts
  <2>3. /\ Text!IsPlain(p, k, 91) <=> c = 91
        /\ Text!IsPlain(p, k, 93) <=> c = 93
        /\ Text!IsPlain(p, k, 123) <=> c = 123
        /\ Text!IsPlain(p, k, 125) <=> c = 125
    BY <2>1, Zenon
  <2> QED
    BY <2>1, <2>2, <2>3, <1>2
<1>3. CASE k # Len(p) /\ c # 92
  <2>1. t = make_token(OutsideType(c), c, k)
    BY <1>3, LexerMoves
  <2>2. t.type = OutsideType(c) /\ t.position = k /\ t.character = c
    BY ONLY <2>1 DEF make_token
  <2>3. to = k + 1 /\ ~Text!IsIncomplete(p, k) /\ ~Text!IsShorthand(p, k)
        /\ ~Text!IsEscape(p, k) /\ Text!Denoted(p, k) = {c}
    BY <1>2, <1>3, ElementFacts, PlainFacts
  <2>4. /\ \A name \in DOMAIN Text!Operators :
              Text!Operators[name] = c <=> OutsideType(c) = name
        /\ OutsideType(c) \in TokenType \ {"DASH", "END", "ERROR"}
        /\ OutsideType(c) \notin Shorthands
        /\ OutsideType(c) = "LBRACKET" <=> c = 91
        /\ OutsideType(c) = "RBRACKET" <=> c = 93
        /\ OutsideType(c) \in {"LBRACE", "RBRACE"} <=> c \in {123, 125}
        /\ OutsideType(c) \in DOMAIN Text!Operators =>
              OutsideType(c) \in Syntax!Kinds \ {"ERROR", "END"}
        /\ OutsideType(c) \notin DOMAIN Text!Operators =>
              \/ OutsideType(c) \in {"LBRACKET"} \cup Refused
              \/ OutsideType(c) = "LITERAL"
        /\ OutsideType(c) \in DOMAIN Text!Operators =>
              OutsideType(c) \notin {"LBRACKET", "LITERAL"} \cup Refused
    BY <1>2, <1>3, OperatorNames, ZenonT(60)
  <2> HIDE DEF c
  <2>5. /\ t.type \in TokenType
        /\ t.type = "LBRACKET" <=> Text!IsPlain(p, k, 91)
        /\ t.type # "END" /\ k # Len(p)
    <3>1. /\ t.type \in TokenType /\ t.type # "END"
          /\ t.type = "LBRACKET" <=> c = 91
      BY ONLY <2>2, <2>4
    <3>2. Text!IsPlain(p, k, 91) <=> c = 91
      BY <1>2, <1>3
    <3> QED
      BY ONLY <3>1, <3>2, <1>3
  <2>6. /\ \A name \in DOMAIN Text!Operators :
              Text!Operators[name] = c <=> t.type = name
        /\ t.type \notin Shorthands
        /\ t.type = "LBRACKET" <=> c = 91
        /\ t.type \in DOMAIN Text!Operators =>
              t.type \in Syntax!Kinds \ {"ERROR", "END"}
        /\ t.type \in DOMAIN Text!Operators =>
              t.type \notin {"LBRACKET", "LITERAL"} \cup Refused
        /\ t.type \notin DOMAIN Text!Operators =>
              \/ t.type \in {"LBRACKET"} \cup Refused
              \/ t.type = "LITERAL"
    BY ONLY <2>2, <2>4
  <2>7. t.type \in Refused => Text!Complaint(p, k) = <<k, Reason(t)>>
    <3> SUFFICES ASSUME t.type \in Refused
                 PROVE  Text!Complaint(p, k) = <<k, Reason(t)>>
      OBVIOUS
    <3>1. t.type \in {"RBRACKET", "LBRACE", "RBRACE"}
      BY <2>2, <2>4 DEF Refused
    <3>2. CASE t.type = "RBRACKET"
      <4>1. c = 93
        BY <2>2, <2>4, <3>2
      <4>2. ~Text!IsPlain(p, k, 91) /\ Text!IsPlain(p, k, 93)
            /\ ~Text!IsPlain(p, k, 123) /\ ~Text!IsPlain(p, k, 125)
        BY <4>1, <1>2, <1>3
      <4> QED
        BY ONLY <4>2, <3>2, <2>3, ZenonT(60) DEF Reason, Text!Complaint
    <3>3. CASE t.type \in {"LBRACE", "RBRACE"}
      <4>1. c = 123 \/ c = 125
        BY <2>2, <2>4, <3>3
      <4>2. /\ ~Text!IsPlain(p, k, 91) /\ ~Text!IsPlain(p, k, 93)
            /\ Text!IsPlain(p, k, 123) \/ Text!IsPlain(p, k, 125)
        BY <4>1, <1>2, <1>3
      <4> QED
        <5>1. Reason(t) = "unexpected token"
          BY ONLY <3>3 DEF Reason
        <5>2. Text!Complaint(p, k) = <<k, "unexpected token">>
          BY ONLY <4>2, <2>3, ZenonT(60) DEF Text!Complaint
        <5> QED
          BY ONLY <5>1, <5>2
    <3> QED
      BY <3>1, <3>2, <3>3
  <2>8. ASSUME t.type \notin Refused \cup {"LBRACKET"}
        PROVE  /\ Text!TokenAt(p, k) =
                     [terminal |-> Kept(t), chars |-> Matched(t),
                      from |-> k, to |-> to]
               /\ Kept(t) \in Syntax!Kinds \ {"ERROR"}
               /\ Kept(t) # "END"
               /\ Matched(t) \subseteq Chars
    <3>1. Kept(t) = t.type
      BY ONLY <2>6 DEF Kept
    <3>2. ~Text!IsPlain(p, k, 91)
      BY <2>6, <2>8, <1>2, <1>3
    <3>3. \A name \in DOMAIN Text!Operators :
             Text!IsPlain(p, k, Text!Operators[name]) <=> t.type = name
      <4>1. \A d : Text!IsPlain(p, k, d) <=> c = d
        BY <1>2, <1>3
      <4> QED
        BY ONLY <4>1, <2>6
    <3>4. CASE t.type \in DOMAIN Text!Operators
      <4>1. Matched(t) = {}
        BY ONLY <2>6, <3>4 DEF Matched
      <4>2. Text!TokenAt(p, k) = [terminal |-> t.type, chars |-> {},
                                  from |-> k, to |-> k + 1]
        <5>1. k # Len(p) /\ t.type \in DOMAIN Text!Operators
          BY <1>3, <3>4
        <5> QED
          BY ONLY <5>1, <3>2, <3>3, OperatorTokenAt
      <4>3. t.type \in Syntax!Kinds \ {"ERROR", "END"}
        BY ONLY <2>6, <3>4
      <4> QED
        BY <4>1, <4>2, <4>3, <3>1, <2>3
    <3>5. CASE t.type \notin DOMAIN Text!Operators
      <4>1. t.type = "LITERAL"
        BY ONLY <2>6, <2>8, <3>5
      <4>2. Matched(t) = {c} /\ c \in Chars
        <5>1. Matched(t) = {t.character}
          BY ONLY <4>1 DEF Matched, Shorthands
        <5> QED
          BY <5>1, <2>2, <1>2, <1>3
      <4>3. \A name \in DOMAIN Text!Operators :
               ~Text!IsPlain(p, k, Text!Operators[name])
        BY <3>3, <3>5
      <4>4. Text!TokenAt(p, k) =
              [terminal |-> "LITERAL", chars |-> {c},
               from |-> k, to |-> k + 1]
        BY <4>3, <3>2, <2>3, <1>3, SimpleTokenAt
      <4>5. "LITERAL" \in Syntax!Kinds \ {"ERROR", "END"}
        BY DEF Syntax!Kinds, Syntax!OperandEnds, Syntax!Atoms
      <4> QED
        BY <4>1, <4>2, <4>4, <4>5, <3>1, <2>3
    <3> QED
      BY <3>4, <3>5
  <2>9. t.type \notin Refused \cup {"LBRACKET"} =>
           Text!Complaint(p, k) = Text!Complete
    <3>1. t.type \notin Refused \cup {"LBRACKET"} =>
             c # 91 /\ c # 93 /\ c # 123 /\ c # 125
      BY <2>2, <2>4 DEF Refused
    <3> QED
      BY <3>1, <2>3, <1>2, <1>3, NoComplaint
  <2> QED
    BY ONLY <2>2, <2>5, <2>7, <2>8, <2>9 DEF Stands
<1>4. CASE k # Len(p) /\ c = 92 /\ Text!IsIncomplete(p, k)
  <2>1. t = make_token("ERROR", 0, k)
    BY <1>4, LexerMoves
  <2>2. t.type = "ERROR" /\ t.position = k
    BY ONLY <2>1 DEF make_token
  <2>3. /\ ~Text!IsPlain(p, k, 91) /\ ~Text!IsPlain(p, k, 93)
        /\ ~Text!IsPlain(p, k, 123) /\ ~Text!IsPlain(p, k, 125)
    BY <1>2, <1>4
  <2>4. Text!Complaint(p, k) = <<k, Reason(t)>>
    BY ONLY <2>2, <2>3, <1>4 DEF Reason, Text!Complaint
  <2>5. t.type \in TokenType /\ t.type \in Refused /\ t.type # "LBRACKET"
        /\ t.type # "END"
    BY ONLY <2>2 DEF TokenType, Refused
  <2> QED
    BY ONLY <2>2, <2>3, <2>4, <2>5, <1>4 DEF Stands
<1>5. CASE k # Len(p) /\ c = 92 /\ ~Text!IsIncomplete(p, k)
  <2>1. t = EscapedToken(e, k)
    BY <1>5, LexerMoves, ZenonT(60)
  <2>2. t.type = EscapeType(e) /\ t.position = k /\ t.character = Unescaped(e)
    BY ONLY <2>1 DEF EscapedToken, make_token
  <2>3. /\ EscapeType(e) \in Shorthands \cup {"LITERAL"}
        /\ Text!IsShorthand(p, k) <=> EscapeType(e) \in Shorthands
        /\ Text!IsShorthand(p, k) =>
              Text!Denoted(p, k) = Shorthand(EscapeType(e))
        /\ ~Text!IsShorthand(p, k) =>
              Text!Denoted(p, k) = {Unescaped(e)} /\ Unescaped(e) \in Chars
    BY <1>5, EscapeFacts
  <2>4. to = k + 2 /\ Text!IsEscape(p, k)
    <3>1. Text!IsPlain(p, k, 92)
      BY <1>2, <1>5
    <3> QED
      BY <3>1, <1>5 DEF Text!IsEscape, Text!After
  <2>5. /\ ~Text!IsPlain(p, k, 91) /\ ~Text!IsPlain(p, k, 93)
        /\ ~Text!IsPlain(p, k, 123) /\ ~Text!IsPlain(p, k, 125)
    BY <1>2, <1>5
  <2>6. \A name \in DOMAIN Text!Operators :
           ~Text!IsPlain(p, k, Text!Operators[name])
    <3>1. \A name \in DOMAIN Text!Operators : Text!Operators[name] # 92
      BY DEF Text!Operators
    <3> QED
      BY <3>1, <1>2, <1>5
  <2>7. Text!TokenAt(p, k) =
          [terminal |-> IF Text!IsShorthand(p, k) THEN "CLASS"
                        ELSE "LITERAL",
           chars    |-> Text!Denoted(p, k),
           from     |-> k,
           to       |-> k + IF Text!IsEscape(p, k) THEN 2 ELSE 1]
    BY <2>5, <2>6, <1>5, SimpleTokenAt
  <2>8. Text!Complaint(p, k) = Text!Complete
    BY <2>5, <1>5, NoComplaint
  <2> HIDE DEF e
  <2>9. Text!Denoted(p, k) = Matched(t) /\ Matched(t) \subseteq Chars
        /\ Kept(t) = IF Text!IsShorthand(p, k) THEN "CLASS" ELSE "LITERAL"
    <3>1. Text!Denoted(p, k) \subseteq Chars
      BY DEF Text!Denoted
    <3>2. CASE Text!IsShorthand(p, k)
      <4>1. t.type \in Shorthands /\ t.type # "LITERAL"
        BY <2>2, <2>3, <3>2 DEF Shorthands
      <4>2. Matched(t) = Shorthand(t.type) /\ Kept(t) = "CLASS"
        BY ONLY <4>1 DEF Matched, Kept
      <4> QED
        BY <4>2, <3>1, <3>2, <2>2, <2>3
    <3>3. CASE ~Text!IsShorthand(p, k)
      <4>1. t.type \notin Shorthands /\ t.type = "LITERAL"
        BY <2>2, <2>3, <3>3 DEF Shorthands
      <4>2. Matched(t) = {t.character} /\ Kept(t) = "LITERAL"
        BY ONLY <4>1 DEF Matched, Kept
      <4> QED
        BY <4>2, <3>1, <3>3, <2>2, <2>3
    <3> QED
      BY <3>2, <3>3
  <2>10. /\ Kept(t) \in Syntax!Kinds \ {"ERROR"} /\ Kept(t) # "END"
    BY <2>9 DEF Syntax!Kinds, Syntax!OperandEnds, Syntax!Atoms
  <2>11. /\ t.type \in TokenType /\ t.type \notin Refused \cup {"LBRACKET"}
         /\ t.type # "END"
    BY <2>2, <2>3 DEF TokenType, Refused, Shorthands
  <2>12. Text!TokenAt(p, k) =
           [terminal |-> Kept(t), chars |-> Matched(t), from |-> k, to |-> to]
    BY ONLY <2>4, <2>7, <2>9
  <2> QED
    BY ONLY <2>2, <2>5, <2>8, <2>9, <2>10, <2>11, <2>12, <1>5 DEF Stands
<1> QED
  BY <1>1, <1>3, <1>4, <1>5
-----------------------------------------------------------------------------
(* Classes.                                                                *)

\* Where a class ends.
LEMMA ClosingFacts ==
    ASSUME NEW p \in Patterns, NEW o \in Nat, o < Len(p)
    PROVE  /\ Text!Closing(p, o) \in o + 1 .. Len(p)
           /\ Text!IsClosed(p, o) <=> Text!Closing(p, o) # Len(p)
           /\ Text!IsClosed(p, o) => Text!IsPlain(p, Text!Closing(p, o), 93)
           /\ \A k \in o + 1 .. Text!Closing(p, o) - 1 :
                 ~Text!IsPlain(p, k, 93)
<1>1. PICK N \in Nat : N = Len(p)
  BY PatternFacts
<1> DEFINE S == {k \in o + 1 .. N - 1 : Text!IsPlain(p, k, 93)}
<1>2. o < N /\ Text!Closings(p, o) = S
  BY <1>1 DEF Text!Closings
<1>3. CASE S = {}
  <2>1. Text!Closing(p, o) = N /\ ~Text!IsClosed(p, o)
    BY <1>1, <1>2, <1>3 DEF Text!Closing, Text!IsClosed
  <2> QED
    BY ONLY <2>1, <1>1, <1>2, <1>3
<1>4. CASE S # {}
  <2>1. S \in SUBSET Nat
    BY <1>2
  <2>2. PICK n \in S : \A m \in S : n <= m
    <3> HIDE DEF S
    <3> QED
      BY <1>4, <2>1, LeastNatural
  <2>3. PICK c : c = CHOOSE k \in S : \A j \in S : k <= j
    OBVIOUS
  <2>4. c \in S /\ \A j \in S : c <= j
    <3> HIDE DEF S
    <3> QED
      BY <2>2, <2>3
  <2>5. Text!Closing(p, o) = c /\ Text!IsClosed(p, o)
    <3> HIDE DEF S
    <3> QED
      BY <1>2, <1>4, <2>3 DEF Text!Closing, Text!IsClosed
  <2> QED
    BY ONLY <2>4, <2>5, <1>1, <1>2
<1> QED
  BY <1>3, <1>4

\* What is behind an element, whether it is one or not.
LEMMA AfterFacts ==
    ASSUME NEW p \in Patterns, NEW k \in Nat, k < Len(p)
    PROVE  /\ Text!After(p, k) \in k + 1 .. Len(p) + 1
           /\ Text!IsRange(p, k) =>
                 /\ Text!RangeEnd(p, k) \in k + 2 .. Len(p)
                 /\ Text!After(p, Text!RangeEnd(p, k)) \in k + 1 .. Len(p) + 1
<1>1. PICK N \in Nat : N = Len(p)
  BY PatternFacts
<1>2. \A j, c : Text!IsPlain(p, j, c) => j \in 0 .. N - 1
  BY <1>1 DEF Text!IsPlain, Text!Positions
<1>3. ASSUME NEW j \in Nat, j <= N
      PROVE  Text!After(p, j) \in j + 1 .. N + 1
  <2>1. \/ Text!After(p, j) = j + 1
        \/ Text!After(p, j) = j + 2 /\ Text!IsPlain(p, j, 92)
    BY DEF Text!After, Text!IsEscape
  <2>2. Text!IsPlain(p, j, 92) => j <= N - 1
    BY <1>2
  <2> QED
    BY ONLY <2>1, <2>2, <1>3
<1>4. k < N
  BY <1>1
<1>5. Text!IsRange(p, k) =>
        Text!RangeEnd(p, k) = Text!After(p, k) + 1
        /\ Text!IsPlain(p, Text!After(p, k), 45)
  BY DEF Text!IsRange, Text!RangeEnd
<1>6. Text!IsRange(p, k) => Text!RangeEnd(p, k) \in k + 2 .. N
  <2>1. Text!After(p, k) \in k + 1 .. N + 1
    BY <1>3, <1>4
  <2>2. Text!IsRange(p, k) => Text!After(p, k) \in 0 .. N - 1
    BY <1>2, <1>5
  <2> QED
    BY ONLY <2>1, <2>2, <1>5, k \in Nat
<1>7. Text!IsRange(p, k) =>
        Text!After(p, Text!RangeEnd(p, k)) \in k + 1 .. N + 1
  <2> SUFFICES ASSUME Text!IsRange(p, k)
               PROVE  Text!After(p, Text!RangeEnd(p, k)) \in k + 1 .. N + 1
    OBVIOUS
  <2> DEFINE r == Text!RangeEnd(p, k)
  <2>1. r \in k + 2 .. N
    BY <1>6
  <2> HIDE DEF r
  <2>2. r \in Nat /\ r <= N
    BY <2>1
  <2>3. Text!After(p, r) \in r + 1 .. N + 1
    BY <2>2, <1>3
  <2>4. Text!After(p, r) \in k + 1 .. N + 1
    BY <2>1, <2>3
  <2> QED
    BY <2>4 DEF r
<1>8. Text!After(p, k) \in k + 1 .. N + 1
  BY <1>3, <1>4
<1> QED
  BY <1>1, <1>6, <1>7, <1>8

\* What the elements from k on match, and what is wrong with them, from that
\* of the ones behind.
MembersStep(p, o, k, from) ==
    IF k >= Text!Closing(p, o) THEN {}
    ELSE IF Text!IsRange(p, k)
    THEN (Chars \cap
            (Text!Character(p, k) .. Text!Character(p, Text!RangeEnd(p, k))))
         \cup from[Text!After(p, Text!RangeEnd(p, k))]
    ELSE Text!Denoted(p, k) \cup from[Text!After(p, k)]

ComplaintStep(p, o, k, from) ==
    IF k >= Text!Closing(p, o)
    THEN IF Text!IsClosed(p, o) THEN Text!Complete
         ELSE <<o, "missing closing bracket">>
    ELSE IF Text!IsIncomplete(p, k)
    THEN <<k, "pattern ends with an incomplete escape">>
    ELSE IF ~Text!IsRange(p, k) THEN from[Text!After(p, k)]
    ELSE IF ~Text!IsLiteral(p, Text!RangeEnd(p, k))
    THEN <<Text!RangeEnd(p, k),
           "range endpoint must be a literal character">>
    ELSE IF Text!Character(p, k) > Text!Character(p, Text!RangeEnd(p, k))
    THEN <<k, "character range is reversed">>
    ELSE from[Text!After(p, Text!RangeEnd(p, k))]

\* MembersFrom is what its definition says.
LEMMA MembersEquation ==
    ASSUME NEW p \in Patterns, NEW o \in Nat, o < Len(p)
    PROVE  \A k \in 1 .. Len(p) + 1 :
              Text!MembersFrom(p, o)[k] =
                 MembersStep(p, o, k, Text!MembersFrom(p, o))
<1>1. PICK N \in Nat : N = Len(p) + 1 /\ N >= 1
  BY PatternFacts
<1> DEFINE V == SUBSET Chars
           From == [1 .. N -> V]
           step == [k \in 1 .. N |->
                      [from \in From |-> MembersStep(p, o, k, from)]]
<1>2. Text!Closing(p, o) \in o + 1 .. N - 1
  <2>1. Text!Closing(p, o) \in o + 1 .. Len(p) /\ Len(p) \in Nat
    BY ClosingFacts, PatternFacts
  <2> QED
    BY <2>1, <1>1
<1>3. ASSUME NEW k \in 1 .. N, ~(k >= Text!Closing(p, o))
      PROVE  /\ Text!After(p, k) \in k + 1 .. N
             /\ Text!IsRange(p, k) =>
                   Text!After(p, Text!RangeEnd(p, k)) \in k + 1 .. N
  <2>1. k \in Nat /\ k < Len(p)
    <3>1. PICK M \in Nat : M = Len(p)
      BY PatternFacts
    <3> QED
      BY <1>1, <1>2, <1>3, <3>1
  <2>2. /\ Text!After(p, k) \in k + 1 .. Len(p) + 1
        /\ Text!IsRange(p, k) =>
              Text!After(p, Text!RangeEnd(p, k)) \in k + 1 .. Len(p) + 1
    BY <2>1, AfterFacts
  <2> QED
    BY <2>2, <1>1
<1>4. ASSUME NEW k \in 1 .. N, NEW from \in From
      PROVE  MembersStep(p, o, k, from) \in V
  <2>1. \A m \in k + 1 .. N : from[m] \subseteq Chars
    OBVIOUS
  <2>2. Text!Denoted(p, k) \subseteq Chars
    BY DEF Text!Denoted
  <2> QED
    BY <2>1, <2>2, <1>3 DEF MembersStep
<1>5. ASSUME NEW k \in 1 .. N, NEW g \in From, NEW h \in From,
             \A m \in k + 1 .. N : g[m] = h[m]
      PROVE  MembersStep(p, o, k, g) = MembersStep(p, o, k, h)
  <2> HIDE DEF From, V
  <2> QED
    BY <1>3, <1>5 DEF MembersStep
<1>6. StepsDown(step, N, V)
  <2>1. V # {}
    OBVIOUS
  <2>2. step \in [1 .. N -> [From -> V]]
    BY <1>4
  <2>3. \A k \in 1 .. N : \A g \in From :
           step[k][g] = MembersStep(p, o, k, g)
    OBVIOUS
  <2>4. \A k \in 1 .. N : \A g \in From, h \in From :
           (\A m \in k + 1 .. N : g[m] = h[m]) => step[k][g] = step[k][h]
    <3> HIDE DEF step, V, From
    <3> QED
      BY <1>5, <2>3
  <2> HIDE DEF step, V
  <2> QED
    BY <2>1, <2>2, <2>4 DEF StepsDown
<1>7. PICK f \in From : \A k \in 1 .. N : f[k] = MembersStep(p, o, k, f)
  <2>1. \A k \in 1 .. N : \A g \in From :
           step[k][g] = MembersStep(p, o, k, g)
    OBVIOUS
  <2> HIDE DEF step, V
  <2>2. PICK f \in [1 .. N -> V] : \A k \in 1 .. N : f[k] = step[k][f]
    BY ONLY <1>6, DownwardFunction
  <2> QED
    BY <2>1, <2>2
<1>8. f = [k \in 1 .. N |-> MembersStep(p, o, k, f)]
  <2> HIDE DEF V
  <2> QED
    BY <1>7
<1> DEFINE M == Text!MembersFrom(p, o)
<1>9. M = CHOOSE from : from = [k \in 1 .. N |-> MembersStep(p, o, k, from)]
  BY <1>1, Zenon DEF Text!MembersFrom, MembersStep
<1> HIDE DEF M
<1>10. M = [k \in 1 .. N |-> MembersStep(p, o, k, M)]
  BY <1>8, <1>9
<1>11. \A k \in 1 .. N : M[k] = MembersStep(p, o, k, M)
  <2> DEFINE Value(k) == MembersStep(p, o, k, M)
  <2>1. M = [k \in 1 .. N |-> Value(k)]
    BY <1>10
  <2> HIDE DEF Value
  <2>2. \A k \in 1 .. N : M[k] = Value(k)
    BY ONLY <2>1
  <2> QED
    BY <2>2 DEF Value
<1> QED
  BY <1>1, <1>11 DEF M

\* ComplaintFrom is what its definition says.
LEMMA ComplaintEquation ==
    ASSUME NEW p \in Patterns, NEW o \in Nat, o < Len(p)
    PROVE  \A k \in 1 .. Len(p) + 1 :
              Text!ComplaintFrom(p, o)[k] =
                 ComplaintStep(p, o, k, Text!ComplaintFrom(p, o))
<1>1. PICK N \in Nat : N = Len(p) + 1 /\ N >= 1
  BY PatternFacts
<1> DEFINE Faults == {"missing closing bracket",
                      "pattern ends with an incomplete escape",
                      "range endpoint must be a literal character",
                      "character range is reversed"}
           V == {Text!Complete} \cup (Nat \X Faults)
           From == [1 .. N -> V]
           step == [k \in 1 .. N |->
                      [from \in From |-> ComplaintStep(p, o, k, from)]]
<1> HIDE DEF Faults
<1>2. Text!Closing(p, o) \in o + 1 .. N - 1
  <2>1. Text!Closing(p, o) \in o + 1 .. Len(p) /\ Len(p) \in Nat
    BY ClosingFacts, PatternFacts
  <2> QED
    BY <2>1, <1>1
<1>3. ASSUME NEW k \in 1 .. N, ~(k >= Text!Closing(p, o))
      PROVE  /\ Text!After(p, k) \in k + 1 .. N
             /\ Text!IsRange(p, k) =>
                   Text!After(p, Text!RangeEnd(p, k)) \in k + 1 .. N
  <2>1. k \in Nat /\ k < Len(p)
    <3>1. PICK M \in Nat : M = Len(p)
      BY PatternFacts
    <3> QED
      BY <1>1, <1>2, <1>3, <3>1
  <2>2. /\ Text!After(p, k) \in k + 1 .. Len(p) + 1
        /\ Text!IsRange(p, k) =>
              Text!After(p, Text!RangeEnd(p, k)) \in k + 1 .. Len(p) + 1
    BY <2>1, AfterFacts
  <2> QED
    BY <2>2, <1>1
<1>4. ASSUME NEW k \in 1 .. N, NEW from \in From
      PROVE  ComplaintStep(p, o, k, from) \in V
  <2>1. \A m \in k + 1 .. N : from[m] \in V
    OBVIOUS
  <2>2. Text!Complete \in V
    OBVIOUS
  <2>3. \A n \in Nat :
           /\ <<n, "missing closing bracket">> \in V
           /\ <<n, "pattern ends with an incomplete escape">> \in V
           /\ <<n, "range endpoint must be a literal character">> \in V
           /\ <<n, "character range is reversed">> \in V
    BY DEF Faults
  <2>4. ~(k >= Text!Closing(p, o)) /\ Text!IsRange(p, k) =>
           Text!RangeEnd(p, k) \in Nat
    <3>1. ASSUME ~(k >= Text!Closing(p, o)) PROVE k \in Nat /\ k < Len(p)
      <4>1. PICK M \in Nat : M = Len(p)
        BY PatternFacts
      <4> QED
        BY <1>1, <1>2, <3>1, <4>1
    <3>2. ASSUME ~(k >= Text!Closing(p, o)), Text!IsRange(p, k)
          PROVE  Text!RangeEnd(p, k) \in k + 2 .. Len(p)
      BY <3>1, <3>2, AfterFacts
    <3>3. PICK M \in Nat : M = Len(p)
      BY PatternFacts
    <3> QED
      BY <3>2, <3>3
  <2>5. k \in Nat
    OBVIOUS
  <2> HIDE DEF V
  <2> QED
    <3> DEFINE e == Text!RangeEnd(p, k)
    <3>1. CASE k >= Text!Closing(p, o)
      <4>1. <<o, "missing closing bracket">> \in V
        BY <2>3
      <4> QED
        BY <4>1, <2>2, <3>1 DEF ComplaintStep
    <3>2. CASE ~(k >= Text!Closing(p, o)) /\ Text!IsIncomplete(p, k)
      <4>1. <<k, "pattern ends with an incomplete escape">> \in V
        BY <2>3, <2>5
      <4> QED
        BY <4>1, <3>2 DEF ComplaintStep
    <3>3. CASE /\ ~(k >= Text!Closing(p, o)) /\ ~Text!IsIncomplete(p, k)
               /\ ~Text!IsRange(p, k)
      <4>1. from[Text!After(p, k)] \in V
        BY <2>1, <1>3, <3>3
      <4> QED
        BY <4>1, <3>3 DEF ComplaintStep
    <3>4. CASE /\ ~(k >= Text!Closing(p, o)) /\ ~Text!IsIncomplete(p, k)
               /\ Text!IsRange(p, k)
      <4>1. from[Text!After(p, e)] \in V
        BY <2>1, <1>3, <3>4
      <4>2. /\ <<e, "range endpoint must be a literal character">> \in V
            /\ <<k, "character range is reversed">> \in V
        BY <2>3, <2>4, <2>5, <3>4
      <4> QED
        BY <4>1, <4>2, <3>4 DEF ComplaintStep
    <3> QED
      BY <3>1, <3>2, <3>3, <3>4
<1>5. ASSUME NEW k \in 1 .. N, NEW g \in From, NEW h \in From,
             \A m \in k + 1 .. N : g[m] = h[m]
      PROVE  ComplaintStep(p, o, k, g) = ComplaintStep(p, o, k, h)
  <2> HIDE DEF From, V
  <2> QED
    BY <1>3, <1>5 DEF ComplaintStep
<1>6. StepsDown(step, N, V)
  <2>1. V # {}
    OBVIOUS
  <2>2. step \in [1 .. N -> [From -> V]]
    BY <1>4
  <2>3. \A k \in 1 .. N : \A g \in From :
           step[k][g] = ComplaintStep(p, o, k, g)
    OBVIOUS
  <2>4. \A k \in 1 .. N : \A g \in From, h \in From :
           (\A m \in k + 1 .. N : g[m] = h[m]) => step[k][g] = step[k][h]
    <3> HIDE DEF step, V, From
    <3> QED
      BY <1>5, <2>3
  <2> HIDE DEF step, V
  <2> QED
    BY <2>1, <2>2, <2>4 DEF StepsDown
<1>7. PICK f \in From : \A k \in 1 .. N : f[k] = ComplaintStep(p, o, k, f)
  <2>1. \A k \in 1 .. N : \A g \in From :
           step[k][g] = ComplaintStep(p, o, k, g)
    OBVIOUS
  <2> HIDE DEF step, V
  <2>2. PICK f \in [1 .. N -> V] : \A k \in 1 .. N : f[k] = step[k][f]
    BY ONLY <1>6, DownwardFunction
  <2> QED
    BY <2>1, <2>2
<1>8. f = [k \in 1 .. N |-> ComplaintStep(p, o, k, f)]
  <2> HIDE DEF V
  <2> QED
    BY <1>7
<1> DEFINE M == Text!ComplaintFrom(p, o)
<1>9. M = CHOOSE from : from = [k \in 1 .. N |-> ComplaintStep(p, o, k, from)]
  BY <1>1, Zenon DEF Text!ComplaintFrom, ComplaintStep
<1> HIDE DEF M
<1>10. M = [k \in 1 .. N |-> ComplaintStep(p, o, k, M)]
  BY <1>8, <1>9
<1>11. \A k \in 1 .. N : M[k] = ComplaintStep(p, o, k, M)
  <2> DEFINE Value(k) == ComplaintStep(p, o, k, M)
  <2>1. M = [k \in 1 .. N |-> Value(k)]
    BY <1>10
  <2> HIDE DEF Value
  <2>2. \A k \in 1 .. N : M[k] = Value(k)
    BY ONLY <2>1
  <2> QED
    BY <2>2 DEF Value
<1> QED
  BY <1>1, <1>11 DEF M

\* The elements of a class up to its end.
LEMMA Within ==
    ASSUME NEW p \in Patterns, NEW o \in Nat, o < Len(p),
           NEW q \in o + 1 .. Text!Closing(p, o), Fresh(p, q)
    PROVE  /\ q \in 1 .. Len(p)
           /\ Text!IsPlain(p, q, 93) =>
                 q = Text!Closing(p, o) /\ Text!IsClosed(p, o)
           /\ q = Len(p) => q = Text!Closing(p, o) /\ ~Text!IsClosed(p, o)
           /\ q # Len(p) /\ ~Text!IsPlain(p, q, 93) =>
                 /\ q < Text!Closing(p, o)
                 /\ Text!After(p, q) \in q + 1 .. Text!Closing(p, o)
                 /\ Fresh(p, Text!After(p, q))
<1>1. PICK N \in Nat : N = Len(p)
  BY PatternFacts
<1>2. PICK c : c = Text!Closing(p, o)
  OBVIOUS
<1>3. /\ c \in o + 1 .. N
      /\ Text!IsClosed(p, o) <=> c # N
      /\ Text!IsClosed(p, o) => Text!IsPlain(p, c, 93)
      /\ \A k \in o + 1 .. c - 1 : ~Text!IsPlain(p, k, 93)
  BY ONLY <1>1, <1>2, ClosingFacts, p \in Patterns, o \in Nat, o < Len(p)
<1>4. q \in o + 1 .. c /\ q \in Nat
  BY <1>2, <1>3
<1>5. Text!IsPlain(p, q, 93) => q \in 0 .. N - 1
  BY <1>1 DEF Text!IsPlain, Text!Positions
<1>6. Text!IsPlain(p, q, 93) => q = c /\ Text!IsClosed(p, o)
  BY ONLY <1>3, <1>4, <1>5
<1>7. q = N => q = c /\ ~Text!IsClosed(p, o)
  BY ONLY <1>3, <1>4
<1>8. ASSUME q # N, ~Text!IsPlain(p, q, 93)
      PROVE  /\ q < c /\ Text!After(p, q) \in q + 1 .. c
             /\ Fresh(p, Text!After(p, q))
  <2>1. q < c
    BY ONLY <1>3, <1>4, <1>8
  <2>2. q # Len(p)
    BY <1>1, <1>8
  <2>3. /\ Text!At(p, q) # 92 => Text!After(p, q) = q + 1
        /\ Text!At(p, q) = 92 =>
              \/ Text!After(p, q) = q + 1
              \/ Text!After(p, q) = q + 2 /\ q + 2 <= Len(p)
        /\ Fresh(p, Text!After(p, q))
    BY <2>2, ElementFacts
  <2>4. Text!At(p, q) = 92 => Text!IsEscaped(p, q + 1)
    <3>1. ~Text!IsEscaped(p, q)
      BY <2>2 DEF Fresh
    <3> QED
      BY <3>1, <1>4, EscapedStep
  <2>5. Text!At(p, q) = 92 => ~Text!IsPlain(p, q + 1, 93)
    BY <2>4 DEF Text!IsPlain
  <2>6. q + 2 <= N /\ Text!At(p, q) = 92 => c # q + 1
    BY ONLY <1>3, <1>4, <2>5
  <2> QED
    BY ONLY <1>1, <1>3, <1>4, <2>1, <2>3, <2>6
<1>9. q \in 1 .. N
  BY ONLY <1>3, <1>4, o \in Nat
<1> QED
  BY <1>1, <1>2, <1>6, <1>7, <1>8, <1>9

\* Where its elements begin.
LEMMA BodyFacts ==
    ASSUME NEW p, NEW o \in Nat
    PROVE  Text!Body(p, o) \in o + 1 .. o + 2
BY DEF Text!Body

\* One more element has been read.
LEMMA OneMore ==
    ASSUME NEW p \in Patterns, NEW o \in Nat, o < Len(p),
           NEW q, NEW not, NEW members, ClassOK(p, o, q, not, members),
           q # Len(p), ~Text!IsPlain(p, q, 93),
           ~Text!IsIncomplete(p, q), ~Text!IsRange(p, q)
    PROVE  ClassOK(p, o, Text!After(p, q), not,
                   members \cup Text!Denoted(p, q))
<1> DEFINE M == Text!MembersFrom(p, o)
           C == Text!ComplaintFrom(p, o)
           b == Text!Body(p, o)
           c == Text!Closing(p, o)
           a == Text!After(p, q)
<1>1. /\ q \in b .. c /\ Fresh(p, q) /\ b \in o + 1 .. o + 2
      /\ c \in o + 1 .. Len(p)
      /\ Text!IsClosed(p, o) => c # b
      /\ not = Text!IsNegated(p, o)
      /\ Text!IsClosed(p, o) => members \cup M[q] = M[b]
      /\ C[q] = C[b]
  BY ClosingFacts, BodyFacts DEF ClassOK
<1>2. PICK N \in Nat : N = Len(p)
  BY PatternFacts
<1> HIDE DEF b, c, M, C, a
<1>3. q \in o + 1 .. c /\ q \in Nat /\ b \in Nat /\ c \in Nat
  BY ONLY <1>1, <1>2, o \in Nat
<1>4. q < c /\ a \in q + 1 .. c /\ Fresh(p, a) /\ q \in 1 .. Len(p)
  BY <1>1, <1>3, Within DEF c, a
<1>5. q \in 1 .. Len(p) + 1 /\ ~(q >= c)
  BY ONLY <1>1, <1>2, <1>3, <1>4
<1>6. M[q] = Text!Denoted(p, q) \cup M[a]
  <2>1. M[q] = MembersStep(p, o, q, M)
    BY <1>5, MembersEquation DEF M
  <2> QED
    BY <2>1, <1>5 DEF MembersStep, c, a
<1>7. C[q] = C[a]
  <2>1. C[q] = ComplaintStep(p, o, q, C)
    BY <1>5, ComplaintEquation DEF C
  <2> QED
    BY <2>1, <1>5 DEF ComplaintStep, c, a
<1>8. a \in b .. c
  BY ONLY <1>1, <1>3, <1>4
<1>9. Text!IsClosed(p, o) =>
        (members \cup Text!Denoted(p, q)) \cup M[a] = M[b]
  BY <1>1, <1>6
<1> QED
  BY <1>1, <1>4, <1>7, <1>8, <1>9 DEF ClassOK, M, C, a, b, c

\* One more range.
LEMMA RangeMore ==
    ASSUME NEW p \in Patterns, NEW o \in Nat, o < Len(p),
           NEW q, NEW not, NEW members, ClassOK(p, o, q, not, members),
           q # Len(p), ~Text!IsPlain(p, q, 93),
           ~Text!IsIncomplete(p, q), Text!IsRange(p, q),
           Text!IsLiteral(p, Text!RangeEnd(p, q)),
           ~(Text!Character(p, q) > Text!Character(p, Text!RangeEnd(p, q)))
    PROVE  ClassOK(p, o, Text!After(p, Text!RangeEnd(p, q)), not,
                   members \cup
                   (Chars \cap
                      (Text!Character(p, q)
                         .. Text!Character(p, Text!RangeEnd(p, q)))))
<1> DEFINE M == Text!MembersFrom(p, o)
           C == Text!ComplaintFrom(p, o)
           b == Text!Body(p, o)
           c == Text!Closing(p, o)
           h == Text!After(p, q)
           e == Text!RangeEnd(p, q)
           a == Text!After(p, e)
           S == Chars \cap (Text!Character(p, q) .. Text!Character(p, e))
<1>1. /\ q \in b .. c /\ Fresh(p, q) /\ b \in o + 1 .. o + 2
      /\ c \in o + 1 .. Len(p)
      /\ Text!IsClosed(p, o) => c # b
      /\ not = Text!IsNegated(p, o)
      /\ Text!IsClosed(p, o) => members \cup M[q] = M[b]
      /\ C[q] = C[b]
  BY ClosingFacts, BodyFacts DEF ClassOK
<1>2. PICK N \in Nat : N = Len(p)
  BY PatternFacts
<1> HIDE DEF b, c, M, C, a, e, h, S
<1>3. q \in o + 1 .. c /\ q \in Nat /\ b \in Nat /\ c \in Nat
  BY ONLY <1>1, <1>2, o \in Nat
<1>4. q < c /\ h \in q + 1 .. c /\ Fresh(p, h) /\ q \in 1 .. Len(p)
  BY <1>1, <1>3, Within DEF c, h
<1>5. Text!IsPlain(p, h, 45) /\ ~Text!IsPlain(p, e, 93) /\ e = h + 1
  BY DEF Text!IsRange, Text!RangeEnd, h, e
<1>6. h # Len(p) /\ ~Text!IsPlain(p, h, 93) /\ Text!At(p, h) = 45
  <2>1. Text!At(p, h) = 45 /\ h \in 0 .. N - 1
    BY <1>5, <1>2 DEF Text!IsPlain, Text!Positions
  <2> QED
    BY <2>1, <1>2 DEF Text!IsPlain
<1>7. Text!After(p, h) = e
  BY <1>4, <1>5, <1>6, ElementFacts
<1>8. e \in h + 1 .. c /\ Fresh(p, e)
  <2>1. h \in o + 1 .. c
    BY ONLY <1>3, <1>4, o \in Nat
  <2>2. h \in o + 1 .. Text!Closing(p, o)
    BY <2>1 DEF c
  <2> QED
    BY <2>2, <1>4, <1>6, <1>7, Within DEF c
<1>9. e # Len(p)
  BY EndFacts DEF e
<1>10. a \in e + 1 .. c /\ Fresh(p, a)
  <2>1. e \in o + 1 .. c
    BY ONLY <1>3, <1>4, <1>8, o \in Nat
  <2>2. e \in o + 1 .. Text!Closing(p, o)
    BY <2>1 DEF c
  <2> QED
    BY <2>2, <1>5, <1>8, <1>9, Within DEF c, a
<1>11. q \in 1 .. Len(p) + 1 /\ ~(q >= c)
  BY ONLY <1>1, <1>2, <1>3, <1>4
<1>12. M[q] = S \cup M[a]
  <2>1. M[q] = MembersStep(p, o, q, M)
    BY <1>11, MembersEquation DEF M
  <2> QED
    BY <2>1, <1>11 DEF MembersStep, c, a, e, S
<1>13. C[q] = C[a]
  <2>1. C[q] = ComplaintStep(p, o, q, C)
    BY <1>11, ComplaintEquation DEF C
  <2> QED
    BY <2>1, <1>11 DEF ComplaintStep, c, a, e
<1>14. a \in b .. c
  BY ONLY <1>1, <1>3, <1>4, <1>8, <1>10
<1>15. Text!IsClosed(p, o) => (members \cup S) \cup M[a] = M[b]
  BY <1>1, <1>12
<1>16. ClassOK(p, o, a, not, members \cup S)
  BY <1>1, <1>10, <1>13, <1>14, <1>15 DEF ClassOK, M, C, b, c
<1> QED
  BY <1>16 DEF a, e, S

\* What is wrong at an opening bracket is what is wrong with the class.
LEMMA ComplaintOfClass ==
    ASSUME NEW p, NEW o, Text!IsPlain(p, o, 91)
    PROVE  Text!Complaint(p, o) = Text!ClassComplaint(p, o)
<1>1. ~Text!IsPlain(p, o, 93) /\ ~Text!IsPlain(p, o, 123)
      /\ ~Text!IsPlain(p, o, 125) /\ ~Text!IsIncomplete(p, o)
  BY DEF Text!IsPlain, Text!IsIncomplete, Text!IsEscape
<1> QED
  BY <1>1, ZenonT(60) DEF Text!Complaint

\* What is wrong with the class is what is wrong with the elements not read.
LEMMA ClassComplaints ==
    ASSUME NEW p \in Patterns, NEW o, Text!IsPlain(p, o, 91),
           NEW q, NEW not, NEW members, ClassOK(p, o, q, not, members)
    PROVE  Text!Complaint(p, o) = Text!ComplaintFrom(p, o)[q]
  BY ComplaintOfClass DEF ClassOK, Text!ClassComplaint
-----------------------------------------------------------------------------
(* Steps.                                                                  *)

\* What the lexer gives is of the right type.
LEMMA SeenFacts ==
    ASSUME NEW p \in Patterns, NEW k, Fresh(p, k), NEW mode \in BOOLEAN
    PROVE  /\ Seen(p, k, mode).lexer.position \in 0 .. Len(p)
           /\ Seen(p, k, mode).lexer.in_character_class \in BOOLEAN
           /\ Seen(p, k, mode).token.position = k
           /\ Seen(p, k, mode).token.type \in TokenType
           /\ [token |-> Seen(p, k, mode).token,
               lexer |-> Seen(p, k, mode).lexer] = Seen(p, k, mode)
<1>1. PICK N \in Nat : N = Len(p)
  BY PatternFacts
<1>2. PICK s : s = Seen(p, k, mode)
  OBVIOUS
<1>3. CASE k = Len(p)
  <2>1. s = [token |-> make_token("END", 0, Len(p)),
             lexer |-> LexerAt(Len(p), mode)]
    BY <1>2, <1>3, LexerEnds
  <2>2. s = [token |-> make_token("END", 0, N), lexer |-> LexerAt(N, mode)]
    BY ONLY <2>1, <1>1
  <2>3. [token |-> s.token, lexer |-> s.lexer] = s
        /\ s.lexer = LexerAt(N, mode)
    BY ONLY <2>2
  <2>4. s.lexer.position \in 0 .. N /\ s.lexer.in_character_class \in BOOLEAN
    BY ONLY <2>3, mode \in BOOLEAN, N \in Nat DEF LexerAt
  <2>5. s.token.position = k /\ s.token.type \in TokenType
    <3>1. s.token = make_token("END", 0, k)
      BY ONLY <2>2, <1>1, <1>3
    <3> QED
      BY ONLY <3>1 DEF make_token, TokenType
  <2> QED
    BY ONLY <2>3, <2>4, <2>5, <1>1, <1>2
<1>4. CASE k # Len(p)
  <2>1. PICK next \in BOOLEAN : s.lexer = LexerAt(Text!After(p, k), next)
    <3>1. s.lexer = LexerAt(Text!After(p, k),
                            IF mode THEN ~Text!IsPlain(p, k, 93)
                            ELSE Text!IsPlain(p, k, 91))
      BY <1>2, <1>4, LexerMoves
    <3>2. (IF mode THEN ~Text!IsPlain(p, k, 93)
           ELSE Text!IsPlain(p, k, 91)) \in BOOLEAN
      BY DEF Text!IsPlain
    <3> QED
      BY ONLY <3>1, <3>2
  <2>2. [token |-> s.token, lexer |-> s.lexer] = s
    BY <1>2, <1>4, LexerMoves
  <2>3. Text!After(p, k) \in 0 .. Len(p)
    BY <1>4, ElementFacts DEF Fresh
  <2>4. s.lexer.position \in 0 .. N /\ s.lexer.in_character_class \in BOOLEAN
    BY ONLY <2>1, <2>3, <1>1 DEF LexerAt
  <2>5. s.token.position = k /\ s.token.type \in TokenType
    <3>1. CASE mode = TRUE
      <4>1. Reads(p, k, s.token)
        BY <3>1, <1>2, InsideToken
      <4> QED
        BY ONLY <4>1 DEF Reads
    <3>2. CASE mode = FALSE
      <4>1. PICK to : Stands(p, k, s.token, to)
        BY <3>2, <1>2, OutsideToken
      <4> QED
        BY ONLY <4>1 DEF Stands
    <3> QED
      BY <3>1, <3>2
  <2> QED
    BY ONLY <2>2, <2>4, <2>5, <1>1, <1>2
<1> QED
  BY <1>3, <1>4

\* Inside of a class, up to its end.
LEMMA LexerInside ==
    ASSUME NEW p \in Patterns, NEW k, Fresh(p, k), k # Len(p),
           ~Text!IsPlain(p, k, 93)
    PROVE  lexer_next(p, Seen(p, k, TRUE).lexer) =
              Seen(p, Text!After(p, k), TRUE)
<1>1. Seen(p, k, TRUE).lexer =
        LexerAt(Text!After(p, k), ~Text!IsPlain(p, k, 93))
  <2>1. Seen(p, k, TRUE).lexer =
          LexerAt(Text!After(p, k),
                  IF TRUE THEN ~Text!IsPlain(p, k, 93)
                  ELSE Text!IsPlain(p, k, 91))
    BY LexerMoves
  <2> QED
    BY ONLY <2>1
<1>2. (~Text!IsPlain(p, k, 93)) = TRUE
  BY DEF Text!IsPlain
<1> QED
  BY <1>1, <1>2 DEF Seen

\* No terminal is added.
LEMMA KeepStep ==
    ASSUME ResultOK, pc # "end", pc' # "end",
           pattern' = pattern, result' = result
    PROVE  ResultOK' /\ Covered' = Covered
BY DEF ResultOK, Covered

\* One terminal is added.
LEMMA EmitStep ==
    ASSUME ResultOK, pc # "end", pattern' = pattern, NEW r \in ParserToken,
           result' = Append(result, r), r.from = Covered,
           r = Text!TokenAt(pattern, Covered),
           Text!Complaint(pattern, Covered) = Text!Complete,
           r.terminal \in Syntax!Kinds \ {"ERROR"},
           r.terminal = "END" <=> pc' = "end"
    PROVE  ResultOK' /\ Covered' = r.to
<1>1. result \in Seq(ParserToken)
  BY DEF ResultOK
<1>2. PICK N \in Nat : N = Len(result)
  BY <1>1
<1>3. /\ result' \in Seq(ParserToken) /\ Len(result') = N + 1
      /\ DOMAIN result' = 1 .. N + 1 /\ DOMAIN result = 1 .. N
      /\ \A i \in 1 .. N : result'[i] = result[i]
      /\ result'[N + 1] = r
  BY <1>1, <1>2
<1>4. Covered = IF N = 0 THEN 0 ELSE result[N].to
  BY <1>1, <1>2 DEF Covered
<1>5. result' # <<>> /\ Covered' = r.to
  BY <1>3 DEF Covered
<1>6. ASSUME NEW i \in 1 .. N + 1
      PROVE  /\ result'[i] = Text!TokenAt(pattern, result'[i].from)
             /\ Text!Complaint(pattern, result'[i].from) = Text!Complete
             /\ result'[i].from = IF i = 1 THEN 0 ELSE result'[i - 1].to
             /\ result'[i].terminal = "END" <=> pc' = "end" /\ i = N + 1
  <2>1. CASE i = N + 1
    <3>1. i # 1 => i - 1 = N /\ N \in 1 .. N /\ N # 0
      BY <2>1
    <3>2. result'[i] = r
      BY <2>1, <1>3
    <3>3. r.from = IF i = 1 THEN 0 ELSE result'[i - 1].to
      BY <3>1, <2>1, <1>3, <1>4
    <3> QED
      BY <3>2, <3>3, <2>1
  <2>2. CASE i # N + 1
    <3>1. i \in 1 .. N /\ (i # 1 => i - 1 \in 1 .. N) /\ i \in DOMAIN result
      BY <2>2, <1>3
    <3>2. /\ result[i] = Text!TokenAt(pattern, result[i].from)
          /\ Text!Complaint(pattern, result[i].from) = Text!Complete
          /\ result[i].from = IF i = 1 THEN 0 ELSE result[i - 1].to
          /\ result[i].terminal # "END"
      BY <3>1 DEF ResultOK
    <3> QED
      BY <3>1, <3>2, <2>2, <1>3
  <2> QED
    BY <2>1, <2>2
<1>7. ResultOK'
  BY <1>3, <1>5, <1>6 DEF ResultOK
<1> QED
  BY <1>5, <1>7

\* The state in a class, at the token of its element at q.
LEMMA ItemFacts ==
    ASSUME IInv, pc = "item", NEW q, q = current.position
    PROVE  /\ pattern \in Patterns /\ opening \in Nat
           /\ opening < Len(pattern) /\ opening = Covered
           /\ Fresh(pattern, opening) /\ Text!IsPlain(pattern, opening, 91)
           /\ ClassOK(pattern, opening, q, negated, set)
           /\ q \in opening + 1 .. Text!Closing(pattern, opening)
           /\ q \in 1 .. Len(pattern) /\ Fresh(pattern, q)
           /\ Reads(pattern, q, current)
           /\ lexer = Seen(pattern, q, TRUE).lexer
           /\ set \subseteq Chars
           /\ q # Len(pattern) /\ ~Text!IsPlain(pattern, q, 93) =>
                 /\ q < Text!Closing(pattern, opening)
                 /\ Fresh(pattern, Text!After(pattern, q))
                 /\ Text!After(pattern, q) \in
                       q + 1 .. Text!Closing(pattern, opening)
                 /\ Next1 = Seen(pattern, Text!After(pattern, q), TRUE)
<1>1. /\ pattern \in Patterns /\ opening = Covered
      /\ Fresh(pattern, opening) /\ Text!IsPlain(pattern, opening, 91)
      /\ ClassOK(pattern, opening, q, negated, set)
      /\ [token |-> current, lexer |-> lexer] = Seen(pattern, q, TRUE)
      /\ set \subseteq Chars
  BY DEF IInv, ModeOK, TypeOK
<1>2. PICK N \in Nat : N = Len(pattern)
  BY <1>1, PatternFacts
<1>3. opening \in Nat /\ opening < N
  BY <1>1, <1>2 DEF Text!IsPlain, Text!Positions
<1>4. /\ q \in Text!Body(pattern, opening) .. Text!Closing(pattern, opening)
      /\ Fresh(pattern, q)
  BY <1>1 DEF ClassOK
<1>5. opening < Len(pattern)
  BY <1>2, <1>3
<1>6. /\ Text!Body(pattern, opening) \in opening + 1 .. opening + 2
      /\ Text!Closing(pattern, opening) \in opening + 1 .. Len(pattern)
  BY <1>1, <1>3, <1>5, BodyFacts, ClosingFacts
<1>7. q \in opening + 1 .. Text!Closing(pattern, opening)
  BY ONLY <1>2, <1>3, <1>4, <1>6
<1>8. /\ q \in 1 .. Len(pattern)
      /\ q # Len(pattern) /\ ~Text!IsPlain(pattern, q, 93) =>
            /\ q < Text!Closing(pattern, opening)
            /\ Fresh(pattern, Text!After(pattern, q))
            /\ Text!After(pattern, q) \in
                  q + 1 .. Text!Closing(pattern, opening)
  BY <1>1, <1>3, <1>4, <1>5, <1>7, Within
<1>9. current = Seen(pattern, q, TRUE).token
      /\ lexer = Seen(pattern, q, TRUE).lexer
  <2>1. PICK s : s = Seen(pattern, q, TRUE)
    OBVIOUS
  <2>2. s = [token |-> current, lexer |-> lexer]
    BY <1>1, <2>1
  <2>3. s.token = current /\ s.lexer = lexer
    BY ONLY <2>2
  <2> QED
    BY <2>1, <2>3
<1>10. Reads(pattern, q, current)
  BY <1>1, <1>4, <1>9, InsideToken
<1>11. q # Len(pattern) /\ ~Text!IsPlain(pattern, q, 93) =>
          Next1 = Seen(pattern, Text!After(pattern, q), TRUE)
  BY <1>1, <1>4, <1>9, LexerInside DEF Next1
<1> QED
  BY <1>1, <1>3, <1>4, <1>5, <1>7, <1>8, <1>9, <1>10, <1>11

\* The next token of the class is the current one.
LEMMA ItemStep ==
    ASSUME IInv, pc \in {"open", "item"}, pc' = "item",
           pattern' = pattern, result' = result, opening' = opening,
           NEW k, Fresh(pattern, k),
           Take(Seen(pattern, k, TRUE)),
           ClassOK(pattern, opening, k, negated', set'),
           set' \subseteq Chars, negated' \in BOOLEAN
    PROVE  IInv'
<1>1. pattern \in Patterns /\ ResultOK /\ ModeOK
  BY DEF IInv, TypeOK
<1>2. ResultOK' /\ Covered' = Covered
  BY <1>1, KeepStep
<1>3. PICK s : s = Seen(pattern, k, TRUE)
  OBVIOUS
<1>4. current' = s.token /\ lexer' = s.lexer
  BY <1>3 DEF Take
<1>5. /\ s.lexer.position \in 0 .. Len(pattern)
      /\ s.lexer.in_character_class \in BOOLEAN
      /\ s.token.position = k
      /\ s.token.type \in TokenType
      /\ [token |-> s.token, lexer |-> s.lexer] = s
  BY <1>1, <1>3, SeenFacts
<1>6. TypeOK'
  <2>1. result' \in Seq(ParserToken)
    BY <1>2 DEF ResultOK
  <2>2. TypeOK
    BY DEF IInv
  <2> QED
    BY <2>1, <2>2, <1>4, <1>5 DEF TypeOK
<1>7. /\ opening = Covered
      /\ Fresh(pattern, opening) /\ Text!IsPlain(pattern, opening, 91)
  BY <1>1 DEF ModeOK
<1>8. /\ [token |-> current', lexer |-> lexer'] =
            Seen(pattern', current'.position, TRUE)
      /\ ClassOK(pattern', opening', current'.position, negated', set')
  BY <1>3, <1>4, <1>5
<1>9. ModeOK'
  BY <1>2, <1>7, <1>8 DEF ModeOK
<1> QED
  BY <1>2, <1>6, <1>9 DEF IInv

\* The pattern is refused.
LEMMA FailStep ==
    ASSUME IInv, pc # "end", pc' = "failed",
           pattern' = pattern, result' = result, set' = set,
           negated' = negated,
           <<position', error'>> = Text!Complaint(pattern, Covered),
           current'.type \in TokenType,
           lexer'.position \in 0 .. Len(pattern),
           lexer'.in_character_class \in BOOLEAN
    PROVE  IInv'
<1>1. ResultOK' /\ Covered' = Covered
  BY KeepStep DEF IInv
<1>2. TypeOK'
  BY DEF IInv, TypeOK
<1>3. ModeOK'
  BY <1>1 DEF ModeOK
<1> QED
  BY <1>1, <1>2, <1>3 DEF IInv

\* A shorthand of a class.
LEMMA AddShorthandStep ==
    ASSUME IInv, AddShorthand
    PROVE  IInv'
<1>1. PICK q : q = current.position
  OBVIOUS
<1>2. PICK a : a = Text!After(pattern, q)
  OBVIOUS
<1>3. pc = "item" /\ pc' = pc /\ current.type \in Shorthands
      /\ set' = set \cup Shorthand(current.type) /\ Take(Next1)
      /\ pattern' = pattern /\ result' = result /\ opening' = opening
      /\ negated' = negated
  BY DEF AddShorthand, Add, fault
<1>4. /\ pattern \in Patterns /\ opening \in Nat
      /\ opening < Len(pattern)
      /\ ClassOK(pattern, opening, q, negated, set)
      /\ Reads(pattern, q, current)
      /\ set \subseteq Chars
      /\ q # Len(pattern) /\ ~Text!IsPlain(pattern, q, 93) =>
            Fresh(pattern, a) /\ Next1 = Seen(pattern, a, TRUE)
  BY <1>1, <1>2, <1>3, ItemFacts
<1>5. /\ q # Len(pattern) /\ ~Text!IsPlain(pattern, q, 93)
      /\ ~Text!IsIncomplete(pattern, q) /\ Text!IsShorthand(pattern, q)
      /\ Text!Denoted(pattern, q) = Shorthand(current.type)
  BY ONLY <1>3, <1>4 DEF Reads, Shorthands
<1>6. ~Text!IsRange(pattern, q)
  BY <1>5 DEF Text!IsRange
<1>7. ClassOK(pattern, opening, a, negated', set')
  <2>1. ClassOK(pattern, opening, Text!After(pattern, q), negated,
                set \cup Text!Denoted(pattern, q))
    BY <1>4, <1>5, <1>6, OneMore
  <2> QED
    BY <2>1, <1>2, <1>3, <1>5
<1>8. set' \subseteq Chars /\ negated' \in BOOLEAN
  <2>1. Text!Denoted(pattern, q) \subseteq Chars
    BY DEF Text!Denoted
  <2>2. negated \in BOOLEAN
    BY DEF IInv, TypeOK
  <2> QED
    BY <2>1, <2>2, <1>3, <1>4, <1>5
<1>9. Take(Seen(pattern, a, TRUE)) /\ Fresh(pattern, a)
  BY <1>3, <1>4, <1>5
<1> QED
  BY <1>3, <1>7, <1>8, <1>9, ItemStep

\* A character of a class.
LEMMA AddCharacterStep ==
    ASSUME IInv, AddCharacter
    PROVE  IInv'
<1>1. PICK q : q = current.position
  OBVIOUS
<1>2. PICK a : a = Text!After(pattern, q)
  OBVIOUS
<1>3. pc = "item" /\ pc' = pc /\ IsRaw(current)
      /\ Next1.token.type # "DASH"
      /\ set' = set \cup {current.character} /\ Take(Next1)
      /\ pattern' = pattern /\ result' = result /\ opening' = opening
      /\ negated' = negated
  BY DEF AddCharacter, Add, fault
<1>4. /\ pattern \in Patterns /\ opening \in Nat
      /\ opening < Len(pattern)
      /\ ClassOK(pattern, opening, q, negated, set)
      /\ Reads(pattern, q, current)
      /\ set \subseteq Chars
      /\ q # Len(pattern) /\ ~Text!IsPlain(pattern, q, 93) =>
            Fresh(pattern, a) /\ Next1 = Seen(pattern, a, TRUE)
  BY <1>1, <1>2, <1>3, ItemFacts
<1>5. /\ q # Len(pattern) /\ ~Text!IsPlain(pattern, q, 93)
      /\ ~Text!IsIncomplete(pattern, q)
      /\ Text!Denoted(pattern, q) = {current.character}
      /\ current.character \in Chars
  BY ONLY <1>3, <1>4 DEF Reads, Text!IsLiteral
<1>6. ~Text!IsRange(pattern, q)
  <2>1. Reads(pattern, a, Next1.token)
    BY <1>4, <1>5, InsideToken
  <2>2. ~Text!IsPlain(pattern, a, 45)
    BY ONLY <2>1, <1>3 DEF Reads
  <2> QED
    BY <2>2, <1>2 DEF Text!IsRange
<1>7. ClassOK(pattern, opening, a, negated', set')
  <2>1. ClassOK(pattern, opening, Text!After(pattern, q), negated,
                set \cup Text!Denoted(pattern, q))
    BY <1>4, <1>5, <1>6, OneMore
  <2> QED
    BY <2>1, <1>2, <1>3, <1>5
<1>8. set' \subseteq Chars /\ negated' \in BOOLEAN
  <2>1. negated \in BOOLEAN
    BY DEF IInv, TypeOK
  <2> QED
    BY <2>1, <1>3, <1>4, <1>5
<1>9. Take(Seen(pattern, a, TRUE)) /\ Fresh(pattern, a)
  BY <1>3, <1>4, <1>5
<1> QED
  BY <1>3, <1>7, <1>8, <1>9, ItemStep

\* The state in a class, at a character with a hyphen behind it: the character
\* is at q, the hyphen at h, and what follows at e.
HyphenState(q, h, e) ==
    /\ pattern \in Patterns /\ opening \in Nat
    /\ opening < Len(pattern) /\ opening = Covered
    /\ Text!IsPlain(pattern, opening, 91)
    /\ ClassOK(pattern, opening, q, negated, set)
    /\ set \subseteq Chars /\ negated \in BOOLEAN
    /\ q \in 1 .. Len(pattern)
    /\ q # Len(pattern) /\ ~Text!IsPlain(pattern, q, 93)
    /\ q < Text!Closing(pattern, opening)
    /\ ~Text!IsIncomplete(pattern, q)
    /\ current.character \in Chars
    /\ Text!Denoted(pattern, q) = {current.character}
    /\ Text!Character(pattern, q) = current.character
    /\ h # Len(pattern) /\ ~Text!IsPlain(pattern, h, 93)
    /\ ~Text!IsIncomplete(pattern, h)
    /\ Text!Denoted(pattern, h) = {HYPHEN} /\ HYPHEN \in Chars
    /\ e = Text!After(pattern, h) /\ Fresh(pattern, e)
    /\ Next2 = Seen(pattern, e, TRUE)
    /\ Reads(pattern, e, Next2.token)
    /\ Text!IsRange(pattern, q) <=> ~Text!IsPlain(pattern, e, 93)
    /\ Text!IsPlain(pattern, e, 93) => ~Text!IsRange(pattern, h)

\* That state is reached.
LEMMA HyphenFacts ==
    ASSUME IInv, pc = "item", IsRaw(current), Next1.token.type = "DASH"
    PROVE  HyphenState(current.position,
                       Text!After(pattern, current.position),
                       Text!RangeEnd(pattern, current.position))
<1> PICK q : q = current.position
  OBVIOUS
<1> PICK h : h = Text!After(pattern, q)
  OBVIOUS
<1> PICK e : e = Text!RangeEnd(pattern, q)
  OBVIOUS
<1> SUFFICES HyphenState(q, h, e)
  OBVIOUS
<1>1. /\ pattern \in Patterns /\ opening \in Nat
      /\ opening < Len(pattern) /\ opening = Covered
      /\ Text!IsPlain(pattern, opening, 91)
      /\ ClassOK(pattern, opening, q, negated, set)
      /\ q \in 1 .. Len(pattern) /\ Reads(pattern, q, current)
      /\ set \subseteq Chars
      /\ q # Len(pattern) /\ ~Text!IsPlain(pattern, q, 93) =>
            /\ q < Text!Closing(pattern, opening)
            /\ Fresh(pattern, h)
            /\ Next1 = Seen(pattern, h, TRUE)
  BY ItemFacts
<1>2. /\ q # Len(pattern) /\ ~Text!IsPlain(pattern, q, 93)
      /\ ~Text!IsIncomplete(pattern, q) /\ ~Text!IsShorthand(pattern, q)
      /\ Text!Denoted(pattern, q) = {current.character}
      /\ Text!Character(pattern, q) = current.character
      /\ current.character \in Chars
  BY ONLY <1>1, IsRaw(current) DEF Reads, Text!IsLiteral
<1>3. Fresh(pattern, h) /\ Next1 = Seen(pattern, h, TRUE)
      /\ q < Text!Closing(pattern, opening)
  BY ONLY <1>1, <1>2
<1>4. Text!IsPlain(pattern, h, 45)
  <2>1. Reads(pattern, h, Next1.token)
    BY <1>1, <1>3, InsideToken
  <2> QED
    BY ONLY <2>1, Next1.token.type = "DASH" DEF Reads
<1>5. h # Len(pattern)
  BY <1>1, <1>4, EndFacts
<1>6. /\ Text!At(pattern, h) = 45 /\ Text!At(pattern, h) \in Chars
      /\ ~Text!IsPlain(pattern, h, 93)
      /\ Text!After(pattern, h) = h + 1
      /\ Fresh(pattern, Text!After(pattern, h))
  <2>1. Text!At(pattern, h) = 45
    BY <1>4 DEF Text!IsPlain
  <2>2. ~Text!IsPlain(pattern, h, 93)
    BY <2>1 DEF Text!IsPlain
  <2> QED
    BY <2>1, <2>2, <1>1, <1>3, <1>5, ElementFacts
<1>7. e = Text!After(pattern, h)
  BY <1>6 DEF Text!RangeEnd
<1>8. Fresh(pattern, e)
  BY ONLY <1>6, <1>7
<1>9. ~Text!IsIncomplete(pattern, h) /\ Text!Denoted(pattern, h) = {HYPHEN}
      /\ HYPHEN \in Chars
  BY <1>1, <1>3, <1>5, <1>6, PlainFacts DEF HYPHEN
<1>10. Next2 = Seen(pattern, e, TRUE)
  <2>1. lexer_next(pattern, Seen(pattern, h, TRUE).lexer) =
           Seen(pattern, Text!After(pattern, h), TRUE)
    BY <1>1, <1>3, <1>5, <1>6, LexerInside
  <2> QED
    BY <2>1, <1>3, <1>7, Zenon DEF Next2
<1>11. Reads(pattern, e, Next2.token)
  BY <1>1, <1>8, <1>10, InsideToken
<1>12. Text!IsRange(pattern, q) <=> ~Text!IsPlain(pattern, e, 93)
  BY <1>2, <1>4 DEF Text!IsRange
<1>13. Text!IsPlain(pattern, e, 93) => ~Text!IsRange(pattern, h)
  <2>1. Text!IsPlain(pattern, e, 93) => ~Text!IsPlain(pattern, e, 45)
    BY DEF Text!IsPlain
  <2> QED
    BY <2>1, <1>7 DEF Text!IsRange
<1>14. negated \in BOOLEAN
  BY DEF IInv, TypeOK
<1> QED
  BY ONLY <1>1, <1>2, <1>3, <1>5, <1>6, <1>7, <1>8, <1>9, <1>10, <1>11, <1>12,
          <1>13, <1>14 DEF HyphenState

\* A character of a class, and a hyphen before its end.
LEMMA AddHyphenStep ==
    ASSUME IInv, AddHyphen
    PROVE  IInv'
<1>1. PICK q : q = current.position
  OBVIOUS
<1>2. PICK h : h = Text!After(pattern, q)
  OBVIOUS
<1>3. PICK e : e = Text!RangeEnd(pattern, q)
  OBVIOUS
<1>4. pc = "item" /\ pc' = pc /\ IsRaw(current)
      /\ Next1.token.type = "DASH" /\ Next2.token.type = "RBRACKET"
      /\ set' = set \cup ({current.character, HYPHEN} \cap Chars)
      /\ Take(Next2)
      /\ pattern' = pattern /\ result' = result /\ opening' = opening
      /\ negated' = negated
  BY DEF AddHyphen, Add, fault, lexer_peek, Next2
<1>5. /\ pattern \in Patterns /\ opening \in Nat
      /\ opening < Len(pattern)
      /\ ClassOK(pattern, opening, q, negated, set)
      /\ set \subseteq Chars /\ negated \in BOOLEAN
      /\ q # Len(pattern) /\ ~Text!IsPlain(pattern, q, 93)
      /\ ~Text!IsIncomplete(pattern, q)
      /\ current.character \in Chars
      /\ Text!Denoted(pattern, q) = {current.character}
      /\ h # Len(pattern) /\ ~Text!IsPlain(pattern, h, 93)
      /\ ~Text!IsIncomplete(pattern, h)
      /\ Text!Denoted(pattern, h) = {HYPHEN} /\ HYPHEN \in Chars
      /\ e = Text!After(pattern, h) /\ Fresh(pattern, e)
      /\ Next2 = Seen(pattern, e, TRUE)
      /\ Reads(pattern, e, Next2.token)
      /\ Text!IsRange(pattern, q) <=> ~Text!IsPlain(pattern, e, 93)
      /\ Text!IsPlain(pattern, e, 93) => ~Text!IsRange(pattern, h)
  <2>1. HyphenState(q, h, e)
    BY <1>1, <1>2, <1>3, <1>4, HyphenFacts
  <2> QED
    BY ONLY <2>1 DEF HyphenState
<1>6. Text!IsPlain(pattern, e, 93)
  BY ONLY <1>4, <1>5 DEF Reads
<1>7. ClassOK(pattern, opening, h, negated, set \cup {current.character})
  <2>1. ~Text!IsRange(pattern, q)
    BY <1>5, <1>6
  <2>2. ClassOK(pattern, opening, Text!After(pattern, q), negated,
                set \cup Text!Denoted(pattern, q))
    BY <2>1, <1>5, OneMore
  <2> QED
    BY <2>2, <1>2, <1>5
<1>8. ClassOK(pattern, opening, e, negated,
              (set \cup {current.character}) \cup {HYPHEN})
  <2>1. ~Text!IsRange(pattern, h)
    BY <1>5, <1>6
  <2>2. ClassOK(pattern, opening, Text!After(pattern, h), negated,
                (set \cup {current.character}) \cup Text!Denoted(pattern, h))
    BY <2>1, <1>5, <1>7, OneMore
  <2> QED
    BY <2>2, <1>5
<1>9. set' = (set \cup {current.character}) \cup {HYPHEN}
      /\ set' \subseteq Chars /\ negated' \in BOOLEAN
  BY ONLY <1>4, <1>5
<1>10. ClassOK(pattern, opening, e, negated', set')
  BY <1>4, <1>8, <1>9
<1>11. Take(Seen(pattern, e, TRUE)) /\ Fresh(pattern, e)
  BY <1>4, <1>5
<1> QED
  BY <1>4, <1>9, <1>10, <1>11, ItemStep

\* A range of a class.
LEMMA AddRangeStep ==
    ASSUME IInv, AddRange
    PROVE  IInv'
<1>1. PICK q : q = current.position
  OBVIOUS
<1>2. PICK h : h = Text!After(pattern, q)
  OBVIOUS
<1>3. PICK e : e = Text!RangeEnd(pattern, q)
  OBVIOUS
<1>4. PICK a : a = Text!After(pattern, e)
  OBVIOUS
<1>5. pc = "item" /\ pc' = pc /\ IsRaw(current)
      /\ Next1.token.type = "DASH" /\ IsRaw(Next2.token)
      /\ current.character <= Next2.token.character
      /\ set' = set \cup Range(current.character, Next2.token.character)
      /\ Take(Next3)
      /\ pattern' = pattern /\ result' = result /\ opening' = opening
      /\ negated' = negated
  BY DEF AddRange, Add, fault
<1>6. /\ pattern \in Patterns /\ opening \in Nat
      /\ opening < Len(pattern)
      /\ ClassOK(pattern, opening, q, negated, set)
      /\ set \subseteq Chars /\ negated \in BOOLEAN
      /\ q # Len(pattern) /\ ~Text!IsPlain(pattern, q, 93)
      /\ ~Text!IsIncomplete(pattern, q)
      /\ current.character \in Chars
      /\ Text!Character(pattern, q) = current.character
      /\ Fresh(pattern, e)
      /\ Next2 = Seen(pattern, e, TRUE)
      /\ Reads(pattern, e, Next2.token)
      /\ Text!IsRange(pattern, q) <=> ~Text!IsPlain(pattern, e, 93)
  <2>1. HyphenState(q, h, e)
    BY <1>1, <1>2, <1>3, <1>5, HyphenFacts
  <2> QED
    BY ONLY <2>1 DEF HyphenState
<1>7. /\ ~Text!IsPlain(pattern, e, 93) /\ Text!IsLiteral(pattern, e)
      /\ Next2.token.character \in Chars
      /\ Text!Character(pattern, e) = Next2.token.character
  BY ONLY <1>5, <1>6 DEF Reads
<1>8. e # Len(pattern)
  BY <1>7 DEF Text!IsLiteral
<1>9. Next3 = Seen(pattern, a, TRUE) /\ Fresh(pattern, a)
  <2>1. lexer_next(pattern, Seen(pattern, e, TRUE).lexer) =
           Seen(pattern, Text!After(pattern, e), TRUE)
    BY <1>6, <1>7, <1>8, LexerInside
  <2>2. Next3 = Seen(pattern, a, TRUE)
    BY <2>1, <1>4, <1>6, Zenon DEF Next3
  <2>3. Fresh(pattern, a)
    BY <1>4, <1>6, <1>8, ElementFacts
  <2> QED
    BY <2>2, <2>3
<1>10. ~(Text!Character(pattern, q) > Text!Character(pattern, e))
  <2>1. current.character \in Nat /\ Next2.token.character \in Nat
    <3>1. Chars \subseteq Nat
      BY ScannerAssumption
    <3> QED
      BY ONLY <3>1, <1>6, <1>7
  <2>2. /\ Text!Character(pattern, q) = current.character
        /\ Text!Character(pattern, e) = Next2.token.character
        /\ current.character <= Next2.token.character
    BY <1>5, <1>6, <1>7
  <2> QED
    BY ONLY <2>1, <2>2
<1>11. ClassOK(pattern, opening, a, negated',
               set \cup (Chars \cap (Text!Character(pattern, q)
                                       .. Text!Character(pattern, e))))
  <2>1. Text!IsRange(pattern, q)
    BY <1>6, <1>7
  <2>2. ClassOK(pattern, opening,
                Text!After(pattern, Text!RangeEnd(pattern, q)), negated,
                set \cup
                (Chars \cap
                   (Text!Character(pattern, q)
                      .. Text!Character(pattern, Text!RangeEnd(pattern, q)))))
    BY <2>1, <1>3, <1>6, <1>7, <1>10, RangeMore
  <2> QED
    BY <2>2, <1>3, <1>4, <1>5
<1>12. set' = set \cup (Chars \cap (Text!Character(pattern, q)
                                      .. Text!Character(pattern, e)))
       /\ set' \subseteq Chars /\ negated' \in BOOLEAN
  BY <1>5, <1>6, <1>7 DEF Range
<1>13. ClassOK(pattern, opening, a, negated', set')
  BY <1>11, <1>12
<1>14. Take(Seen(pattern, a, TRUE)) /\ Fresh(pattern, a)
  BY <1>5, <1>9
<1> QED
  BY <1>5, <1>12, <1>13, <1>14, ItemStep

\* A range that is refused.
LEMMA RefuseRangeStep ==
    ASSUME IInv, RefuseRange
    PROVE  IInv'
<1>1. PICK q : q = current.position
  OBVIOUS
<1>2. PICK h : h = Text!After(pattern, q)
  OBVIOUS
<1>3. PICK e : e = Text!RangeEnd(pattern, q)
  OBVIOUS
<1>4. PICK C : C = Text!ComplaintFrom(pattern, opening)
  OBVIOUS
<1>5. pc = "item" /\ pc' = "failed" /\ IsRaw(current)
      /\ Next1.token.type = "DASH" /\ Next2.token.type # "RBRACKET"
      /\ Take(Next2)
      /\ pattern' = pattern /\ result' = result /\ set' = set
      /\ negated' = negated
  BY DEF RefuseRange, Fail
<1>6. /\ pattern \in Patterns /\ opening \in Nat
      /\ opening < Len(pattern) /\ opening = Covered
      /\ Text!IsPlain(pattern, opening, 91)
      /\ ClassOK(pattern, opening, q, negated, set)
      /\ q \in 1 .. Len(pattern)
      /\ q < Text!Closing(pattern, opening)
      /\ ~Text!IsIncomplete(pattern, q)
      /\ Text!Character(pattern, q) = current.character
      /\ Fresh(pattern, e)
      /\ Next2 = Seen(pattern, e, TRUE)
      /\ Reads(pattern, e, Next2.token)
      /\ Text!IsRange(pattern, q) <=> ~Text!IsPlain(pattern, e, 93)
  <2>1. HyphenState(q, h, e)
    BY <1>1, <1>2, <1>3, <1>5, HyphenFacts
  <2> QED
    BY ONLY <2>1 DEF HyphenState
<1>7. /\ ~Text!IsPlain(pattern, e, 93) /\ Next2.token.position = e
      /\ IsRaw(Next2.token) <=> Text!IsLiteral(pattern, e)
      /\ IsRaw(Next2.token) =>
            Text!Character(pattern, e) = Next2.token.character
  BY ONLY <1>5, <1>6 DEF Reads
<1>8. Text!Complaint(pattern, Covered) = C[q]
  BY <1>4, <1>6, ClassComplaints
<1>9. C[q] = ComplaintStep(pattern, opening, q, C)
  <2>1. q \in 1 .. Len(pattern) + 1
    <3>1. PICK N \in Nat : N = Len(pattern)
      BY <1>6, PatternFacts
    <3> QED
      BY <1>6, <3>1
  <2> QED
    BY <2>1, <1>4, <1>6, ComplaintEquation
<1>10. ~(q >= Text!Closing(pattern, opening))
  <2>1. PICK N \in Nat : N = Len(pattern)
    BY <1>6, PatternFacts
  <2>2. Text!Closing(pattern, opening) \in opening + 1 .. Len(pattern)
    BY <1>6, ClosingFacts
  <2> QED
    BY ONLY <2>1, <2>2, <1>6
<1>11. <<position', error'>> = Text!Complaint(pattern, Covered)
  <2>1. CASE ~IsRaw(Next2.token)
    <3>1. <<position', error'>> =
            <<e, "range endpoint must be a literal character">>
      BY <2>1, <1>7 DEF RefuseRange, Fail
    <3> QED
      BY <2>1, <3>1, <1>3, <1>6, <1>7, <1>8, <1>9, <1>10 DEF ComplaintStep
  <2>2. CASE IsRaw(Next2.token)
    <3>1. <<position', error'>> = <<q, "character range is reversed">>
          /\ current.character > Next2.token.character
      BY <2>2, <1>1 DEF RefuseRange, Fail
    <3> QED
      BY <2>2, <3>1, <1>3, <1>6, <1>7, <1>8, <1>9, <1>10 DEF ComplaintStep
  <2> QED
    BY <2>1, <2>2
<1>12. /\ current'.type \in TokenType
       /\ lexer'.position \in 0 .. Len(pattern)
       /\ lexer'.in_character_class \in BOOLEAN
  BY <1>5, <1>6, SeenFacts DEF Take
<1> QED
  BY <1>5, <1>11, <1>12, FailStep

\* The token of a class.
LEMMA TokenOfClass ==
    ASSUME NEW p, NEW o, o # Len(p), Text!IsPlain(p, o, 91)
    PROVE  Text!TokenAt(p, o) =
             [terminal |-> "CLASS", chars |-> Text!Members(p, o),
              from     |-> o,
              to       |-> o + (Text!Closing(p, o) - o + 1)]
<1>1. \A name \in DOMAIN Text!Operators :
         ~Text!IsPlain(p, o, Text!Operators[name])
  <2>1. \A name \in DOMAIN Text!Operators : Text!Operators[name] # 91
    BY DEF Text!Operators
  <2> QED
    BY <2>1 DEF Text!IsPlain
<1> QED
  BY <1>1 DEF Text!TokenAt

\* An element of a class that is refused, and the end of the pattern.
LEMMA RefuseItemStep ==
    ASSUME IInv, RefuseItem
    PROVE  IInv'
<1>1. PICK q : q = current.position
  OBVIOUS
<1>2. PICK C : C = Text!ComplaintFrom(pattern, opening)
  OBVIOUS
<1>3. PICK c : c = Text!Closing(pattern, opening)
  OBVIOUS
<1>4. pc = "item" /\ pc' = "failed" /\ lexer' = lexer /\ current' = current
      /\ pattern' = pattern /\ result' = result /\ set' = set
      /\ negated' = negated
  BY DEF RefuseItem, Fail
<1>5. /\ pattern \in Patterns /\ opening \in Nat
      /\ opening < Len(pattern) /\ opening = Covered
      /\ Fresh(pattern, opening) /\ Text!IsPlain(pattern, opening, 91)
      /\ ClassOK(pattern, opening, q, negated, set)
      /\ q \in opening + 1 .. c
      /\ q \in 1 .. Len(pattern) /\ Fresh(pattern, q)
      /\ Reads(pattern, q, current)
      /\ q # Len(pattern) /\ ~Text!IsPlain(pattern, q, 93) => q < c
  BY <1>1, <1>3, <1>4, ItemFacts
<1>6. PICK N \in Nat : N = Len(pattern)
  BY <1>5, PatternFacts
<1>7. c \in opening + 1 .. N /\ (Text!IsClosed(pattern, opening) <=> c # N)
  BY <1>3, <1>5, <1>6, ClosingFacts
<1>8. Text!Complaint(pattern, Covered) = C[q]
  BY <1>2, <1>5, ClassComplaints
<1>9. C[q] = ComplaintStep(pattern, opening, q, C)
  <2>1. q \in 1 .. Len(pattern) + 1
    BY <1>5, <1>6
  <2> QED
    BY <2>1, <1>2, <1>5, ComplaintEquation
<1>10. <<position', error'>> = Text!Complaint(pattern, Covered)
  <2>1. CASE current.type = "ERROR"
    <3>1. <<position', error'>> =
            <<q, "pattern ends with an incomplete escape">>
      BY <2>1, <1>1 DEF RefuseItem, Fail
    <3>2. Text!IsIncomplete(pattern, q) /\ q # Len(pattern)
          /\ ~Text!IsPlain(pattern, q, 93)
      BY ONLY <2>1, <1>5 DEF Reads
    <3>3. ~(q >= c)
      BY ONLY <3>2, <1>5, <1>6, <1>7
    <3> QED
      BY <3>1, <3>2, <3>3, <1>3, <1>8, <1>9 DEF ComplaintStep
  <2>2. CASE current.type = "END"
    <3>1. <<position', error'>> = <<opening, "missing closing bracket">>
      BY <2>2 DEF RefuseItem, Fail
    <3>2. q = Len(pattern)
      BY ONLY <2>2, <1>5 DEF Reads
    <3>3. q >= c /\ ~Text!IsClosed(pattern, opening)
      BY ONLY <3>2, <1>5, <1>6, <1>7
    <3> QED
      BY <3>1, <3>3, <1>3, <1>8, <1>9 DEF ComplaintStep
  <2> QED
    BY <2>1, <2>2 DEF RefuseItem
<1>11. /\ current'.type \in TokenType
       /\ lexer'.position \in 0 .. Len(pattern)
       /\ lexer'.in_character_class \in BOOLEAN
  BY <1>4 DEF IInv, TypeOK
<1> QED
  BY <1>4, <1>10, <1>11, FailStep

\* A terminal of the scanner.
LEMMA IsTerminal ==
    ASSUME NEW kind \in Syntax!Kinds \ {"ERROR"}, NEW chars \in SUBSET Chars,
           NEW from \in Nat, NEW to \in Nat
    PROVE  [terminal |-> kind, chars |-> chars, from |-> from, to |-> to]
              \in ParserToken
BY DEF ParserToken

\* A terminal is given, and the lexer is behind it.
LEMMA TerminalStep ==
    ASSUME IInv, pc \in {"next", "item"}, pc' \in {"next", "end"},
           pattern' = pattern, set' = set, negated' = negated,
           current'.type \in TokenType, NEW r \in ParserToken,
           result' = Append(result, r), r.from = Covered,
           r = Text!TokenAt(pattern, Covered),
           Text!Complaint(pattern, Covered) = Text!Complete,
           r.terminal \in Syntax!Kinds \ {"ERROR"},
           r.terminal = "END" <=> pc' = "end",
           lexer' = LexerAt(r.to, FALSE), Fresh(pattern, r.to)
    PROVE  IInv'
<1>1. ResultOK /\ pc # "end"
  BY DEF IInv
<1>2. ResultOK' /\ Covered' = r.to
  BY <1>1, EmitStep
<1>3. lexer'.position \in 0 .. Len(pattern)
      /\ lexer'.in_character_class \in BOOLEAN
  BY DEF LexerAt, Fresh
<1>4. TypeOK'
  <2>1. result' \in Seq(ParserToken)
    BY <1>2 DEF ResultOK
  <2> QED
    BY <2>1, <1>3 DEF IInv, TypeOK
<1>5. ModeOK'
  BY <1>2 DEF ModeOK
<1> QED
  BY <1>2, <1>4, <1>5 DEF IInv

\* The end of a class.
LEMMA CloseClassStep ==
    ASSUME IInv, CloseClass
    PROVE  IInv'
<1>1. PICK q : q = current.position
  OBVIOUS
<1>2. PICK c : c = Text!Closing(pattern, opening)
  OBVIOUS
<1>3. PICK b : b = Text!Body(pattern, opening)
  OBVIOUS
<1>4. PICK r : r = [terminal |-> "CLASS",
                    chars |-> IF negated THEN Chars \ set ELSE set,
                    from |-> opening, to |-> lexer'.position]
  OBVIOUS
<1>5. pc = "item" /\ pc' = "next" /\ lexer' = lexer /\ current' = current
      /\ current.type = "RBRACKET" /\ result' = Append(result, r)
      /\ pattern' = pattern /\ set' = set /\ negated' = negated
  BY <1>4 DEF CloseClass, Emit
<1>6. /\ pattern \in Patterns /\ opening \in Nat
      /\ opening < Len(pattern) /\ opening = Covered
      /\ Text!IsPlain(pattern, opening, 91)
      /\ ClassOK(pattern, opening, q, negated, set)
      /\ q \in opening + 1 .. c
      /\ q \in 1 .. Len(pattern) /\ Fresh(pattern, q)
      /\ Reads(pattern, q, current) /\ set \subseteq Chars
      /\ lexer = Seen(pattern, q, TRUE).lexer
  BY <1>1, <1>2, <1>5, ItemFacts
<1>7. PICK N \in Nat : N = Len(pattern)
  BY <1>6, PatternFacts
<1>8. Text!IsPlain(pattern, q, 93) /\ q # Len(pattern)
  BY ONLY <1>5, <1>6 DEF Reads
<1>9. q = c /\ Text!IsClosed(pattern, opening)
  BY <1>2, <1>6, <1>8, Within
<1>10. lexer = LexerAt(q + 1, FALSE) /\ Fresh(pattern, q + 1)
  <2>1. Text!At(pattern, q) = 93 /\ (~Text!IsPlain(pattern, q, 93)) = FALSE
    BY <1>8 DEF Text!IsPlain
  <2>2. Text!After(pattern, q) = q + 1
        /\ Fresh(pattern, Text!After(pattern, q))
    BY <2>1, <1>6, <1>8, ElementFacts
  <2>3. Seen(pattern, q, TRUE).lexer =
          LexerAt(Text!After(pattern, q),
                  IF TRUE THEN ~Text!IsPlain(pattern, q, 93)
                  ELSE Text!IsPlain(pattern, q, 91))
    BY <1>6, <1>8, LexerMoves
  <2>4. Seen(pattern, q, TRUE).lexer = LexerAt(q + 1, FALSE)
    BY ONLY <2>1, <2>2, <2>3
  <2> QED
    BY <2>2, <2>4, <1>6
<1>11. r.terminal = "CLASS" /\ r.from = opening /\ r.to = q + 1
       /\ r.chars = IF negated THEN Chars \ set ELSE set
  <2>1. lexer'.position = q + 1
    BY <1>5, <1>10 DEF LexerAt
  <2> QED
    BY ONLY <2>1, <1>4
<1>12. r.chars = Text!Members(pattern, opening)
  <2>1. /\ set \cup Text!MembersFrom(pattern, opening)[q] =
              Text!MembersFrom(pattern, opening)[b]
        /\ negated = Text!IsNegated(pattern, opening)
    BY <1>3, <1>6, <1>9 DEF ClassOK
  <2>2. Text!MembersFrom(pattern, opening)[q] = {}
    <3>1. q \in 1 .. Len(pattern) + 1 /\ q >= c
      BY ONLY <1>6, <1>7, <1>9
    <3>2. Text!MembersFrom(pattern, opening)[q] =
            MembersStep(pattern, opening, q,
                        Text!MembersFrom(pattern, opening))
      BY <3>1, <1>6, MembersEquation
    <3> QED
      BY <3>1, <3>2, <1>2 DEF MembersStep
  <2>3. Text!MembersFrom(pattern, opening)[b] = set
    BY <2>1, <2>2
  <2> QED
    BY <2>1, <2>3, <1>3, <1>11 DEF Text!Members
<1>13. r = Text!TokenAt(pattern, Covered)
  <2>1. opening # Len(pattern)
    BY <1>6, <1>7
  <2>2. Text!TokenAt(pattern, opening) =
           [terminal |-> "CLASS", chars |-> Text!Members(pattern, opening),
            from     |-> opening, to |-> opening + (c - opening + 1)]
    BY <2>1, <1>2, <1>6, TokenOfClass
  <2>3. opening + (c - opening + 1) = q + 1
    BY ONLY <1>6, <1>7, <1>9
  <2>4. r = [terminal |-> "CLASS", chars |-> Text!Members(pattern, opening),
             from     |-> opening, to |-> q + 1]
    BY ONLY <1>4, <1>11, <1>12
  <2> QED
    BY ONLY <2>2, <2>3, <2>4, <1>6
<1>14. Text!Complaint(pattern, Covered) = Text!Complete
  <2>1. Text!Complaint(pattern, Covered) =
           Text!ComplaintFrom(pattern, opening)[q]
    BY <1>6, ClassComplaints
  <2>2. q \in 1 .. Len(pattern) + 1 /\ q >= c
    BY ONLY <1>6, <1>7, <1>9
  <2>3. Text!ComplaintFrom(pattern, opening)[q] =
          ComplaintStep(pattern, opening, q,
                        Text!ComplaintFrom(pattern, opening))
    BY <2>2, <1>6, ComplaintEquation
  <2> QED
    BY <2>1, <2>2, <2>3, <1>2, <1>9 DEF ComplaintStep
<1>15. r \in ParserToken
  <2>1. r.chars \subseteq Chars /\ q + 1 \in Nat
    BY <1>6, <1>7, <1>11
  <2>2. opening \in Nat
    BY <1>6
  <2>3. r = [terminal |-> "CLASS", chars |-> r.chars, from |-> opening,
             to |-> q + 1]
    BY ONLY <1>4, <1>11
  <2>4. "CLASS" \in Syntax!Kinds \ {"ERROR"} /\ r.chars \in SUBSET Chars
    BY <2>1 DEF Syntax!Kinds, Syntax!OperandEnds, Syntax!Atoms
  <2>5. PICK chars \in SUBSET Chars : chars = r.chars
    BY <2>4
  <2>6. [terminal |-> "CLASS", chars |-> chars, from |-> opening,
         to |-> q + 1] \in ParserToken
    BY ONLY <2>1, <2>2, <2>4, IsTerminal
  <2> QED
    BY ONLY <2>3, <2>5, <2>6
<1>16. r.terminal \in Syntax!Kinds \ {"ERROR"} /\ r.terminal # "END"
  BY <1>11 DEF Syntax!Kinds, Syntax!OperandEnds, Syntax!Atoms
<1>17. current'.type \in TokenType
  BY <1>5 DEF TokenType
<1>18. /\ r.from = Covered /\ lexer' = LexerAt(r.to, FALSE)
       /\ Fresh(pattern, r.to) /\ (r.terminal = "END" <=> pc' = "end")
       /\ pc \in {"next", "item"} /\ pc' \in {"next", "end"}
  BY <1>5, <1>6, <1>10, <1>11
<1> QED
  BY ONLY IInv, <1>5, <1>13, <1>14, <1>15, <1>16, <1>17, <1>18, TerminalStep

\* The state behind an opening bracket.
OpenState(o, b) ==
    /\ pattern \in Patterns /\ o \in Nat /\ o < Len(pattern) /\ o = Covered
    /\ Text!IsPlain(pattern, o, 91) /\ set = {}
    /\ Fresh(pattern, o + 1)
    /\ Next1 = Seen(pattern, o + 1, TRUE)
    /\ Reads(pattern, o + 1, Next1.token)
    /\ Text!IsNegated(pattern, o) <=> Next1.token.type = "CARET"
    /\ First = Seen(pattern, b, TRUE) /\ Reads(pattern, b, First.token)
    /\ Fresh(pattern, b) /\ b \in o + 1 .. Text!Closing(pattern, o)
    /\ ~Text!IsNegated(pattern, o) => b = o + 1

\* That state is reached.
LEMMA OpenFacts ==
    ASSUME IInv, pc = "open"
    PROVE  OpenState(opening, Text!Body(pattern, opening))
<1> PICK o : o = opening
  OBVIOUS
<1> PICK b : b = Text!Body(pattern, o)
  OBVIOUS
<1> SUFFICES OpenState(o, b)
  OBVIOUS
<1>1. /\ pattern \in Patterns /\ o = Covered /\ Fresh(pattern, o)
      /\ Text!IsPlain(pattern, o, 91)
      /\ set = {} /\ lexer = LexerAt(o + 1, TRUE)
  BY DEF IInv, ModeOK, TypeOK
<1>2. PICK N \in Nat : N = Len(pattern)
  BY <1>1, PatternFacts
<1>3. o \in 0 .. N - 1 /\ Text!At(pattern, o) = 91
  BY <1>1, <1>2 DEF Text!IsPlain, Text!Positions
<1>4. o \in Nat /\ o < Len(pattern) /\ o # Len(pattern)
  BY <1>2, <1>3
<1>5. Text!After(pattern, o) = o + 1 /\ Fresh(pattern, o + 1)
  <2>1. Text!After(pattern, o) = o + 1
        /\ Fresh(pattern, Text!After(pattern, o))
    BY <1>1, <1>3, <1>4, ElementFacts
  <2> QED
    BY <2>1
<1>6. Next1 = Seen(pattern, o + 1, TRUE)
  BY <1>1 DEF Next1, Seen
<1>7. Reads(pattern, o + 1, Next1.token)
  BY <1>1, <1>5, <1>6, InsideToken
<1>8. Text!IsNegated(pattern, o) <=> Next1.token.type = "CARET"
  BY <1>7 DEF Reads, Text!IsNegated
<1>9. PICK c : c = Text!Closing(pattern, o)
  OBVIOUS
<1>10. c \in o + 1 .. Len(pattern)
  BY <1>1, <1>4, <1>9, ClosingFacts
<1>11. o + 1 \in o + 1 .. c
  BY ONLY <1>2, <1>3, <1>10
<1>12. /\ First = Seen(pattern, b, TRUE) /\ Fresh(pattern, b)
       /\ b \in o + 1 .. c
       /\ ~Text!IsNegated(pattern, o) => b = o + 1
  <2>1. CASE ~Text!IsNegated(pattern, o)
    <3>1. b = o + 1
      BY <2>1 DEF Text!Body
    <3> QED
      BY <2>1, <3>1, <1>5, <1>6, <1>8, <1>11 DEF First
  <2>2. CASE Text!IsNegated(pattern, o)
    <3>1. b = o + 2
      BY <2>2 DEF Text!Body
    <3>2. Text!IsPlain(pattern, o + 1, 94)
      BY <2>2 DEF Text!IsNegated
    <3>3. /\ Text!At(pattern, o + 1) = 94
          /\ ~Text!IsPlain(pattern, o + 1, 93)
      BY <3>2 DEF Text!IsPlain
    <3>4. o + 1 # Len(pattern)
      BY <3>2, <1>1, EndFacts
    <3>5. Text!After(pattern, o + 1) = (o + 1) + 1
      BY <3>3, <3>4, <1>1, <1>5, ElementFacts
    <3>6. Text!After(pattern, o + 1) \in (o + 1) + 1 .. c
          /\ Fresh(pattern, Text!After(pattern, o + 1))
      BY <3>3, <3>4, <1>1, <1>4, <1>5, <1>9, <1>11, Within
    <3>7. (o + 1) + 1 = b /\ (o + 1) + 1 .. c \subseteq o + 1 .. c
      BY ONLY <3>1, <1>2, <1>3, <1>10
    <3>8. b \in o + 1 .. c /\ Fresh(pattern, b)
          /\ Text!After(pattern, o + 1) = b
      BY ONLY <3>5, <3>6, <3>7
    <3>9. lexer_next(pattern, Seen(pattern, o + 1, TRUE).lexer) =
            Seen(pattern, Text!After(pattern, o + 1), TRUE)
      BY <3>3, <3>4, <1>1, <1>5, LexerInside
    <3>10. Next2 = Seen(pattern, b, TRUE)
      BY <3>8, <3>9, <1>6, Zenon DEF Next2
    <3>11. First = Next2
      BY <2>2, <1>8 DEF First
    <3> QED
      BY <3>8, <3>10, <3>11, <2>2
  <2> QED
    BY <2>1, <2>2
<1>13. Reads(pattern, b, First.token)
  BY <1>1, <1>12, InsideToken
<1> QED
  BY ONLY <1>1, <1>4, <1>5, <1>6, <1>7, <1>8, <1>9, <1>12, <1>13 DEF OpenState

\* Nothing of a class has been read, and it is not empty.
LEMMA BeginOK ==
    ASSUME NEW o, NEW b, OpenState(o, b), b = Text!Body(pattern, o),
           ~Text!IsPlain(pattern, b, 93)
    PROVE  ClassOK(pattern, o, b, Text!IsNegated(pattern, o), {})
<1>1. /\ pattern \in Patterns /\ o \in Nat /\ o < Len(pattern)
      /\ Fresh(pattern, b) /\ b \in o + 1 .. Text!Closing(pattern, o)
  BY DEF OpenState
<1>2. /\ Text!IsClosed(pattern, o) => Text!Closing(pattern, o) # b
      /\ Text!Closing(pattern, o) \in o + 1 .. Len(pattern)
  BY <1>1, ClosingFacts
<1>3. PICK N \in Nat : N = Len(pattern)
  BY <1>1, PatternFacts
<1>4. b \in b .. Text!Closing(pattern, o)
  BY ONLY <1>1, <1>2, <1>3
<1> QED
  BY <1>1, <1>2, <1>4 DEF ClassOK

\* The first token of a class.
LEMMA BeginItemsStep ==
    ASSUME IInv, BeginItems
    PROVE  IInv'
<1>1. PICK b : b = Text!Body(pattern, opening)
  OBVIOUS
<1>2. pc = "open" /\ pc' = "item" /\ First.token.type # "RBRACKET"
      /\ Take(First) /\ negated' = (Next1.token.type = "CARET")
      /\ pattern' = pattern /\ result' = result /\ opening' = opening
      /\ set' = set
  BY DEF BeginItems
<1>3. OpenState(opening, b)
  BY <1>1, <1>2, OpenFacts
<1>4. /\ set = {} /\ First = Seen(pattern, b, TRUE)
      /\ Reads(pattern, b, First.token) /\ Fresh(pattern, b)
      /\ Text!IsNegated(pattern, opening) <=> Next1.token.type = "CARET"
  BY <1>3 DEF OpenState
<1>5. ~Text!IsPlain(pattern, b, 93)
  BY ONLY <1>2, <1>4 DEF Reads
<1>6. negated' = Text!IsNegated(pattern, opening)
  BY <1>2, <1>4 DEF Text!IsNegated, Text!IsPlain
<1>7. ClassOK(pattern, opening, b, negated', set')
  <2>1. ClassOK(pattern, opening, b, Text!IsNegated(pattern, opening), {})
    BY <1>1, <1>3, <1>5, BeginOK
  <2> QED
    BY <2>1, <1>2, <1>4, <1>6
<1>8. Take(Seen(pattern, b, TRUE)) /\ set' \subseteq Chars
      /\ negated' \in BOOLEAN /\ pc \in {"open", "item"}
  BY <1>2, <1>4
<1> QED
  BY <1>2, <1>4, <1>7, <1>8, ItemStep

\* A class that is refused at once.
LEMMA RefuseClassStep ==
    ASSUME IInv, RefuseClass
    PROVE  IInv'
<1>1. PICK b : b = Text!Body(pattern, opening)
  OBVIOUS
<1>2. PICK c : c = Text!Closing(pattern, opening)
  OBVIOUS
<1>3. PICK C : C = Text!ComplaintFrom(pattern, opening)
  OBVIOUS
<1>4. pc = "open" /\ pc' = "failed" /\ (Take(Next1) \/ Take(First))
      /\ pattern' = pattern /\ result' = result /\ set' = set
      /\ negated' = negated
  BY DEF RefuseClass, Fail
<1>5. OpenState(opening, b)
  BY <1>1, <1>4, OpenFacts
<1>6. /\ pattern \in Patterns /\ opening \in Nat
      /\ opening < Len(pattern) /\ opening = Covered
      /\ Text!IsPlain(pattern, opening, 91)
      /\ Fresh(pattern, opening + 1)
      /\ Next1 = Seen(pattern, opening + 1, TRUE)
      /\ Reads(pattern, opening + 1, Next1.token)
      /\ Text!IsNegated(pattern, opening) <=> Next1.token.type = "CARET"
      /\ First = Seen(pattern, b, TRUE) /\ Reads(pattern, b, First.token)
      /\ Fresh(pattern, b) /\ b \in opening + 1 .. c
      /\ ~Text!IsNegated(pattern, opening) => b = opening + 1
  BY <1>2, <1>5 DEF OpenState
<1>7. PICK N \in Nat : N = Len(pattern)
  BY <1>6, PatternFacts
<1>8. /\ c \in opening + 1 .. N
      /\ Text!IsClosed(pattern, opening) <=> c # N
  BY <1>2, <1>6, <1>7, ClosingFacts
<1>9. <<position', error'>> = Text!Complaint(pattern, Covered)
  <2>1. CASE Next1.token.type = "ERROR" /\ Take(Next1)
             /\ Fail(Next1.token.position,
                     "pattern ends with an incomplete escape")
    <3>1. b = opening + 1
      BY ONLY <2>1, <1>6
    <3>2. Text!IsIncomplete(pattern, b) /\ b # Len(pattern)
          /\ ~Text!IsPlain(pattern, b, 93) /\ Next1.token.position = b
      BY ONLY <2>1, <3>1, <1>6 DEF Reads
    <3>3. b < c /\ b \in 1 .. Len(pattern)
      BY <3>2, <1>2, <1>6, Within
    <3>4. b \in 1 .. Len(pattern) + 1 /\ ~(b >= c)
      BY ONLY <3>3, <1>7, <1>8
    <3>5. ClassOK(pattern, opening, b, Text!IsNegated(pattern, opening), {})
      BY <1>1, <1>5, <3>2, BeginOK
    <3>6. Text!Complaint(pattern, opening) = C[b]
      BY <3>5, <1>3, <1>6, ClassComplaints
    <3>7. C[b] = ComplaintStep(pattern, opening, b, C)
      BY <3>4, <1>3, <1>6, ComplaintEquation
    <3>8. C[b] = <<b, "pattern ends with an incomplete escape">>
      BY <3>2, <3>4, <3>7, <1>2 DEF ComplaintStep
    <3>9. <<position', error'>> =
             <<b, "pattern ends with an incomplete escape">>
      BY <2>1, <3>2 DEF Fail
    <3> QED
      BY ONLY <3>6, <3>8, <3>9, <1>6
  <2>2. CASE First.token.type = "RBRACKET"
             /\ Fail(opening, "character class cannot be empty")
    <3>1. Text!IsPlain(pattern, b, 93)
      BY ONLY <2>2, <1>6 DEF Reads
    <3>2. b = c /\ Text!IsClosed(pattern, opening)
      BY <3>1, <1>2, <1>6, Within
    <3>3. Text!Complaint(pattern, opening) =
             <<opening, "character class cannot be empty">>
      BY <3>2, <1>1, <1>2, <1>6, ComplaintOfClass DEF Text!ClassComplaint
    <3>4. <<position', error'>> =
             <<opening, "character class cannot be empty">>
      BY <2>2 DEF Fail
    <3> QED
      BY ONLY <3>3, <3>4, <1>6
  <2> QED
    BY <2>1, <2>2 DEF RefuseClass
<1>10. /\ current'.type \in TokenType
       /\ lexer'.position \in 0 .. Len(pattern)
       /\ lexer'.in_character_class \in BOOLEAN
  BY <1>4, <1>6, SeenFacts, ZenonT(60) DEF Take
<1> QED
  BY <1>4, <1>9, <1>10, FailStep

\* A token outside of a class.
LEMMA OutsideFacts ==
    ASSUME IInv, pc = "next"
    PROVE  /\ pattern \in Patterns /\ Fresh(pattern, Covered)
           /\ lexer = LexerAt(Covered, FALSE)
           /\ Next1 = Seen(pattern, Covered, FALSE)
           /\ Stands(pattern, Covered, Next1.token,
                     IF Covered = Len(pattern) THEN Covered
                     ELSE Text!After(pattern, Covered))
<1>1. /\ pattern \in Patterns /\ Fresh(pattern, Covered)
      /\ lexer = LexerAt(Covered, FALSE)
  BY DEF IInv, ModeOK, TypeOK
<1>2. Next1 = Seen(pattern, Covered, FALSE)
  BY <1>1 DEF Next1, Seen
<1> HIDE DEF Covered
<1> QED
  BY <1>1, <1>2, OutsideToken

\* A terminal that is one token.
LEMMA ScanTokenStep ==
    ASSUME IInv, ScanToken
    PROVE  IInv'
<1>1. PICK k : k = Covered
  OBVIOUS
<1>2. PICK to : to = IF k = Len(pattern) THEN k ELSE Text!After(pattern, k)
  OBVIOUS
<1>3. PICK t : t = Next1.token
  OBVIOUS
<1>4. PICK r : r = [terminal |-> Kept(t), chars |-> Matched(t),
                    from |-> t.position, to |-> lexer'.position]
  OBVIOUS
<1>5. pc = "next" /\ t.type \notin Refused \cup {"LBRACKET"}
      /\ current' = t /\ lexer' = Next1.lexer
      /\ pc' = (IF t.type = "END" THEN "end" ELSE "next")
      /\ pattern' = pattern /\ set' = set /\ negated' = negated
  BY <1>3 DEF ScanToken, Emit, Take
<1>6. result' = Append(result, r)
  BY <1>3, <1>4 DEF ScanToken, Emit, Kept, Matched
<1>7. /\ pattern \in Patterns /\ Fresh(pattern, k)
      /\ Next1 = Seen(pattern, k, FALSE)
      /\ Stands(pattern, k, t, to)
  BY <1>1, <1>2, <1>3, <1>5, OutsideFacts
<1>8. /\ t.position = k /\ t.type \in TokenType
      /\ ~Text!IsPlain(pattern, k, 91)
      /\ t.type = "END" <=> k = Len(pattern)
      /\ Text!TokenAt(pattern, k) =
            [terminal |-> Kept(t), chars |-> Matched(t),
             from |-> k, to |-> to]
      /\ Text!Complaint(pattern, k) = Text!Complete
      /\ Kept(t) \in Syntax!Kinds \ {"ERROR"}
      /\ Kept(t) = "END" <=> k = Len(pattern)
      /\ Matched(t) \subseteq Chars
  BY ONLY <1>5, <1>7 DEF Stands
<1>9. PICK N \in Nat : N = Len(pattern)
  BY <1>7, PatternFacts
<1>10. lexer' = LexerAt(to, FALSE) /\ Fresh(pattern, to)
  <2>1. CASE k = Len(pattern)
    <3>1. Seen(pattern, Len(pattern), FALSE).lexer =
             LexerAt(Len(pattern), FALSE)
      BY <1>7, LexerEnds
    <3>2. Seen(pattern, k, FALSE).lexer = LexerAt(k, FALSE) /\ to = k
      BY <3>1, <2>1, <1>2, Zenon
    <3> QED
      BY <3>2, <1>5, <1>7
  <2>2. CASE k # Len(pattern)
    <3>1. Seen(pattern, k, FALSE).lexer =
             LexerAt(Text!After(pattern, k),
                     IF FALSE THEN ~Text!IsPlain(pattern, k, 93)
                     ELSE Text!IsPlain(pattern, k, 91))
      BY <2>2, <1>7, LexerMoves
    <3>2. Text!IsPlain(pattern, k, 91) = FALSE
      BY <1>8 DEF Text!IsPlain
    <3>3. Seen(pattern, k, FALSE).lexer = LexerAt(to, FALSE)
      BY ONLY <3>1, <3>2, <2>2, <1>2
    <3>4. Fresh(pattern, to)
      BY <2>2, <1>2, <1>7, ElementFacts
    <3> QED
      BY <3>3, <3>4, <1>5, <1>7
  <2> QED
    BY <2>1, <2>2
<1>11. r = [terminal |-> Kept(t), chars |-> Matched(t),
            from |-> k, to |-> to]
  <2>1. lexer'.position = to
    BY <1>10 DEF LexerAt
  <2> QED
    BY ONLY <2>1, <1>4, <1>8
<1>12. r \in ParserToken
  <2>1. k \in Nat /\ to \in Nat
    <3>1. \A j : Fresh(pattern, j) => j \in 0 .. N
      BY <1>9 DEF Fresh
    <3> QED
      BY <3>1, <1>7, <1>10
  <2>2. Kept(t) \in Syntax!Kinds \ {"ERROR"}
    BY <1>8
  <2>3. Matched(t) \in SUBSET Chars
    BY <1>8
  <2> QED
    BY ONLY <2>1, <2>2, <2>3, <1>11, IsTerminal
<1>13. /\ r.terminal = Kept(t) /\ r.from = k /\ r.to = to
  BY ONLY <1>11
<1>14. /\ r = Text!TokenAt(pattern, Covered)
       /\ Text!Complaint(pattern, Covered) = Text!Complete
       /\ r.from = Covered
  BY ONLY <1>1, <1>8, <1>11, <1>13
<1>15. /\ r.terminal \in Syntax!Kinds \ {"ERROR"}
       /\ r.terminal = "END" <=> pc' = "end"
       /\ pc \in {"next", "item"} /\ pc' \in {"next", "end"}
       /\ current'.type \in TokenType
  BY ONLY <1>5, <1>8, <1>13
<1>16. lexer' = LexerAt(r.to, FALSE) /\ Fresh(pattern, r.to)
  BY ONLY <1>10, <1>13
<1> QED
  BY ONLY IInv, <1>5, <1>6, <1>12, <1>14, <1>15, <1>16, TerminalStep

\* A token that is refused.
LEMMA RefuseTokenStep ==
    ASSUME IInv, RefuseToken
    PROVE  IInv'
<1>1. PICK k : k = Covered
  OBVIOUS
<1>2. PICK t : t = Next1.token
  OBVIOUS
<1>3. pc = "next" /\ pc' = "failed" /\ t.type \in Refused
      /\ current' = t /\ lexer' = Next1.lexer
      /\ position' = t.position /\ error' = Reason(t)
      /\ pattern' = pattern /\ result' = result /\ set' = set
      /\ negated' = negated
  BY <1>2 DEF RefuseToken, Fail, Take, Reason
<1>4. PICK to : /\ pattern \in Patterns /\ Fresh(pattern, k)
                /\ Next1 = Seen(pattern, k, FALSE)
                /\ Stands(pattern, k, t, to)
  BY <1>1, <1>2, <1>3, OutsideFacts
<1>5. Text!Complaint(pattern, k) = <<k, Reason(t)>> /\ t.position = k
      /\ t.type \in TokenType
  BY ONLY <1>3, <1>4 DEF Stands
<1>6. <<position', error'>> = Text!Complaint(pattern, Covered)
  BY ONLY <1>1, <1>3, <1>5
<1>7. /\ current'.type \in TokenType
      /\ lexer'.position \in 0 .. Len(pattern)
      /\ lexer'.in_character_class \in BOOLEAN
  BY <1>3, <1>4, <1>5, SeenFacts
<1> QED
  BY <1>3, <1>6, <1>7, FailStep

\* An opening bracket.
LEMMA OpenClassStep ==
    ASSUME IInv, OpenClass
    PROVE  IInv'
<1>1. PICK k : k = Covered
  OBVIOUS
<1>2. PICK t : t = Next1.token
  OBVIOUS
<1>3. pc = "next" /\ pc' = "open" /\ t.type = "LBRACKET"
      /\ current' = t /\ lexer' = Next1.lexer
      /\ opening' = t.position /\ set' = {} /\ negated' = FALSE
      /\ pattern' = pattern /\ result' = result
  BY <1>2 DEF OpenClass, Take
<1>4. PICK to : /\ pattern \in Patterns /\ Fresh(pattern, k)
                /\ Next1 = Seen(pattern, k, FALSE)
                /\ Stands(pattern, k, t, to)
  BY <1>1, <1>2, <1>3, OutsideFacts
<1>5. /\ Text!IsPlain(pattern, k, 91) /\ t.position = k
      /\ t.type \in TokenType
  BY ONLY <1>3, <1>4 DEF Stands
<1>6. k # Len(pattern) /\ Text!At(pattern, k) = 91
      /\ Text!IsPlain(pattern, k, 91) = TRUE
  <2>1. k # Len(pattern)
    BY <1>4, <1>5, EndFacts
  <2> QED
    BY <2>1, <1>5 DEF Text!IsPlain
<1>7. lexer' = LexerAt(k + 1, TRUE)
  <2>1. Seen(pattern, k, FALSE).lexer =
           LexerAt(Text!After(pattern, k),
                   IF FALSE THEN ~Text!IsPlain(pattern, k, 93)
                   ELSE Text!IsPlain(pattern, k, 91))
    <3>1. pattern \in Patterns /\ Fresh(pattern, k) /\ k # Len(pattern)
      BY <1>4, <1>6
    <3> QED
      BY ONLY <3>1, LexerMoves
  <2>2. Text!After(pattern, k) = k + 1
    BY <1>4, <1>6, ElementFacts
  <2>3. Seen(pattern, k, FALSE).lexer = LexerAt(k + 1, TRUE)
    BY ONLY <2>1, <2>2, <1>6
  <2> QED
    BY <2>3, <1>3, <1>4
<1>8. ResultOK' /\ Covered' = k
  <2>1. ResultOK' /\ Covered' = Covered
    BY <1>3, KeepStep DEF IInv
  <2> QED
    BY <2>1, <1>1
<1>9. TypeOK'
  <2>1. lexer'.position \in 0 .. Len(pattern)
        /\ lexer'.in_character_class \in BOOLEAN
    BY <1>3, <1>4, SeenFacts
  <2>2. result' \in Seq(ParserToken)
    BY <1>8 DEF ResultOK
  <2> QED
    BY <2>1, <2>2, <1>3, <1>4, <1>5 DEF TypeOK
<1>10. ModeOK'
  BY <1>3, <1>4, <1>5, <1>7, <1>8 DEF ModeOK
<1> QED
  BY <1>8, <1>9, <1>10 DEF IInv
-----------------------------------------------------------------------------
(* The theorems.                                                           *)

\* The scanner begins where the pattern does.
LEMMA InitStep ==
    ASSUME Init
    PROVE  IInv
<1>1. /\ pattern \in Patterns /\ lexer = LexerAt(0, FALSE) /\ pc = "next"
      /\ current = make_token("END", 0, 0) /\ set = {} /\ negated = FALSE
      /\ result = <<>>
  BY DEF Init, lexer_init, LexerAt, NoToken
<1>2. PICK N \in Nat : N = Len(pattern)
  BY <1>1, PatternFacts
<1>3. Fresh(pattern, 0)
  <2>1. ~Text!IsEscaped(pattern, 0)
    BY EscapedStep
  <2> QED
    BY <2>1, <1>2 DEF Fresh
<1>4. Covered = 0
  BY <1>1 DEF Covered
<1>5. result \in Seq(ParserToken) /\ DOMAIN result = {}
  BY <1>1
<1>6. TypeOK
  <2>1. current.type \in TokenType
    BY <1>1 DEF make_token, TokenType
  <2>2. lexer.position \in 0 .. Len(pattern)
        /\ lexer.in_character_class \in BOOLEAN
    BY <1>1, <1>2 DEF LexerAt
  <2> QED
    BY <2>1, <2>2, <1>1, <1>5 DEF TypeOK
<1>7. ModeOK
  BY <1>1, <1>3, <1>4 DEF ModeOK
<1>8. ResultOK
  BY <1>1, <1>5 DEF ResultOK
<1> QED
  BY <1>6, <1>7, <1>8 DEF IInv

\* A step that changes nothing.
LEMMA StutterStep ==
    ASSUME IInv, UNCHANGED vars
    PROVE  IInv'
<1>1. /\ pattern' = pattern /\ lexer' = lexer /\ pc' = pc
      /\ opening' = opening /\ current' = current /\ set' = set
      /\ negated' = negated /\ result' = result
      /\ error' = error /\ position' = position
  BY DEF vars, class, fault
<1>2. TypeOK'
  BY <1>1 DEF IInv, TypeOK
<1>3. Covered' = Covered
  BY <1>1 DEF Covered
<1>4. ModeOK'
  BY <1>1, <1>3 DEF IInv, ModeOK
<1>5. ResultOK'
  BY <1>1 DEF IInv, ResultOK
<1> QED
  BY <1>2, <1>4, <1>5 DEF IInv

\* The variables have their types, the lexer is where the scanner takes it to
\* be, what was read of a class is what its elements say, and so is what was
\* scanned before (parser.c:115-390, lexer.c:44-330).
THEOREM ScannerInvariant == Spec => []IInv
<1>1. Init => IInv
  BY InitStep
<1>2. IInv /\ [Next]_vars => IInv'
  <2> SUFFICES ASSUME IInv, [Next]_vars PROVE IInv'
    OBVIOUS
  <2>1. CASE ScanToken
    BY <2>1, ScanTokenStep
  <2>2. CASE RefuseToken
    BY <2>2, RefuseTokenStep
  <2>3. CASE OpenClass
    BY <2>3, OpenClassStep
  <2>4. CASE BeginItems
    BY <2>4, BeginItemsStep
  <2>5. CASE RefuseClass
    BY <2>5, RefuseClassStep
  <2>6. CASE AddShorthand
    BY <2>6, AddShorthandStep
  <2>7. CASE AddCharacter
    BY <2>7, AddCharacterStep
  <2>8. CASE AddHyphen
    BY <2>8, AddHyphenStep
  <2>9. CASE AddRange
    BY <2>9, AddRangeStep
  <2>10. CASE RefuseRange
    BY <2>10, RefuseRangeStep
  <2>11. CASE RefuseItem
    BY <2>11, RefuseItemStep
  <2>12. CASE CloseClass
    BY <2>12, CloseClassStep
  <2>13. CASE UNCHANGED vars
    BY <2>13, StutterStep
  <2> QED
    BY <2>1, <2>2, <2>3, <2>4, <2>5, <2>6, <2>7, <2>8, <2>9, <2>10, <2>11,
       <2>12, <2>13 DEF Next
<1> QED
  BY <1>1, <1>2, PTL DEF Spec

\* The lexer is inside of a class when the scanner is, and not when it is not,
\* although the scanner is a token behind it (lexer.c:126, parser.c:197).
THEOREM LexerModesAgree == Spec => []ModesAgree
<1>1. ASSUME IInv PROVE ModesAgree
  <2>1. ASSUME pc \in {"next", "end"} PROVE ~lexer.in_character_class
    BY <1>1, <2>1 DEF IInv, ModeOK, LexerAt
  <2>2. ASSUME pc = "open"
        PROVE  lexer.in_character_class <=> current.type # "RBRACKET"
    BY <1>1, <2>2 DEF IInv, ModeOK, LexerAt
  <2>3. ASSUME pc = "item"
        PROVE  lexer.in_character_class <=> current.type # "RBRACKET"
    <3>1. PICK q : q = current.position
      OBVIOUS
    <3>2. /\ pattern \in Patterns /\ Fresh(pattern, q)
          /\ Reads(pattern, q, current)
          /\ lexer = Seen(pattern, q, TRUE).lexer
      BY <1>1, <2>3, <3>1, ItemFacts
    <3>3. current.type = "RBRACKET" <=> Text!IsPlain(pattern, q, 93)
      BY ONLY <3>2 DEF Reads
    <3>4. CASE q = Len(pattern)
      <4>1. Seen(pattern, Len(pattern), TRUE).lexer =
               LexerAt(Len(pattern), TRUE)
        BY <3>2, LexerEnds
      <4>2. lexer = LexerAt(q, TRUE)
        BY <4>1, <3>2, <3>4, Zenon
      <4>3. ~Text!IsPlain(pattern, q, 93)
        BY <3>2, <3>4, EndFacts
      <4> QED
        BY ONLY <4>2, <4>3, <3>3 DEF LexerAt
    <3>5. CASE q # Len(pattern)
      <4>1. lexer = LexerAt(Text!After(pattern, q),
                            IF TRUE THEN ~Text!IsPlain(pattern, q, 93)
                            ELSE Text!IsPlain(pattern, q, 91))
        BY <3>2, <3>5, LexerMoves
      <4>2. lexer.in_character_class = ~Text!IsPlain(pattern, q, 93)
        BY ONLY <4>1 DEF LexerAt
      <4> QED
        BY ONLY <4>2, <3>3
    <3> QED
      BY <3>4, <3>5
  <2> QED
    BY <2>1, <2>2, <2>3 DEF ModesAgree
<1>2. IInv => ModesAgree
  BY <1>1
<1> QED
  BY <1>2, ScannerInvariant, PTL

\* What the parser is given at the end is a sequence of tokens.
LEMMA GivenIsRight ==
    ASSUME IInv, pc \in {"end", "failed"}
    PROVE  Syntax!IsTokenSequence(Given)
<1>1. /\ result \in Seq(ParserToken)
      /\ \A i \in DOMAIN result :
            result[i].terminal = "END" <=> (pc = "end" /\ i = Len(result))
      /\ pc = "end" => result # <<>>
  BY DEF IInv, ResultOK
<1>2. PICK N \in Nat : N = Len(result)
  BY <1>1
<1>3. DOMAIN result = 1 .. N /\ (pc = "end" => N # 0)
      /\ \A i \in 1 .. N : result[i] \in ParserToken
  BY <1>1, <1>2
<1> DEFINE Plain(token) == [terminal |-> token.terminal,
                            chars    |-> token.chars]
<1>4. PICK plain : plain = [i \in DOMAIN result |-> Plain(result[i])]
  OBVIOUS
<1>5. PICK last : last = IF pc = "failed"
                         THEN <<[terminal |-> "ERROR", chars |-> {}]>>
                         ELSE <<>>
  OBVIOUS
<1>6. Given = plain \o last
  BY <1>4, <1>5 DEF Given
<1>7. ASSUME NEW i \in 1 .. N
      PROVE  /\ plain[i] \in Syntax!Token
             /\ plain[i].terminal = result[i].terminal
             /\ plain[i].terminal # "ERROR"
  <2>1. plain[i] = [terminal |-> result[i].terminal,
                    chars |-> result[i].chars]
    BY <1>3, <1>4
  <2>2. /\ result[i].terminal \in Syntax!Kinds
        /\ result[i].terminal # "ERROR" /\ result[i].chars \in SUBSET Chars
    BY <1>3 DEF ParserToken
  <2> QED
    BY ONLY <2>1, <2>2 DEF Syntax!Token
<1>8. plain \in Seq(Syntax!Token) /\ Len(plain) = N
  <2>1. plain = [i \in 1 .. N |-> plain[i]]
    BY <1>3, <1>4
  <2> QED
    BY <1>7, <2>1
<1>9. CASE pc = "end"
  <2>1. Given = plain
    BY <1>5, <1>6, <1>8, <1>9
  <2>2. \A i \in 1 .. N : Syntax!Kind(plain, i) \in {"END", "ERROR"} <=> i = N
    <3>1. \A i \in 1 .. N : Syntax!Kind(plain, i) = result[i].terminal
                            /\ Syntax!Kind(plain, i) # "ERROR"
      BY <1>7 DEF Syntax!Kind
    <3> QED
      BY <3>1, <1>1, <1>2, <1>3, <1>9
  <2>3. plain # <<>> /\ DOMAIN plain = 1 .. N
    BY <1>3, <1>8, <1>9
  <2> QED
    BY <2>1, <2>2, <2>3, <1>8 DEF Syntax!IsTokenSequence
<1>10. CASE pc = "failed"
  <2> DEFINE refusal == [terminal |-> "ERROR", chars |-> {}]
  <2>1. refusal \in Syntax!Token /\ refusal.terminal = "ERROR"
    BY DEF Syntax!Token, Syntax!Kinds
  <2>2. Given = plain \o <<refusal>>
    BY <1>5, <1>6, <1>10
  <2> HIDE DEF refusal
  <2>3. PICK w : w = plain \o <<refusal>>
    OBVIOUS
  <2>4. /\ w \in Seq(Syntax!Token) /\ Len(w) = N + 1 /\ DOMAIN w = 1 .. N + 1
        /\ \A i \in 1 .. N : w[i] = plain[i]
        /\ w[N + 1] = refusal
    BY <2>1, <2>3, <1>8
  <2>5. w # <<>>
    BY <2>4
  <2>6. ASSUME NEW i \in 1 .. N + 1
        PROVE  Syntax!Kind(w, i) \in {"END", "ERROR"} <=> i = N + 1
    <3>1. Syntax!Kind(w, i) = w[i].terminal
      BY DEF Syntax!Kind
    <3>2. CASE i = N + 1
      BY <3>1, <3>2, <2>1, <2>4
    <3>3. CASE i # N + 1
      <4>1. i \in 1 .. N
        BY <3>3
      <4>2. /\ w[i].terminal = result[i].terminal
            /\ w[i].terminal # "ERROR" /\ result[i].terminal # "END"
        BY <4>1, <2>4, <1>1, <1>3, <1>7, <1>10
      <4> QED
        BY ONLY <3>1, <3>3, <4>2
    <3> QED
      BY <3>2, <3>3
  <2> QED
    BY <2>2, <2>3, <2>4, <2>5, <2>6 DEF Syntax!IsTokenSequence
<1> QED
  BY <1>9, <1>10

\* The terminals are those of the pattern, one behind the other, each with
\* what its part of the pattern matches (parser.c:115-390).
THEOREM ScannedTokensAreRight == Spec => []TokensAreRight
<1>1. ASSUME IInv PROVE TokensAreRight
  <2>1. /\ TypeOK /\ result \in Seq(ParserToken)
        /\ \A i \in DOMAIN result :
              /\ result[i] = Text!TokenAt(pattern, result[i].from)
              /\ Text!Complaint(pattern, result[i].from) = Text!Complete
              /\ result[i].from = IF i = 1 THEN 0 ELSE result[i - 1].to
    BY <1>1 DEF IInv, ResultOK
  <2>2. PICK N \in Nat : N = Len(result) /\ DOMAIN result = 1 .. N
    BY <2>1
  <2>3. pc \in {"end", "failed"} => Syntax!IsTokenSequence(Given)
    BY <1>1, GivenIsRight
  <2>4. result # <<>> => N # 0 /\ 1 \in 1 .. N
    BY <2>1, <2>2
  <2>5. result # <<>> => result[1].from = 0
    BY <2>1, <2>2, <2>4
  <2>6. ASSUME NEW i \in 1 .. N, i + 1 \in 1 .. N
        PROVE  result[i + 1].from = result[i].to
    <3>1. i + 1 # 1 /\ (i + 1) - 1 = i
      OBVIOUS
    <3> QED
      BY <3>1, <2>1, <2>2, <2>6
  <2>7. result # <<>> => Covered = result[Len(result)].to
    BY DEF Covered
  <2>8. /\ pc = "next" => lexer.position = Covered
        /\ pc = "open" => opening = Covered
    BY <1>1 DEF IInv, ModeOK, LexerAt
  <2> QED
    BY <2>1, <2>2, <2>3, <2>5, <2>6, <2>7, <2>8 DEF TokensAreRight
<1>2. IInv => TokensAreRight
  BY <1>1
<1> QED
  BY <1>2, ScannerInvariant, PTL

\* A refusal names the first thing that is wrong with the token or the class
\* the scanner was at, and its position (parser.c:115-232, 292, 371).
THEOREM RefusalsAreRight == Spec => []ErrorIsRight
<1>1. IInv => ErrorIsRight
  BY DEF IInv, ModeOK, Covered, ErrorIsRight
<1> QED
  BY <1>1, ScannerInvariant, PTL
-----------------------------------------------------------------------------
(* Sets of characters.  The scanner adds to a set of characters; charset.c *)
(* has arrays of bytes, of any size, and implements CharSetSpec by them.   *)

\* Every character has a bit of its own, within the array.
LEMMA BitOfCharacter ==
    ASSUME NEW c \in Characters
    PROVE  /\ ByteIndex(c) \in 0 .. CREGEX_CHARSET_SIZE - 1
           /\ BitIndex(c) \in 0 .. 7
BY CharSetAssumption DEF Characters, UCHAR_MAX, ByteIndex, BitIndex

\* No two characters have the same.
LEMMA BitsDiffer ==
    ASSUME NEW c \in Characters, NEW d \in Characters,
           ByteIndex(c) = ByteIndex(d),
           BitIndex(c) = BitIndex(d)
    PROVE  c = d
BY CharSetAssumption DEF Characters, UCHAR_MAX, ByteIndex, BitIndex

\* charset_add_char changes what is known of one character of one set.
LEMMA AddCharAddsOne ==
    ASSUME SetTypeOK, NEW s \in Sets, NEW c \in Characters,
           AddChar(s, c)
    PROVE  \A t \in Sets, d \in Characters :
              HasBit(t, d)' <=> HasBit(t, d) \/ (t = s /\ d = c)
<1> TAKE t \in Sets, d \in Characters
<1>1. /\ ByteIndex(c) \in 0 .. CREGEX_CHARSET_SIZE - 1
      /\ ByteIndex(d) \in 0 .. CREGEX_CHARSET_SIZE - 1
  BY BitOfCharacter
<1>2. (ByteIndex(c) = ByteIndex(d)
         /\ BitIndex(c) = BitIndex(d)) => c = d
  BY BitsDiffer
<1>3. bits'[t][ByteIndex(d)] =
          IF t = s /\ ByteIndex(d) = ByteIndex(c)
          THEN bits[t][ByteIndex(d)] \cup {BitIndex(c)}
          ELSE bits[t][ByteIndex(d)]
  BY <1>1 DEF SetTypeOK, AddChar
<1> QED
  BY <1>2, <1>3 DEF HasBit

\* What it writes is within the array.
LEMMA AddCharKeepsType ==
    ASSUME SetTypeOK, NEW s \in Sets, NEW c \in Characters,
           AddChar(s, c)
    PROVE  bits' \in [Sets -> [0 .. CREGEX_CHARSET_SIZE - 1 ->
                                  SUBSET (0 .. 7)]]
BY BitOfCharacter, ZenonT(60) DEF SetTypeOK, AddChar
-----------------------------------------------------------------------------
(* The invariant of the sets.                                              *)

\* Where a loop is, and which sets it works on.
SetLoopOK == /\ turn # "idle" => value <= end + 1
             /\ turn = "range" => source = destination
             /\ turn = "set" => end = UCHAR_MAX

\* The inductive invariant of the sets.
SetIInv == SetTypeOK /\ SetLoopOK

\* The invariant holds at first.
LEMMA InitSetIInv == SetInit => SetIInv
BY CharSetAssumption
DEF SetInit, SetIInv, SetTypeOK, SetLoopOK, Cleared, Characters, UCHAR_MAX

\* A call keeps it.
LEMMA CallKeepsSetIInv == SetIInv /\ Call => SetIInv'
<1> SUFFICES ASSUME SetIInv, NEW s \in Sets,
                    \/ charset_clear(s)
                    \/ \E c \in Arguments : charset_add_char(s, c)
                    \/ \E first, last \in Arguments :
                          charset_add_range(s, first, last)
                    \/ \E t \in Sets : charset_add_set(s, t)
                    \/ \E flag \in BOOLEAN : charset_set_negated(s, flag)
             PROVE  SetIInv'
  BY DEF Call
<1> USE CharSetAssumption
<1>1. CASE charset_clear(s)
  BY <1>1 DEF SetIInv, SetTypeOK, SetLoopOK, charset_clear, Cleared, loop
<1>2. CASE \E c \in Arguments : charset_add_char(s, c)
  <2>1. PICK c \in Arguments : charset_add_char(s, c)
    BY <1>2
  <2> QED
    BY <2>1, AddCharKeepsType
    DEF SetIInv, SetTypeOK, SetLoopOK, charset_add_char, loop
<1>3. CASE \E first, last \in Arguments : charset_add_range(s, first, last)
  BY <1>3
  DEF SetIInv, SetTypeOK, SetLoopOK, charset_add_range, Begin, Characters,
      UCHAR_MAX
<1>4. CASE \E t \in Sets : charset_add_set(s, t)
  BY <1>4
  DEF SetIInv, SetTypeOK, SetLoopOK, charset_add_set, Begin, Characters,
      UCHAR_MAX
<1>5. CASE \E flag \in BOOLEAN : charset_set_negated(s, flag)
  BY <1>5 DEF SetIInv, SetTypeOK, SetLoopOK, charset_set_negated, loop
<1> QED
  BY <1>1, <1>2, <1>3, <1>4, <1>5

\* Every step keeps it.
LEMMA StepKeepsSetIInv == SetIInv /\ [SetNext]_set_vars => SetIInv'
<1> SUFFICES ASSUME SetIInv, [SetNext]_set_vars PROVE SetIInv'
  OBVIOUS
<1> USE CharSetAssumption
<1>1. CASE Call
  BY <1>1, CallKeepsSetIInv
<1>2. CASE AddNext
  <2>1. /\ value' = value + 1 /\ value \in Characters /\ value <= end
        /\ UNCHANGED <<negations, turn, destination, source, end>>
    BY <1>2 DEF AddNext, Successor, SetIInv, SetTypeOK, Characters, UCHAR_MAX
  <2>2. bits' \in [Sets -> [0 .. CREGEX_CHARSET_SIZE - 1 ->
                               SUBSET (0 .. 7)]]
    BY <1>2, <2>1, AddCharKeepsType DEF AddNext, SetIInv, SetTypeOK
  <2> QED
    BY <2>1, <2>2 DEF SetIInv, SetTypeOK, SetLoopOK, Characters, UCHAR_MAX
<1>3. CASE EndLoop
  BY <1>3 DEF EndLoop, SetIInv, SetTypeOK, SetLoopOK, Characters, UCHAR_MAX
<1>4. CASE UNCHANGED set_vars
  BY <1>4 DEF SetIInv, SetTypeOK, SetLoopOK, set_vars, loop
<1> QED
  BY <1>1, <1>2, <1>3, <1>4 DEF SetNext

\* No byte outside of the array is written, however large the array is.
THEOREM SetTypeCorrect == SetSpec => []SetTypeOK
<1>1. SetSpec => []SetIInv
  BY InitSetIInv, StepKeepsSetIInv, PTL DEF SetSpec
<1> QED
  BY <1>1, PTL DEF SetIInv
-----------------------------------------------------------------------------
(* The refinement.                                                         *)

\* What a set answers now.
Now(s) == {c \in Characters : charset_contains(s, c)}

\* Between two calls the contents are what a set answers.
LEMMA IdleContents ==
    ASSUME turn = "idle", NEW s \in Sets
    PROVE  Contents(s) = Now(s)
BY DEF Contents, Remaining, Now

\* The same of the next state.
LEMMA IdleContentsNext ==
    ASSUME turn' = "idle", NEW s \in Sets
    PROVE  Contents(s)' = Now(s)'
BY DEF Contents, Remaining, Now

\* One set gets other contents.
LEMMA PutOne ==
    ASSUME NEW s \in Sets, NEW members,
           \A t \in Sets :
              Contents(t)' = IF t = s THEN members ELSE Contents(t)
    PROVE  Abstract!Put(s, members)
BY DEF Abstract!Put

\* No set does.
LEMMA SameContents ==
    ASSUME \A t \in Sets : Contents(t)' = Contents(t),
           UNCHANGED negations
    PROVE  UNCHANGED Abstract!vars
BY DEF Abstract!vars

\* At first all sets are empty.
LEMMA InitSetRefines == ASSUME SetInit PROVE Abstract!Init
<1>1. \A s \in Sets : Contents(s) = {}
  BY BitOfCharacter, IdleContents
  DEF SetInit, Now, charset_contains, HasBit, Cleared
<1> QED
  BY <1>1 DEF Abstract!Init, SetInit

\* charset_clear empties the set.
LEMMA ClearRefines ==
    ASSUME SetIInv, NEW s \in Sets, charset_clear(s)
    PROVE  Abstract!Clear(s)
<1>1. \A t \in Sets, c \in Characters :
         charset_contains(t, c)' <=> t # s /\ charset_contains(t, c)
  BY BitOfCharacter
  DEF charset_clear, charset_contains, HasBit, Cleared, SetIInv, SetTypeOK
<1>2. \A t \in Sets : Contents(t)' = IF t = s THEN {} ELSE Contents(t)
  BY <1>1, IdleContents, IdleContentsNext DEF Now, charset_clear
<1>3. {t \in Sets : negations'[t]} = {t \in Sets : negations[t]} \ {s}
  BY DEF charset_clear, SetIInv, SetTypeOK
<1> QED
  BY <1>2, <1>3, PutOne DEF Abstract!Clear

\* charset_add_char adds one character.
LEMMA AddCharRefines ==
    ASSUME SetIInv, NEW s \in Sets, NEW c \in Arguments,
           charset_add_char(s, c)
    PROVE  Abstract!Add(s)
<1>1. c \in Characters /\ (c .. c) \cap Characters = {c}
  BY CharSetAssumption DEF Characters, UCHAR_MAX
<1>2. \A t \in Sets, d \in Characters :
         HasBit(t, d)' <=> HasBit(t, d) \/ (t = s /\ d = c)
  BY <1>1, AddCharAddsOne DEF SetIInv, charset_add_char
<1>3. turn = "idle" /\ turn' = "idle" /\ negations' = negations
  BY DEF charset_add_char
<1>4. \A t \in Sets :
         Contents(t)' = IF t # s THEN Contents(t)
                        ELSE IF negations[s] THEN Contents(s) \ {c}
                        ELSE Contents(s) \cup {c}
  BY <1>1, <1>2, <1>3, IdleContents, IdleContentsNext, ZenonT(60)
  DEF Now, charset_contains
<1>5. Abstract!Put(s, Abstract!Added(s, (c .. c) \cap Characters))
  BY <1>1, <1>4, PutOne DEF Abstract!Added
<1> QED
  BY <1>3, <1>5 DEF Abstract!Add

\* charset_set_negated complements the set, or leaves it.
LEMMA NegateRefines ==
    ASSUME SetIInv, NEW s \in Sets, NEW flag \in BOOLEAN,
           charset_set_negated(s, flag)
    PROVE  Abstract!Negate(s) \/ UNCHANGED Abstract!vars
<1>1. /\ turn = "idle" /\ turn' = "idle" /\ bits' = bits
      /\ negations' = [negations EXCEPT ![s] = flag]
  BY DEF charset_set_negated
<1>2. CASE flag = negations[s]
  <2>1. negations' = negations
    BY <1>1, <1>2 DEF SetIInv, SetTypeOK
  <2>2. \A t \in Sets : Contents(t)' = Contents(t)
    BY <1>1, <2>1, IdleContents, IdleContentsNext
    DEF Now, charset_contains, HasBit
  <2> QED
    BY <2>1, <2>2, SameContents
<1>3. CASE flag # negations[s]
  <2>1. \A t \in Sets : negations'[t] = IF t = s THEN ~negations[s]
                                        ELSE negations[t]
    BY <1>1, <1>3 DEF SetIInv, SetTypeOK
  <2>2. \A t \in Sets, c \in Characters :
           charset_contains(t, c)' <=>
               IF t = s THEN ~charset_contains(t, c)
               ELSE charset_contains(t, c)
    BY <1>1, <2>1 DEF charset_contains, HasBit, SetIInv, SetTypeOK
  <2>3. \A t \in Sets :
           Contents(t)' = IF t = s THEN Characters \ Contents(s)
                          ELSE Contents(t)
    BY <1>1, <2>2, IdleContents, IdleContentsNext DEF Now
  <2>4. {t \in Sets : negations'[t]} =
            IF s \in {t \in Sets : negations[t]}
            THEN {t \in Sets : negations[t]} \ {s}
            ELSE {t \in Sets : negations[t]} \cup {s}
    BY <2>1 DEF SetIInv, SetTypeOK
  <2>5. Abstract!Put(s, Characters \ Contents(s))
    BY <2>3, PutOne
  <2> QED
    BY <2>4, <2>5 DEF Abstract!Negate
<1> QED
  BY <1>2, <1>3

\* charset_add_range has added all of the range when it begins.
LEMMA AddRangeRefines ==
    ASSUME SetIInv, NEW s \in Sets, NEW first \in Arguments,
           NEW last \in Arguments, charset_add_range(s, first, last)
    PROVE  Abstract!Add(s)
<1>1. /\ turn = "idle" /\ turn' = "range"
      /\ bits' = bits /\ negations' = negations
      /\ destination' = s /\ value' = first /\ end' = last
  BY DEF charset_add_range, Begin
<1>2. Remaining' = (first .. last) \cap Characters
  BY <1>1, CharSetAssumption DEF Remaining, Characters, UCHAR_MAX
<1>3. \A t \in Sets : Now(t)' = Now(t)
  BY <1>1 DEF Now, charset_contains, HasBit
<1>4. \A t \in Sets :
         Contents(t)' =
            IF t # s THEN Contents(t)
            ELSE IF negations[s]
            THEN Contents(s) \ ((first .. last) \cap Characters)
            ELSE Contents(s) \cup ((first .. last) \cap Characters)
  BY <1>1, <1>2, <1>3, IdleContents DEF Contents, Now
<1>5. Abstract!Put(s, Abstract!Added(s, (first .. last) \cap Characters))
  BY <1>4, PutOne DEF Abstract!Added
<1> QED
  BY <1>1, <1>5 DEF Abstract!Add

\* charset_add_set has added what the other set contains then.
LEMMA AddSetRefines ==
    ASSUME SetIInv, NEW s \in Sets, NEW from \in Sets,
           charset_add_set(s, from)
    PROVE  Abstract!Add(s)
<1>1. /\ turn = "idle" /\ turn' = "set"
      /\ bits' = bits /\ negations' = negations
      /\ destination' = s /\ source' = from
      /\ value' = 0 /\ end' = UCHAR_MAX
  BY DEF charset_add_set, Begin
<1>2. \A t \in Sets : Now(t)' = Now(t)
  BY <1>1 DEF Now, charset_contains, HasBit
<1>3. Remaining' = Now(from)
  BY <1>1, <1>2, CharSetAssumption
  DEF Remaining, Now, Characters, UCHAR_MAX, charset_contains, HasBit
<1>4. \A t \in Sets :
         Contents(t)' = IF t # s THEN Contents(t)
                        ELSE IF negations[s]
                             THEN Contents(s) \ Contents(from)
                             ELSE Contents(s) \cup Contents(from)
  <2>1. \A t \in Sets : Contents(t) = Now(t)
    BY <1>1, IdleContents
  <2>2. \A t \in Sets :
           Contents(t)' =
              IF t # s THEN Now(t)'
              ELSE IF negations[s] THEN Now(t)' \ Remaining'
                   ELSE Now(t)' \cup Remaining'
    BY <1>1 DEF Contents, Now
  <2> QED
    BY <1>2, <1>3, <2>1, <2>2
<1>5. Abstract!Put(s, Abstract!Added(s, Contents(from)))
  BY <1>4, PutOne DEF Abstract!Added
<1> QED
  BY <1>1, <1>5 DEF Abstract!Add

\* A turn of a loop takes one character from what remains to what is there.
LEMMA AddNextRefines ==
    ASSUME SetIInv, AddNext PROVE UNCHANGED Abstract!vars
<1>1. /\ turn # "idle" /\ value <= end /\ value' = value + 1
      /\ UNCHANGED <<negations, turn, destination, source, end>>
      /\ value \in Characters /\ destination \in Sets /\ source \in Sets
  <2>1. /\ turn # "idle" /\ value <= end /\ value' = value + 1
        /\ UNCHANGED <<negations, turn, destination, source, end>>
    BY DEF AddNext, Successor
  <2>2. value \in Characters /\ destination \in Sets /\ source \in Sets
    BY <2>1, CharSetAssumption DEF SetIInv, SetTypeOK, Characters, UCHAR_MAX
  <2> QED
    BY <2>1, <2>2
<1>2. DEFINE adds == turn = "range" \/ charset_contains(source, value)
<1>3. \A t \in Sets, d \in Characters :
         HasBit(t, d)' <=>
             \/ HasBit(t, d)
             \/ adds /\ t = destination /\ d = value
  <2>1. CASE adds
    <3>1. AddChar(destination, value)
      BY <2>1 DEF AddNext
    <3> QED
      BY <1>1, <2>1, <3>1, AddCharAddsOne DEF SetIInv
  <2>2. CASE ~adds
    BY <2>2 DEF AddNext, HasBit
  <2> QED
    BY <2>1, <2>2
<1>4. value \in Remaining <=> adds
  BY <1>1 DEF Remaining, SetIInv, SetTypeOK, SetLoopOK, Characters, UCHAR_MAX
<1>5. Remaining' = Remaining \ {value}
  <2>1. \A d \in Characters :
           d # value => (charset_contains(source, d)' <=>
                            charset_contains(source, d))
    BY <1>1, <1>3 DEF charset_contains
  <2>2. \A d \in Characters : value + 1 <= d <=> value <= d /\ d # value
    BY <1>1 DEF Characters, UCHAR_MAX
  <2> QED
    BY <1>1, <2>1, <2>2 DEF Remaining
<1>6. \A t \in Sets : Contents(t)' = Contents(t)
  <2> TAKE t \in Sets
  <2>1. CASE t # destination
    BY <1>1, <1>3, <2>1 DEF Contents, charset_contains
  <2>2. CASE t = destination
    BY <1>1, <1>3, <1>4, <1>5, <2>2 DEF Contents, charset_contains
  <2> QED
    BY <2>1, <2>2
<1> QED
  BY <1>1, <1>6, SameContents

\* The end of a loop changes nothing.
LEMMA EndLoopRefines ==
    ASSUME SetIInv, EndLoop PROVE UNCHANGED Abstract!vars
<1>1. Remaining = {} /\ Remaining' = {}
  BY DEF EndLoop, Remaining, SetIInv, SetTypeOK, Characters, UCHAR_MAX
<1>2. \A t \in Sets : Contents(t)' = Contents(t)
  BY <1>1 DEF EndLoop, Contents, charset_contains, HasBit
<1> QED
  BY <1>2, SameContents DEF EndLoop

\* Every step is one of the specification or changes nothing of it.
LEMMA SetStepRefines ==
    ASSUME SetIInv, [SetNext]_set_vars
    PROVE  [Abstract!Next]_(Abstract!vars)
<1>1. CASE Call
  <2>1. PICK s \in Sets :
           \/ charset_clear(s)
           \/ \E c \in Arguments : charset_add_char(s, c)
           \/ \E first, last \in Arguments :
                 charset_add_range(s, first, last)
           \/ \E t \in Sets : charset_add_set(s, t)
           \/ \E flag \in BOOLEAN : charset_set_negated(s, flag)
    BY <1>1 DEF Call
  <2>2. \/ Abstract!Clear(s) \/ Abstract!Add(s)
        \/ Abstract!Negate(s)
        \/ UNCHANGED Abstract!vars
    BY <2>1, ClearRefines, AddCharRefines, AddRangeRefines, AddSetRefines,
       NegateRefines
  <2> QED
    BY <2>2 DEF Abstract!Next
<1>2. CASE AddNext
  BY <1>2, AddNextRefines
<1>3. CASE EndLoop
  BY <1>3, EndLoopRefines
<1>4. CASE UNCHANGED set_vars
  <2>1. \A t \in Sets : Contents(t)' = Contents(t)
    BY <1>4 DEF set_vars, loop, Contents, Remaining, charset_contains, HasBit
  <2> QED
    BY <1>4, <2>1, SameContents DEF set_vars
<1> QED
  BY <1>1, <1>2, <1>3, <1>4 DEF SetNext

\* The arrays of bytes with their loops implement sets of characters that
\* are changed in one step, however many characters there are.
THEOREM RefinesCharSetSpec == SetSpec => ImplementsCharSetSpec
<1>1. SetInit => Abstract!Init
  BY InitSetRefines
<1>2. SetIInv /\ [SetNext]_set_vars
        => [Abstract!Next]_(Abstract!vars)
  BY SetStepRefines
<1> QED
  BY <1>1, <1>2, InitSetIInv, StepKeepsSetIInv, PTL
  DEF SetSpec, ImplementsCharSetSpec, Abstract!Spec
=============================================================================
