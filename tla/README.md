# A TLA+ model of cregex

cregex compiles a pattern to a nondeterministic finite automaton and simulates
it on a text. This directory holds a specification of what the matcher
promises, models of the code that keeps the promise, the TLC configurations
that check one against the other on small instances, and TLAPS proofs for all
instances.

## 1. The system

| component | source | state it keeps | operations |
|---|---|---|---|
| lexer | `src/lexer.c`, `src/token.c` | offset in the pattern, inside a class or not | next token, escapes |
| grammar | `src/grammar.c` | none: productions and the LL(1) table | lookup |
| parser | `src/parser.c`, `src/parse_tree.c` | token, explicit stack, parse tree | parse, lower to the AST |
| AST | `src/ast.c` | the tree | constructors, free, print |
| character sets | `src/charset.c` | 256 bits | add, range, invert, contains |
| compiler | `src/compiler.c` | C stack, patch lists on the heap | one function per node type |
| NFA program | `src/nfa.c` | growing array of states, start | append, patch, init, free |
| NFA simulator | `src/vm.c` | two state lists, a stack, marks | full match, search |
| regex API | `src/regex.c` | the handle, the list of matches | compile, match, search, find all, free |
| command line | `cli/main.c` | none | prints each stage |

A call goes down one way: `regex_compile` runs the parser (which pulls tokens
from the lexer), then the compiler, which appends states to the program.
`regex_full_match`, `regex_search` and `regex_find_all` run the simulator on
the program, the last one repeatedly. There are no threads, callbacks or
files; a `Regex` is only read once it is compiled.

What is hard in this code, in the order of importance:

* the simulator's set of states is kept by marks that are never cleared, in
  arrays written without bound checks, over programs with cycles that consume
  nothing;
* leftmost-longest: when a run may stop, and when a search may move on;
* `regex_find_all` behind an empty match, at the end of the text, and when its
  list cannot grow;
* the compiler's patch lists: who owns which at each of its many failures, and
  that each open transition is in exactly one;
* what a counted repetition or a loop around something empty compiles to;
* the parser's stack and its partial trees when an allocation fails; the table
  that is written out by hand beside the productions; error messages chosen by
  what happens to be on the stack;
* classes: the lexer's mode while the scanner looks one token ahead, hyphens,
  and which of two errors is reported;
* the lowering to left-leaning trees with accumulators, and who releases what
  when it fails;
* a client that uses its handles, lists and result variables for many calls, in
  any order, some of them with null arguments.

The hazards, each at its line and with the properties that would catch it, are
in `PROJECT.json`.

## 2. The modules

    Characters            the alphabet
      NfaProgram          a program, and the reference semantics of one
        VmCalls           calls of the matcher and the answers they may have
          MatchSpec       SPECIFICATION: a call is answered once, rightly
          NfaVm           src/vm.c                    refines MatchSpec
            NfaVmInvariant, NfaVmProofs
      Ast                 the tree
        PatternMeaning    what a tree matches, by its structure alone
        Compiler          src/compiler.c and src/nfa.c
          CompilerMeaning the program matches what the tree matches
          CompilerProofs
      PatternSyntax       which token sequences are patterns, by counting groups
        ParserSpec        SPECIFICATION: accepted, or refused with the reason
        SyntaxMeaning     what a pattern matches, by precedence alone
      Parser              parser_parse_tree, src/parse_tree.c
                          (EXTENDS Grammar: src/grammar.c) refines ParserSpec
        Lowering          parser_parse, constructors of src/ast.c
                          (EXTENDS Parser, Ast)            refines ParserSpec
          LoweringMeaning the tree matches what the pattern matches
          LoweringProofs
        ParserProofs      of Parser; LoweringProofs EXTENDS it
      Lexer               src/lexer.c
        Scanner           parser_scan_token and parser_scan_character_class
          ScannerProofs   of Scanner and of CharSet
      PatternText         what the characters of a pattern say
    CharSetSpec           SPECIFICATION: sets of characters
      CharSet             src/charset.c               refines CharSetSpec
    FindAllSpec           SPECIFICATION: the list of all matches
      RegexFindAll        regex_find_all of src/regex.c   refines FindAllSpec
        RegexFindAllProofs
      Cli                 cli/main.c                  refines FindAllSpec
        CliProofs
    Regex                 the rest of src/regex.c, and its client
      RegexProofs

The modules meet where the code calls: what `Scanner` is shown to deliver
(`IsTokenSequence`) is what `Parser` assumes of its input; `Lowering` runs
`Parser` as its first phase and ends with a tree that satisfies `IsAst`, which
`Compiler` assumes of its own; `Compiler` ends with a program that means what
the tree means; `NfaVm` answers for any program, and `RegexFindAll`, `Regex`
and `Cli` use its answers. `ParsedMeansPattern`, `CompiledMeansAst` and
`ImplementsMatchSpec` are the three links from what a pattern says to what a
match returns. `PatternMeaning`, `SyntaxMeaning`, `PatternSyntax` and
`PatternText` translate no code: they are definitions of what is right, written
without the mechanism they are compared with (no table, no lexer mode, no
automaton).

The modules whose names begin with `MC_` give the constants their values for
TLC. In the modules of the code a definition whose comment begins with "Mutant"
is a plausible bug: no action uses it. Put in the place of the definition behind
it, it makes one of the properties fail, which shows that the property depends
on that piece of the code.

### Lexer and Scanner

`lexer_next` is a function of the pattern and of the lexer, which are the
offset and whether it is inside of a class; `lexer_peek` calls it with a copy.
One behaviour of `Scanner` is all calls of `parser_scan_token` for one pattern,
until it has the end or an error. A class is scanned by steps, one per turn of
the loop of `parser_scan_character_class`, with `current` the token that loop
is at (`pc` is `open` before the `^` is looked for and `item` in the loop). A
`CharSet` is the set of its characters here, as `RefinesCharSetSpec` justifies.
`result` keeps for each terminal the part of the pattern it was read from, which
the code does not need but the properties do.

### Grammar and Parser

`Productions` and `grammar_table_lookup` are the two arrays of `grammar.c`. One
behaviour of `Parser` is one call of `parser_parse_tree` on a sequence of
tokens, which may end in an error of the lexer. `tree` is the sequence of nodes
in the order of `parse_tree_node_create`, `live` those not released, `stack` and
`capacity` the `ParseStack`. One action is one turn of the loop; `Expand` has an outcome for
the failure of the array of children, of each child, and of each growth of the
stack in the middle of the pushes. Positions are indices of tokens, where the
code has offsets of characters. `ParserSpec` is the contract in one step:
accepted if and only if a pattern, otherwise the first wrong token and the
message for it, or an allocation that failed.

### Lowering

`parser_parse` as a whole: the steps of `Parser`, then the `lower_` functions,
whose recursion is `frames`: a call that waits for its atom, for its first
operand, for the next operand of a tail, or for what it returns unchanged.
`mode` says whether a node is being entered (`call`), a tail (`tail`) or a
result passed up (`return`). `ast` is the sequence of nodes that `ast_allocate`
made, children first, which is what `Ast` wants of a tree, and `owned` those not
yet freed. `left` is the accumulator, and the result in the end.

### CharSet

A byte is the set of its bits, `negations` has the field `negated` of each set,
and `turn` names the loop that is going on. `charset_clear`, `charset_add_char`
and `charset_set_negated` are one step, `charset_add_range` and
`charset_add_set` one step for each turn of their loops, as the source may be
the destination. `charset_contains` is a state function, read by the copy loop
and by the refinement mapping. The three named sets (`charset_digit` and the
others) are operators of `Scanner`.

### Regex

A client with two `Regex` pointers, one list and one variable for each kind of
result, which it passes to every call or leaves out. `heap` is the set of
blocks that are allocated, at addresses which `malloc` may use again. The
parser, the compiler and the simulator are one step each, which may fail: that
they release what they allocated is shown in their own modules. A call of
`free` is a step; `frees` is what the call has still to free. The client obeys
the header: it does not compile to a handle that is in use (the code would lose
it), does not fill a list it has not freed, and a text a call is given outlives
it. `Meaning` stands for what a match answers.

### Cli

One run of `main`, for every number of arguments and every option. `held` is
what it has to free, `stdout` the lines it prints (a dump is one line). A
search is one step, with `ends` as in `RegexFindAll`, and may fail. `Answer`
reads the printed lines as the list that `regex_find_all` would have returned,
which makes `FindAllSpec` the specification of the command's own loop too.

### NfaVm: the simulator

One behaviour is one call. `call` holds the arguments; it may be any
combination of null pointers, a program that cannot be run, and a
`search_start` outside of the text. `pc` is the place in the code:

| pc | code |
|---|---|
| enter | entry of `nfa_vm_full_match` / `nfa_vm_search_from`, early returns |
| allocated | `vm_initialize`, behind its four allocations |
| run | the loop over the starts |
| seed | `vm_add_closure` that fills `current` |
| read | the head of the loop over the text |
| scan | the loop over `current` |
| follow | `vm_add_closure` that fills `next` |
| finish | the end of `vm_run_from` |
| done | returned |

Each turn of each loop is an action, so the arrays are seen at every point at
which the code writes them. Arrays are sequences (`current_count` is the
length), an index of C is one less than the index of TLA+, `arrays` says which
of the four blocks are allocated. The first check of `vm_run_from`
(start past the text) repeats one its callers have made and is left out; so is
the null check for `vm` in `vm_initialize`. Error messages are shortened.

### RegexFindAll

One behaviour is one call of `regex_find_all`. A search is a single step: the
regex and the text appear as the function `ends` from each offset to the set
of offsets at which a match from there can end, and a search returns the
largest end of the first offset that has one. That nfa_vm_search_from does
just that is `SearchContract` in `NfaVmProofs`, which joins the two
models. `room` is the size of the block and `capacity` what the code believes
it to be.

The error "too many regex matches" needs a capacity above half of `SIZE_MAX`,
which a list of entries of two bytes or more cannot have: the check behind it
(`regex match list is too large`) always comes first.

### Compiler

One behaviour is one call of `compiler_compile`. The recursion is the sequence
`frames`: each frame is a C function that waits for the fragment of a child,
and holds the fragment it has so far. `mode` says whether a node is being
entered, a fragment returned, a repetition continued or a failure passed up.
`references` is the set of `PatchReference` blocks on the heap, each named by
the transition it stands for, and a list is the set of its entries (the order
plays no role). Every `malloc` and `realloc` may fail. `AppendFragment`,
`Patched` and the start have no failing branch: `StaysInside` shows that the
conditions of those branches never hold.

The tree is a sequence of nodes in which children come before their parents. A
subtree may have several parents there; the code only reads it.

## 3. What is checked

| run | instance | states | shows |
|---|---|---|---|
| `vm_answers` | all programs of two states, texts up to 2 | 572,584 | the memory discipline, that marks are those of the list being filled, and that NfaVm implements MatchSpec, with termination |
| `vm_lists` | 12 programs of three states, texts up to 2 | 9,704 | that lists, ends and starts are exact |
| `find_all` | all sets of matches in texts up to 3 | 9,067 | all matches, none twice, each search behind the last |
| `find_all_limit` | the same, growth refused at three matches | 8,948 | block bounds and cleanup at the limit |
| `compiler` | over 300 trees, up to six nodes | 18,699 | meaning, ownership, patching, size, depth |
| `parser` | all sequences of 2 tokens, of 4 for the stack, 3 long ones | 35,004 | right answer and message, stack, ownership, linear work |
| `lowering` | all patterns of 4 tokens of six kinds, 8 long ones | 26,007 | meaning, ownership of partial trees, depth |
| `scanner` | all short patterns over 29 characters | 24,937 | tokens, classes, errors, the lexer's mode, termination |
| `scanner_counts` | the patterns of `tests/test_repetition.c` | | VIOLATION: counts are refused |
| `charset` | two sets of 16 characters, any number of calls | 61,864 | bytes behave as sets, loops end |
| `regex` | two handles, three strings, two texts, any number of calls | 877,812 | each block freed once, answers and reports are those of this call |
| `cli` | all command lines, all sets of matches in texts up to 3 | 45,388 | exits, output, and that `--find-all` is `regex_find_all` |

Each module has one type invariant. It is checked as a conjunct of a property
that needs it (`StaysInside`, `StackIsFrontier`, `AstOwnedOnce`,
`TokensAreRight`, `BlocksOwnedOnce`, `ExitsAreClean`) or only proved (`NfaVm`,
`RegexFindAll`, `CharSet`).

Bounds, and why they are enough:

* `UINT_MAX = 2`: the counter wraps after every second list, so that lists
  with a wrap before, between and behind them all occur; a stale mark is
  found. With the real value no run would ever wrap.
* Programs of two states cover every combination of state types with every
  pair of transitions, including those that leave the program, states that
  lead to themselves and cycles that consume nothing. The three-state programs
  have the shapes the compiler makes of `a*`, `a+`, `.?`, `ab`, `^a`, `b$`,
  `()*`, two cycles and two broken programs.
* Two characters `a` and `b` in patterns tell "matches" from "does not". Texts
  of two have a first, a middle and a last offset.
* `INITIAL_CAPACITY = 1` for the list (8 in the code) and 2 for the program
  (16 in the code): the growing happens, twice, within the instance. The
  limits are `MAXIMUM_SIZE` and `MATCH_SIZE`.
* `MAX_REPEAT_COUNT = 2` (1000 in the code), with bounds above it refused.
* The trees nest every loop in and beside every other, with bodies that are a
  character, empty or an assertion. Each is compared with its meaning at every
  offset of all texts up to length 3.
* `Parser`: `STACK_CAPACITY = 3` (16 in the code) lets the stack grow between
  two children of one node; `MAXIMUM_SIZE = 100` with pointers of 8 bytes allows
  two growths and refuses the third, which the long patterns reach. The table
  has one row for each nonterminal and looks at one token, so two tokens of any
  kind show each entry that is not reached only inside a group, and four tokens
  of the kinds that nest show those. A sequence goes on for at most one token
  behind the first wrong one, as nothing is read there.
* `Lowering`: four tokens nest a group, a choice and a star in each other in
  every order that fits; the long patterns have both tails twice, every
  quantifier, and every atom. `STACK_CAPACITY` is the real one: the stack's own
  failures are those of `parser`.
* `Scanner`: `-`, `[`, `\`, `]`, `^`, `a` and `d` are what can mean something
  inside of a class, with one character and one shorthand for the rest; four of
  them in any order, or five behind the bracket, hold a range between two
  members, with either end missing, escaped or a shorthand. Pairs of all
  characters with a meaning cover the tokens outside of a class.
* `CharSet`: two bytes have a border between them, and 7 and 15 are the last
  characters of each; the second is `UCHAR_MAX`. The number of calls is not
  bounded.
* `Regex`: six addresses are what two handles with their programs, and one more
  compilation or list, need at once. `malloc` returns the lowest free one,
  so that what was freed is used again at once, the worst case for a pointer
  that was kept. The patterns and texts give a whole match, an empty one and
  none.

`CompiledMeansAst` computes what can be reached, step by step (`Reached`); the
assumption `ReachedIsReachable` of `MC_NfaVm` compares that with the definition
as a least set (`Reachable`), and `ComputedIsReachable` proves that they are the
same.

Deadlock is checked in `charset` and `regex`, where a client goes on for ever.
It is off in the other runs: a call or program that has returned does nothing
more. There termination is checked instead, as liveness (`IsAnswered`,
`Terminates`, `LoopsEnd`) or, where a loop that does not end is one that runs
out of memory and so returns all the same, by a bound: `SearchMovesOn` (each
search begins behind the one before it), `NoDeeperThanTree` and `SizeIsAsCounted`
for the compiler, `WorkIsLinear` for the parser (nodes per token read) and
`NoDeeperThanParseTree` for the lowering.

Fairness is `WF_vars(Next)` for `NfaVm` and `Scanner`, and weak fairness of the
steps of a loop that has begun for `CharSet`, whose client need not make another
call. The code is sequential and nothing in it waits, so a call that can take a
step takes it. Nothing stronger is assumed; which allocation fails is left open.
The other models assert no liveness and assume no fairness.

### Where the tests and the code disagree

`tests/test_repetition.c:209` expects `a{3}` to parse, and `(ab){2,4}`,
`[0-9]{2,}` and `a{0}` behind it. The lexer has tokens for the braces, but
`parser_scan_token` has no case for them (`parser.c:391`), the grammar no
terminal and the lowering no production, so that all four are refused with
"unexpected token": run `scanner_counts`. `CMakeLists.txt` does not build that
test. `AST_REPEAT` exists in `ast.h` and the compiler handles it, so that a
client of these two can still have counted repetitions; `Compiler` models them.

## 4. What is proved

All of the following hold for every value of the constants that satisfies the
named assumptions, that is for programs, trees, patterns, texts, limits and
character sets of any size. The assumptions say of the constants what the C
types and the callers' side of the headers say:

| assumption | what it says |
|---|---|
| `CallsAssumption`, `UintMaxAssumption` | programs are what `IsProgram` says, texts are of characters, a counter has at least the values 0 and 1 |
| `FindAllAssumption` | lengths, the first capacity, the size of an entry and the limit are numbers, the two in the middle not 0 |
| `CharSetAssumption` | a set has at least one byte, arguments are characters of it |
| `CompilerAssumption` | a tree is what `IsAst` says (children before parents, as `Lowering` ends with one), the first capacity is not 0; of `MAX_REPEAT_COUNT` only that it is a number |
| `TextsAssumption` | a text is a sequence of characters |
| `ParserAssumption`, `LoweringAssumption` | the tokens end with END or an error and have none before (as `Scanner` delivers them); capacities and sizes are numbers |
| `ScannerAssumption` | a pattern is a sequence of characters, none of them 0; where a control escape can be written, the character it stands for is one |
| `RegexAssumption`, `MeaningAssumption` | null is no object; `malloc` returns a free block, any one; a match is a pair of offsets, and nothing else is said of which |
| `CliAssumption` | null is no message and no exit status |

Addresses, the number of handles, and which allocation fails are not bounded by
any of them. Most theorems say `Spec => []P` of an invariant `P` that a run
checks as well, and follow from an inductive invariant that says more.

**The simulator.** `IInv` (in `NfaVmInvariant`) is the inductive invariant, in
three layers. `TypeInv` relates `pc` to the types and ranges of the variables.
`ListInv` says that the list being filled and the stack together hold every
state at most once, and only marked ones, and that no mark is above the
generation: it is what makes a fresh generation mark nothing, and
`WithinArrays` follows since a sequence without repetition over `count` states
has at most `count` entries. `LevelInv` says that the list being filled is
closed but for the states on the stack, in terms of reachability: nothing on
it is unreachable, and every move of a state that was taken from the stack
leads to a marked state. With an empty stack the list is therefore exact
(`CurrentIsExact`), which is the step from one character to the next. The
properties themselves are not inductive: `CurrentIsExact` says nothing in the
middle of a list. `MarksAreOfThisList` does, and follows from the two layers: no
state is twice on the list and the stack, and each marked state is on the stack
or was handled for this list, so that no mark of an older list hides a state.

`NfaVmProofs` has `TypeCorrect`, `ArraysSuffice`, `NothingLeaks`, `Invariant`,
`NoMarkIsStale` (`MarksAreOfThisList`), `ListIsExact`, `LongestEndFound`,
`SearchIsLeftmost`, then `AnswersAreRight` (`Spec => ImplementsMatchSpec`), from
the invariant and one lemma per way out of the call, and `SearchContract`.

**Find all.** `RegexFindAllProofs` proves `TypeCorrect`, `NoOverlap`,
`NoMatchLost`, `SearchAdvances`, `ListFits` and `FindAllIsRight` (`Spec =>
ImplementsFindAllSpec`). Its invariant adds to the checked properties that
each listed match is the longest from its start and, between a search and the
append, that the found match is the first one. What it takes for the list to be
complete (`AppendListed`, `ListedAll`: the first match behind the last one is
the next) are lemmas about `FindAllSpec`, which `CliProofs` states again of its
own loop.

**Character sets.** The last part of `ScannerProofs` proves `SetTypeCorrect`, so
that every byte that is read or written is one of the array, and
`RefinesCharSetSpec` (`SetSpec => ImplementsCharSetSpec`). A loop of many steps
is one step of the specification. The refinement mapping takes that step at the
start of the loop: it counts the characters the loop has still to add
(`Remaining`) as added. The invariant it needs is `SetLoopOK`; that a set may be
copied to itself, also a negated one, comes out of the case distinction in
`Remaining`.

**The compiler.** `CompilerProofs` has three invariants on top of the inductive
one. `IInv` relates the waiting calls to the program: each call has a node of
its kind and holds a fragment exactly if a child has returned (`FramesOK`); each
patch reference on the heap is in the list of one call, or of the fragment being
returned, and the references are just the open transitions of the program
(`ReferencesOK`, `ListsAreExact`); every other transition leads to a state
(`LeadsInside`). From it come `TypeCorrect`, `NoReferenceLeaks`
(`ReferencesOwnedOnce`), `PatchListsExact` (`ListsAreExact`) and
`NoTransitionLeaves` (`StaysInside`), whichever allocation fails. `DepthOK` adds
that each call fits under the one below it, which gives `DepthBounded`
(`NoDeeperThanTree`). `SizeOK` adds that the states there are and those the
calls have still to append come to what `StatesOf` computes from the tree, which
gives `SizeCounted` (`SizeIsAsCounted`). Counted repetitions are the difficult
case of both, as one node is compiled many times.

That the program means what the tree means is `MeaningKept`
(`CompiledMeansAst`). A part of a program, a set of states with an entry and an
exit, `Means` a set of spans `R` if for every set `X` of offsets a run that
enters at `i` can be kept from leaving at an offset outside of `X` if and only
if every span of `R` that begins at `i` ends in `X`. One direction speaks of all
sets of configurations that are closed but for the exit (`Ends`), the other
gives one (`Keeps`), so that there is no induction over the length of a run, and
a loop is a part like another one (`MeansLoop`). Parts are put together by one
lemma for each operator (`MeansThen`, `MeansEither`, `MeansMaybe`, `MeansLoop`),
and another exit is another name for it (`RedirectedMeans`), which is what
patching does. A fragment `Stands` for `R` if its states are an interval of the
array, its list of patches is what is open in them, and they mean `R` when what
is open is taken as the exit. The invariant (`MeaningOf`, for one text) cuts the
array into the intervals of the waiting calls, from the bottom of the stack up:
each call holds a fragment for the children it has had (`Holds`; for a counted
repetition, for as many rounds as it has counted), and what it will return after
the next child is what the call below it waits for (`SpansLinked`). A step
appends behind all of them and patches only the fragment it has in its hands, so
that the others stay what they were. `ReachedFacts` links the meaning of the
whole to the reference semantics of `NfaProgram`: the set computed by `Reached`
is closed and least, as the sets before the last grow by one configuration at
least. `CompiledMatches` says the same with the definitions `MatchSpec` is
written in (`MatchEnds`, `IsBroken`), which makes it the joint with
`AnswersAreRight` of the simulator.

**The scanner.** `ScannerProofs`. `PatternText` says what a class matches and
what is wrong with it by a recursion over its elements from the front; the
scanner adds to a set as it goes. The invariant (`ClassOK`, in `IInv`) joins
them: the members so far and what the elements still there add (`MembersFrom`)
are together what all of the elements say, and what is wrong with the elements
still there (`ComplaintFrom`) is what is wrong with all of them. Both are
recursive functions whose equation is proved first (`MembersEquation`,
`ComplaintEquation`, from the length of the pattern down). The other half of the
invariant is about the lexer: `ModeOK` puts it, between two terminals, where the
last one ends and outside of a class, and inside of a class one token ahead,
with `current` the token that `lexer_next` gives at an element; an offset is
`Fresh` if it is not the second half of an escape, and a token leads from a fresh
offset to a fresh one (`ElementFacts`, `LexerMoves`). From it come
`LexerModesAgree`, `ScannedTokensAreRight` and `RefusalsAreRight`. The second
ends with `IsTokenSequence`, which `ParserAssumption` asks of the parser's
input.

**The parser.** `ParserProofs`. What makes the parser right is an order on its
stack: `Below` says which symbols can be right under which, `Fitting` which
token can be there when a symbol is on top, and each row of the table keeps both
(`RowsOK`). The work is an argument about potential: `Cost` is what a symbol
still costs beyond the nine nodes that a token pays for, `Least` the least that
a stack can cost below it; a row never costs more than the symbol it replaces.
For the frontier, `SpansOK` gives each node the interval of the leaves below it;
expanding a node splits its interval, or empties it. Together: `TypeCorrect`,
`NodesAreOwnedOnce`, `LinearWork` and `StackFrontier`. By the same order the
branches "unexpected token" and "invalid grammar production", which guard against
a table that does not fit the productions, are not reached.

`ParserRefinement` (`Spec => ImplementsParserSpec`) says that the grammar and
its table accept exactly the patterns. `ParserSpec` knows no grammar: it says
which token may follow which and counts groups. The invariant `SyntaxIInv`
(`SyntaxInvariant`) relates the two at every step. The tokens read are viable,
that is each may follow the one before and no group is closed too often. Each
RPAREN on the stack closes one of the open groups (`DepthOK`; an LPAREN on top
has still to open one), so that with an empty stack no group is open.
The top of the stack fits the tokens on both sides of it (`Guided`): `Quantifier`
is there behind an atom or a group only, `AlternationTail` behind an operand. A
row of the table that exists keeps this (one lemma for each kind of row), and
where none exists the token may not follow: it is the first wrong one, and the
message is the one for it (`FaultOK`).

**The lowering.** `LoweringProofs`. `LoweringIInv` takes over when the parser is
done. It then knows the tree to be whole, a node of it to have the children of
its production, and each leaf its token (`Parsed`). `CallsOK` says that each
call works below the node of its caller, by heights, and that its function is
one for that node: so the branches for an invalid parse tree are not reached
(`LoweringTypeCorrect`), and the calls are no deeper than the tree is high
(`CallsAreBounded`). `ResultOK` says that the nodes allocated are trees without
a common node whose roots are just what the calls hold. A constructor joins
roots to one, `ast_free` removes whole trees (`TreeOfIsRooted`), so that it
stays so when an allocation fails in any place: `AstIsOwnedOnce`. Without a
failure nothing has been freed, so that what is returned is the whole sequence:
`ResultIsAst` has the tree as `CompilerAssumption` wants it, which is one of the
joints between two modules. `ParseRefinement` (`LoweringSpec =>
ParseImplementsParserSpec`) carries `ParserRefinement` to the end of
`parser_parse`: lowering changes the verdict only where memory runs out.

`ParsedMeaning` (`LoweringSpec => []ParsedMeansPattern`) says that the tree has
the matches that the tokens have by the precedence of the operators. There are
three things to relate. `SyntaxMeaning` cuts the tokens at their first bar, else
behind their first operand. The grammar has lists with tails, which `Placed` puts
in their places: each node has the tokens `from[n] + 1 .. to[n]`, its children
one behind the other (`TreeIsPlaced`, by the spans of `StackFrontier`), and
`TreeStands` shows bottom up that these tokens can be those of its symbol, an
operand, a list without bars, a whole group. So where the grammar ends a part the
reference does (`FirstBar`, `FirstEnd`), and a node means what its children do
(`NodeMeans`). The result, last, is left-leaning: `a b c` is `(a b) c` there, and
the reference has `a (b c)`; `Then` is associative (`ThenAssociates`), and so is
the union.

The lowering is in between most of the time. The invariant `LoweringMeans`
(`LoweringKeepsMeaning`) says that what is made, what waits and what is yet to be
lowered add up: `h` are the meanings of the nodes of the parse tree, `m` those of
the nodes made so far, and `b[i]` what the call at depth `i` waits for, so that
`b[0]` is the meaning of the pattern and `b[K]` that of what is under way, which
is `m[left]` with the rest of its tail (`WithTail`) in a tail. With no call left,
`m[left]` is the meaning of the pattern, and the reference gives the tree no
other (`ResultHasMeaning`).

**The handle API.** `RegexProofs`: each block has one owner, which is a handle, the
list, a variable of the call under way, or what it has still to free. The
invariant adds to `BlocksOwnedOnce` (theorem `OwnedOnceEach`) what the call
knows at each `pc` (`CallOK`, `OutputsOK`, `LocalsOK`). A step gives a block to
someone, takes it from one, or hands it on, and one lemma says for each that
ownership stays unique. The action properties `ReplyIsThisCalls` (`RepliesAreOwn`)
and `AnswersAreRight` (`AnswersAreOfHandle`) follow.

**The command line.** `CliProofs`: `AllIsReleased` (`ExitsAreClean`),
`LinesAreTheMatches` (`LinesAreNumbered`), `NoMatchIsSaid` (`NoMatchIsTrue`) and
`FindAllIsPrinted` (`Spec => ImplementsFindAllSpec`).

Some definitions of the models are recursive functions, `Heights` and `TreeOf`
for example. Their values are proved by first showing a function that satisfies
the recursion, with a set of the nodes for which there is one that has to
contain all of them (`UpwardFunction`, `DownwardFunction`): an induction over a
set, which the prover can do, where one over a formula is out of its reach.

Only model-checked:

* termination (`IsAnswered`, `Terminates`, `LoopsEnd`): liveness is out of the
  prover's reach; the bounds it rests on are proved (`LinearWork`,
  `DepthBounded`, `CallsAreBounded`, `SearchAdvances`);
* that a count is refused (`CountsAreScanned` is violated): a counterexample
  needs no proof.

## 5. What is not modelled

* Printing (`ast_print`, `nfa_program_print`, `parse_tree_print`, the names of
  tokens and symbols, usage): it changes no state.
* The width of `size_t`: offsets and indices are natural numbers. The overflow
  checks of the list and of the parser's stack are modelled, with
  `MAXIMUM_SIZE` for `SIZE_MAX`. The missing one of `nfa_program_grow`
  (`nfa.c:38`) would need more memory than there is.
* The size of the C stack, except that the recursion of the compiler and of
  the lowering is bounded by the height of the tree they work on; so is that
  of the functions that free a tree.
* Positions in the errors of the parser and the compiler are indices of tokens
  or left out; `Scanner` has them as offsets, which is where they come from.
* A client that breaks the rules of the headers (a handle that is freed twice
  by copies of the pointer, or compiled over).

## 6. Plan

All components are modelled and checked. Every safety invariant and every
action property of a passing run is proved, among them the links from what a
pattern says to what a match returns: `TokensAreRight`, `ParsedMeansPattern`,
`CompiledMeansAst` and `ImplementsMatchSpec`. What is left would be a single
theorem that composes these: the modules meet at assumptions about constants
(section 1), so that it needs a module that runs one after the other.
