--------------------------------- MODULE Cli ---------------------------------
(***************************************************************************)
(* cli/main.c: one run of the command line, which has the pattern parsed   *)
(* and compiled, prints what its mode asks for, and releases on every way  *)
(* out what it owns then.                                                  *)
(*                                                                         *)
(* The regex and the text are the matches they have, as in FindAllSpec.    *)
(* The parser, the compiler and the VM may fail whatever they are given,   *)
(* for lack of memory.                                                     *)
(***************************************************************************)
EXTENDS Integers, Sequences

CONSTANTS Lengths, NULL

Messages == {"usage", "regex", "compiler", "vm"}
ExitStatus == {"EXIT_SUCCESS", "EXIT_FAILURE"}

ASSUME CliAssumption ==
    /\ Lengths \subseteq Nat
    /\ NULL \notin BOOLEAN /\ NULL \notin Messages \cup ExitStatus

VARIABLES
    argc, option,            \* argv[1], where it is an option
    text_length, ends,       \* the text and its matches
    pc,                      \* where main is
    held,                    \* what main has to free
    search_start, match,     \* of the loop of --find-all
    stdout, stderr,          \* what is printed
    status                   \* what main returns

input == <<argc, option, text_length, ends>>
loop  == <<search_start, match>>
vars  == <<input, pc, held, loop, stdout, stderr, status>>

Options == {"--tree", "--full", "--search", "--find-all", "none"}

mode == CASE argc = 3 /\ option = "--tree" -> "tree"
          [] argc = 2 -> "inspect"
          [] argc = 3 /\ option # "--tree" -> "full"
          [] argc = 4 /\ option = "--full" -> "full"
          [] argc = 4 /\ option = "--search" -> "search"
          [] argc = 4 /\ option = "--find-all" -> "find_all"
          [] OTHER -> "usage"

\* Lines of the output; a match is numbered by --find-all.
Line(what, index, found) == [what |-> what, index |-> index, match |-> found]
NoMatch == Line("NO MATCH", NULL, NULL)

Printed == {k \in DOMAIN stdout : stdout[k].what = "MATCH"}
Matches == [k \in Printed |-> stdout[k].match]

\* What regex_find_all would have answered.  A call that fails returns no
\* list, where main has printed some of it.
Answer ==
    IF mode = "find_all" /\ pc = "done" /\ stderr \in {NULL, "vm"}
    THEN [success |-> status = "EXIT_SUCCESS",
          matches |-> IF status = "EXIT_SUCCESS" THEN Matches ELSE <<>>,
          error   |-> IF status = "EXIT_SUCCESS" THEN "none"
                      ELSE "regex VM failed during find-all"]
    ELSE [success |-> NULL, matches |-> NULL, error |-> "none"]

Abs == INSTANCE FindAllSpec WITH
           args   <- [regex |-> TRUE, text |-> TRUE, result |-> TRUE],
           answer <- Answer

Init == /\ argc \in 1 .. 5 /\ option \in Options
        /\ text_length \in Lengths
        /\ ends \in Abs!MatchEndsOf(text_length)
        /\ pc = "start"
        /\ held = {}
        /\ search_start = 0 /\ match = [start |-> 0, end |-> 0]
        /\ stdout = <<>> /\ stderr = NULL /\ status = NULL
-----------------------------------------------------------------------------
\* What is still held when main returns is lost.
Exit(what) == pc' = "done" /\ status' = what

Fail(message) == /\ Exit("EXIT_FAILURE")
                 /\ stderr' = message
                 /\ UNCHANGED <<input, loop, stdout>>

Usage == /\ pc = "start" /\ mode = "usage"
         /\ Fail("usage")
         /\ UNCHANGED held

\* parser_parse_tree, or parser_parse, which returns no tree when it fails.
Parse == /\ pc = "start" /\ mode # "usage"
         /\ held' = {IF mode = "tree" THEN "tree" ELSE "root"}
         /\ pc' = IF mode = "tree" THEN "print" ELSE "compile"
         /\ UNCHANGED <<input, loop, stdout, stderr, status>>

ParseFails == /\ pc = "start" /\ mode # "usage"
              /\ Fail("regex")
              /\ UNCHANGED held

CompileProgram == /\ pc = "compile"
                  /\ held' = held \cup {"states"}
                  /\ pc' = IF mode = "inspect" THEN "print" ELSE mode
                  /\ UNCHANGED <<input, loop, stdout, stderr, status>>

\* Mutant: nothing is freed.
FreeNothing == UNCHANGED held

\* compiler_compile has freed the states of the program.
FreeRoot == held' = held \ {"root"}

CompileFails == /\ pc = "compile"
                /\ Fail("compiler")
                /\ FreeRoot

FreeBoth == held' = held \ {"root", "states"}

VmFails == /\ pc \in {"full", "search", "find_all"}
           /\ Fail("vm")
           /\ FreeBoth

Puts(lines) == /\ stdout' = stdout \o lines
               /\ pc' = "free"
               /\ UNCHANGED <<input, loop, held, stderr, status>>

\* The parse tree, or the syntax tree and the program.
PrintDump == /\ pc = "print"
             /\ Puts(<<Line("DUMP", NULL, NULL)>>)

FullMatch == /\ pc = "full"
             /\ Puts(IF text_length \in ends[0]
                      THEN <<Line("MATCH", NULL, NULL)>> ELSE <<NoMatch>>)

\* The leftmost-longest match at or behind an offset.
IsFound(m, from) ==
    /\ from <= m.start /\ m.start <= text_length
    /\ \A s \in from .. m.start - 1 : ends[s] = {}
    /\ m.end \in ends[m.start]
    /\ \A e \in ends[m.start] : e <= m.end

FindsNothing(from) == \A s \in from .. text_length : ends[s] = {}

AllMatches == {[start |-> s, end |-> e] : s, e \in 0 .. text_length}

Search == /\ pc = "search"
          /\ \/ FindsNothing(0) /\ Puts(<<NoMatch>>)
             \/ \E m \in AllMatches :
                   IsFound(m, 0) /\ Puts(<<Line("MATCH", NULL, m)>>)
-----------------------------------------------------------------------------
(* --find-all                                                              *)

\* Mutants: step back into the match; number the matches from 1.
AdvanceIntoMatch(m) ==
    IF m.start < text_length
    THEN pc' = "find_all" /\ search_start' = m.start + 1
    ELSE pc' = "free" /\ UNCHANGED search_start

IndexFromOne == Len(stdout) + 1

\* match_index
Index == Len(stdout)

Advance(m) ==
    \/ /\ m.end > m.start
       /\ pc' = "find_all" /\ search_start' = m.end
    \/ /\ m.end <= m.start /\ m.end < text_length
       /\ pc' = "find_all" /\ search_start' = m.end + 1
    \/ /\ m.end <= m.start /\ m.end >= text_length
       /\ pc' = "free" /\ UNCHANGED search_start

FindNext == /\ pc = "find_all"
            /\ \E m \in AllMatches :
                  /\ IsFound(m, search_start)
                  /\ match' = m
                  /\ stdout' = Append(stdout, Line("MATCH", Index, m))
                  /\ Advance(m)
            /\ UNCHANGED <<input, held, stderr, status>>

\* Mutant: says it behind the matches too.
FindNothingAlways == /\ pc = "find_all"
                     /\ FindsNothing(search_start)
                     /\ Puts(<<NoMatch>>)

\* Nothing is found any more, which includes the end of the loop.
FindNothing == /\ pc = "find_all"
               /\ FindsNothing(search_start)
               /\ Puts(IF Index = 0 THEN <<NoMatch>> ELSE <<>>)
-----------------------------------------------------------------------------
Finish == /\ pc = "free"
          /\ held' = held \ {"tree", "root", "states"}
          /\ Exit("EXIT_SUCCESS")
          /\ UNCHANGED <<input, loop, stdout, stderr>>

Next == \/ Usage \/ Parse \/ ParseFails \/ CompileProgram \/ CompileFails
        \/ VmFails \/ PrintDump \/ FullMatch \/ Search
        \/ FindNext \/ FindNothing \/ Finish

Spec == Init /\ [][Next]_vars
-----------------------------------------------------------------------------
(* Properties.                                                             *)

\* The variables have their types, and main holds what it uses: its program
\* until it has matched, its tree until it has printed it.
TypeOK ==
    /\ pc \in {"start", "compile", "print", "full", "search", "find_all",
               "free", "done"}
    /\ held \subseteq {"tree", "root", "states"}
    /\ pc = "compile" => "root" \in held
    /\ pc \in {"full", "search", "find_all"} => "states" \in held
    /\ pc = "print" => held = IF mode = "tree" THEN {"tree"}
                              ELSE {"root", "states"}
    /\ search_start \in 0 .. text_length
    /\ match \in AllMatches
    /\ stderr \in {NULL} \cup Messages
    /\ status \in {NULL} \cup ExitStatus

\* Whichever way main returns by, it has released everything, and fails if
\* and only if it has said why; only a --find-all that fails has printed
\* anything before (main.c:198-210, 238, 267, 290-313, 341).
ExitsAreClean ==
    /\ TypeOK
    /\ pc = "done" => /\ held = {}
                      /\ status = "EXIT_FAILURE" <=> stderr # NULL
                      /\ stderr # NULL /\ stdout # <<>> => mode = "find_all"

\* The lines of a --find-all, also of one that fails, are the matches from
\* the first on, numbered from 0, without a match left out between them.
LinesAreNumbered ==
    mode = "find_all" /\ Printed # {} =>
        /\ Printed = DOMAIN stdout
        /\ \A k \in Printed : stdout[k].index = k - 1
        /\ Abs!InOrder(Matches)
        /\ Abs!AllLongest(Matches, ends)
        /\ Abs!NoneSkipped(Matches, ends, Matches[Len(stdout)].start + 1)

\* "NO MATCH" is printed if and only if nothing matches, the empty matches
\* counted, and then alone (main.c:276, 336).
NoMatchIsTrue ==
    status = "EXIT_SUCCESS" /\ mode \in {"search", "find_all"} =>
        /\ NoMatch \in {stdout[k] : k \in DOMAIN stdout} <=>
              \A i \in DOMAIN ends : ends[i] = {}
        /\ mode = "search" \/ Printed = {} => Len(stdout) = 1

\* --find-all prints the list that regex_find_all returns: its loop is that of
\* src/regex.c:410 once more (main.c:290).
ImplementsFindAllSpec == Abs!Spec
=============================================================================
