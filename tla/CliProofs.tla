------------------------------ MODULE CliProofs ------------------------------
(***************************************************************************)
(* That the command line releases what it holds, numbers its lines, says   *)
(* NO MATCH where nothing matches, and that its --find-all implements      *)
(* FindAllSpec, for texts of any length.                                   *)
(*                                                                         *)
(* IInv says what main holds and has printed wherever it is.  The matches  *)
(* that --find-all has printed are listed as those of regex_find_all are:  *)
(* the lemmas about a list that grows are those of RegexFindAllProofs.     *)
(***************************************************************************)
EXTENDS Cli, SequenceTheorems, TLAPS

Modes == {"usage", "tree", "inspect", "full", "search", "find_all"}

InputOK == /\ text_length \in Nat
           /\ ends \in Abs!MatchEndsOf(text_length)
           /\ mode \in Modes

Lines == [what : {"DUMP", "MATCH", "NO MATCH"}, index : Nat \cup {NULL},
          match : AllMatches \cup {NULL}]

\* Each line that is printed is a match, numbered from 0.
AreNumbered(lines) ==
    \A k \in DOMAIN lines : lines[k].what = "MATCH" /\ lines[k].index = k - 1

Listed(lines) == [k \in DOMAIN lines |-> lines[k].match]

\* What a search is to print.
SearchSaid ==
    \/ FindsNothing(0) /\ stdout = <<NoMatch>>
    \/ \E m \in AllMatches :
          IsFound(m, 0) /\ stdout = <<Line("MATCH", NULL, m)>>

\* What --find-all is to print.
FindAllSaid ==
    \/ FindsNothing(0) /\ stdout = <<NoMatch>>
    \/ /\ stdout # <<>> /\ AreNumbered(stdout)
       /\ Abs!IsFindAll(Listed(stdout), ends, text_length)

Said == /\ mode = "search" => SearchSaid
        /\ mode = "find_all" => FindAllSaid

\* What a run that fails has printed.
SaidBefore ==
    IF mode = "find_all" /\ stderr = "vm"
    THEN /\ AreNumbered(stdout)
         /\ \E s \in 0 .. text_length : Abs!IsListedTo(Listed(stdout), ends, s)
    ELSE stdout = <<>>

\* What each value of pc says of the rest.
Phase ==
    /\ stdout \in Seq(Lines)
    /\ pc # "done" => stderr = NULL /\ status = NULL
    /\ pc \in {"start", "compile"} => search_start = 0
    /\ pc = "start" => held = {}
    /\ pc = "compile" => held = {"root"} /\ mode \notin {"tree", "usage"}
    /\ pc = "print" => mode \in {"tree", "inspect"}
    /\ pc \in {"start", "compile", "print", "full", "search"} => stdout = <<>>
    /\ pc \in {"full", "search", "find_all"} =>
          mode = pc /\ held = {"root", "states"}
    /\ pc = "find_all" =>
          /\ AreNumbered(stdout)
          /\ Abs!IsListedTo(Listed(stdout), ends, search_start)
    /\ pc = "free" => Said
    /\ pc = "done" =>
          /\ held = {}
          /\ \/ status = "EXIT_SUCCESS" /\ stderr = NULL /\ Said
             \/ status = "EXIT_FAILURE" /\ stderr \in Messages /\ SaidBefore

IInv == InputOK /\ TypeOK /\ Phase
-----------------------------------------------------------------------------
(* How the list of the matches grows.                                      *)

\* An empty list holds what begins below 0.
LEMMA NothingListed ==
    ASSUME NEW length \in Nat, NEW f, DOMAIN f = Abs!Offsets(length)
    PROVE  Abs!IsListedTo(<<>>, f, 0)
BY DEF Abs!IsListedTo, Abs!InOrder, Abs!AllLongest, Abs!NoneSkipped,
       Abs!Offsets

\* A match found from s extends the list to any offset that it covers.
LEMMA AppendListed ==
    ASSUME NEW length \in Nat, NEW f, DOMAIN f = Abs!Offsets(length),
           NEW m, NEW s \in Nat, NEW x, NEW limit \in Nat,
           Abs!IsListedTo(m, f, s), Abs!IsFirst(x, f, s),
           x.start < limit, x.end <= limit,
           x.end = limit \/ (x.start = x.end /\ limit = x.end + 1)
    PROVE  Abs!IsListedTo(Append(m, x), f, limit)
<1> DEFINE longer == Append(m, x)
           n == Len(m) + 1
<1>1. /\ m \in Seq(Abs!RegexMatch) /\ x \in Abs!RegexMatch
      /\ Abs!InOrder(m) /\ Abs!AllLongest(m, f) /\ Abs!NoneSkipped(m, f, s)
      /\ \A k \in DOMAIN m : /\ m[k].start \in DOMAIN f
                             /\ m[k].end <= s /\ m[k].start < s
  BY DEF Abs!IsListedTo, Abs!IsFirst
<1>2. /\ x.start \in Nat /\ x.end \in Nat /\ x.start \in DOMAIN f
      /\ s <= x.start /\ x.start <= x.end
      /\ DOMAIN f \subseteq Nat
  BY DEF Abs!IsFirst, Abs!RegexMatch, Abs!Offsets
<1>3. /\ longer \in Seq(Abs!RegexMatch)
      /\ Len(m) \in Nat /\ DOMAIN m = 1 .. Len(m) /\ DOMAIN longer = 1 .. n
      /\ longer[n] = x /\ \A k \in DOMAIN m : longer[k] = m[k]
  BY <1>1
<1>4. \A k \in DOMAIN m : /\ m[k].start \in Nat /\ m[k].end \in Nat
                          /\ m[k].end <= x.start /\ m[k].start < x.start
  <2> SUFFICES ASSUME NEW k \in DOMAIN m
               PROVE  /\ m[k].start \in Nat /\ m[k].end \in Nat
                      /\ m[k].end <= x.start /\ m[k].start < x.start
    OBVIOUS
  <2>1. m[k] \in Abs!RegexMatch
    BY <1>1
  <2>2. m[k].start \in Nat /\ m[k].end \in Nat
    BY <2>1 DEF Abs!RegexMatch
  <2>3. x.start \in Nat /\ s <= x.start
    BY <1>2
  <2> QED BY <1>1, <2>2, <2>3
<1> HIDE DEF longer
<1>5. \A k \in DOMAIN longer : (k \in DOMAIN m /\ longer[k] = m[k])
                               \/ (k = n /\ k \notin DOMAIN m /\ longer[k] = x)
  BY <1>3
<1>6. \A k \in DOMAIN longer : /\ longer[k].start \in DOMAIN f
                               /\ longer[k].end <= limit
                               /\ longer[k].start < limit
  BY <1>1, <1>2, <1>4, <1>5
<1>7. Abs!InOrder(longer)
  <2> SUFFICES ASSUME NEW k \in DOMAIN longer, NEW l \in DOMAIN longer, k < l
               PROVE  /\ longer[k].end <= longer[l].start
                      /\ longer[k].start < longer[l].start
    BY DEF Abs!InOrder
  <2>1. k \in DOMAIN m /\ longer[k] = m[k]
    BY <1>3
  <2>2. CASE l \in DOMAIN m
    BY <1>1, <1>3, <2>1, <2>2 DEF Abs!InOrder
  <2>3. CASE l = n
    BY <1>3, <1>4, <2>1, <2>3
  <2> QED BY <1>5, <2>2, <2>3
<1>8. Abs!AllLongest(longer, f)
  <2>1. x.end \in f[x.start] /\ \A e \in f[x.start] : e <= x.end
    BY DEF Abs!IsFirst
  <2> QED BY <1>1, <1>5, <2>1 DEF Abs!AllLongest
<1>9. Abs!NoneSkipped(longer, f, limit)
  <2> SUFFICES ASSUME NEW i \in DOMAIN f, i < limit, f[i] # {}
               PROVE  Abs!IsCovered(longer, i)
    BY DEF Abs!NoneSkipped
  <2>1. i \in Nat
    BY <1>2
  <2>2. CASE i < s
    <3>1. PICK k \in DOMAIN m :
             m[k].start = i \/ (m[k].start < i /\ i < m[k].end)
      BY <1>1, <2>2 DEF Abs!NoneSkipped, Abs!IsCovered
    <3> QED BY <1>3, <3>1 DEF Abs!IsCovered
  <2>3. CASE s <= i /\ i < x.start
    <3>1. i \in s .. x.start - 1
      BY <1>2, <2>1, <2>3
    <3> QED BY <3>1 DEF Abs!IsFirst
  <2>4. CASE x.start <= i
    <3>1. x.start = i \/ (x.start < i /\ i < x.end)
      BY <1>2, <2>1, <2>4
    <3>2. n \in DOMAIN longer
      BY <1>3
    <3> QED BY <1>3, <3>1, <3>2 DEF Abs!IsCovered
  <2> QED BY <1>2, <2>1, <2>2, <2>3, <2>4
<1> QED BY <1>3, <1>6, <1>7, <1>8, <1>9 DEF Abs!IsListedTo, longer

\* A list that holds all there is.
LEMMA ListedAll ==
    ASSUME NEW length \in Nat, NEW f, DOMAIN f = Abs!Offsets(length),
           NEW m, NEW s \in Nat, Abs!IsListedTo(m, f, s),
           \A i \in s .. length : f[i] = {}
    PROVE  Abs!IsFindAll(m, f, length)
<1>1. Abs!NoneSkipped(m, f, length + 1)
  BY DEF Abs!IsListedTo, Abs!NoneSkipped, Abs!Offsets
<1> QED BY <1>1 DEF Abs!IsListedTo, Abs!IsFindAll
-----------------------------------------------------------------------------
\* The offsets of the text, and what can match from each.
LEMMA EndsType ==
    ASSUME InputOK
    PROVE  /\ text_length \in Nat /\ DOMAIN ends = 0 .. text_length
           /\ DOMAIN ends = Abs!Offsets(text_length)
           /\ \A i \in 0 .. text_length : ends[i] \subseteq 0 .. text_length
           /\ \A i \in 0 .. text_length : \A e \in ends[i] : i <= e
BY DEF InputOK, Abs!MatchEndsOf, Abs!Offsets

\* A match found from an offset is what FindAllSpec says it is.
LEMMA FoundIsFirst ==
    ASSUME InputOK, NEW m \in AllMatches, NEW from \in Nat, IsFound(m, from)
    PROVE  /\ Abs!IsFirst(m, ends, from)
           /\ m.start \in from .. text_length /\ m.end \in 0 .. text_length
           /\ m.start <= m.end /\ m.end \in ends[m.start]
<1>1. PICK s \in 0 .. text_length, e \in 0 .. text_length :
         m = [start |-> s, end |-> e]
  BY DEF AllMatches
<1>2. /\ m.start \in 0 .. text_length /\ m.end \in 0 .. text_length
      /\ m \in Abs!RegexMatch /\ text_length \in Nat
  BY <1>1, EndsType DEF Abs!RegexMatch
<1> QED
  BY <1>2, EndsType DEF IsFound, Abs!IsFirst

\* The input stays as it is, and the mode with it.
LEMMA InputStays ==
    ASSUME UNCHANGED input
    PROVE  /\ mode' = mode /\ Lines' = Lines /\ AllMatches' = AllMatches
           /\ InputOK => InputOK'
<1>1. mode' = mode
  BY DEF input, mode
<1>2. text_length' = text_length
  BY DEF input
<1>3. AllMatches' = AllMatches
  <2>1. \A m : m \in AllMatches' <=> m \in AllMatches
    BY <1>2 DEF AllMatches
  <2> QED
    BY <2>1
<1>4. Lines' = Lines
  BY <1>3, Zenon DEF Lines
<1> QED
  BY <1>1, <1>3, <1>4 DEF input, InputOK

LEMMA SaidStays ==
    ASSUME UNCHANGED <<input, stdout>>
    PROVE  Said => Said'
<1>1. mode' = mode
  BY InputStays
<1> QED
  BY <1>1
  DEF Said, SearchSaid, FindAllSaid, input, FindsNothing, IsFound, AllMatches

LEMMA InitIInv == Init => IInv
<1> SUFFICES ASSUME Init PROVE IInv
  OBVIOUS
<1>1. mode \in Modes
  BY DEF mode, Modes
<1>2. text_length \in Nat /\ 0 \in 0 .. text_length
  BY CliAssumption DEF Init
<1>3. InputOK
  BY <1>1, <1>2 DEF Init, InputOK
<1>4. match \in AllMatches
  <2>1. match = [start |-> 0, end |-> 0]
    BY DEF Init
  <2> QED
    BY <1>2, <2>1, SMTT(30) DEF AllMatches
<1>5. TypeOK
  BY <1>2, <1>4 DEF Init, TypeOK
<1>6. Phase
  BY DEF Init, Phase
<1> QED
  BY <1>3, <1>5, <1>6 DEF IInv

\* The ways out before anything is printed.
LEMMA EarlyExitKeepsIInv ==
    ASSUME IInv, Usage \/ ParseFails \/ CompileFails
    PROVE  IInv'
<1>1. /\ pc \in {"start", "compile"} /\ pc' = "done"
      /\ status' = "EXIT_FAILURE"
      /\ stderr' \in {"usage", "regex", "compiler"}
      /\ UNCHANGED <<input, loop, stdout>>
  BY DEF Usage, ParseFails, CompileFails, Fail, Exit
<1>2. held' = {} /\ stdout = <<>>
  BY <1>1 DEF Usage, ParseFails, CompileFails, FreeRoot, IInv, Phase
<1>3. InputOK' /\ mode' = mode
  BY <1>1, InputStays DEF IInv
<1>4. TypeOK'
  BY <1>1, <1>2 DEF IInv, TypeOK, Messages, ExitStatus, input, loop, AllMatches
<1>5. Phase'
  BY <1>1, <1>2 DEF IInv, Phase, Messages, SaidBefore, Lines, AllMatches, input
<1> QED
  BY <1>3, <1>4, <1>5 DEF IInv

LEMMA ParseKeepsIInv ==
    ASSUME IInv, Parse
    PROVE  IInv'
<1>1. /\ pc = "start" /\ mode # "usage"
      /\ held' = {IF mode = "tree" THEN "tree" ELSE "root"}
      /\ pc' = IF mode = "tree" THEN "print" ELSE "compile"
      /\ UNCHANGED <<input, loop, stdout, stderr, status>>
  BY DEF Parse
<1>2. InputOK' /\ mode' = mode
  BY <1>1, InputStays DEF IInv
<1>3. TypeOK'
  BY <1>1, <1>2 DEF IInv, TypeOK, input, loop, AllMatches
<1>4. Phase'
  BY <1>1, <1>2 DEF IInv, Phase, Lines, AllMatches, input, loop
<1> QED
  BY <1>2, <1>3, <1>4 DEF IInv

LEMMA CompileKeepsIInv ==
    ASSUME IInv, CompileProgram
    PROVE  IInv'
<1>1. /\ pc = "compile" /\ held' = held \cup {"states"}
      /\ pc' = IF mode = "inspect" THEN "print" ELSE mode
      /\ UNCHANGED <<input, loop, stdout, stderr, status>>
  BY DEF CompileProgram
<1>2. InputOK' /\ mode' = mode
  BY <1>1, InputStays DEF IInv
<1>3. /\ mode \in {"inspect", "full", "search", "find_all"}
      /\ held' = {"root", "states"} /\ stdout = <<>> /\ search_start = 0
  BY <1>1 DEF IInv, Phase, InputOK, Modes
<1>4. TypeOK'
  BY <1>1, <1>2, <1>3 DEF IInv, TypeOK, input, loop, AllMatches
<1>5. AreNumbered(stdout) /\ Abs!IsListedTo(Listed(stdout), ends, search_start)
  <2>1. DOMAIN stdout = {} /\ Listed(stdout) = <<>>
    BY <1>3 DEF Listed
  <2> QED
    BY <1>3, <2>1, EndsType, NothingListed DEF IInv, AreNumbered
<1>6. Phase'
  BY <1>1, <1>2, <1>3, <1>5
  DEF IInv, Phase, Lines, AllMatches, input, loop, AreNumbered, Listed
<1> QED
  BY <1>2, <1>4, <1>6 DEF IInv

LEMMA VmFailsKeepsIInv ==
    ASSUME IInv, VmFails
    PROVE  IInv'
<1>1. /\ pc \in {"full", "search", "find_all"} /\ pc' = "done"
      /\ status' = "EXIT_FAILURE" /\ stderr' = "vm"
      /\ held' = held \ {"root", "states"}
      /\ UNCHANGED <<input, loop, stdout>>
  BY DEF VmFails, Fail, Exit, FreeBoth
<1>2. InputOK' /\ mode' = mode
  BY <1>1, InputStays DEF IInv
<1>3. held' = {} /\ mode = pc
  BY <1>1 DEF IInv, Phase
<1>4. TypeOK'
  BY <1>1, <1>3 DEF IInv, TypeOK, Messages, ExitStatus, input, loop, AllMatches
<1>5. SaidBefore'
  <2>1. CASE mode = "find_all"
    BY <2>1, <1>1, <1>2, <1>3 DEF IInv, Phase, TypeOK, SaidBefore, input
  <2>2. CASE mode # "find_all"
    BY <2>2, <1>1, <1>2, <1>3 DEF IInv, Phase, SaidBefore
  <2> QED
    BY <2>1, <2>2
<1>6. Phase'
  <2>1. stdout' \in Seq(Lines)'
    BY <1>1, InputStays DEF IInv, Phase
  <2> QED
    BY <1>1, <1>3, <1>5, <2>1 DEF Phase, Messages
<1> QED
  BY <1>2, <1>4, <1>6 DEF IInv

\* What is printed at the end, and what makes it right.
LEMMA PutsKeepsIInv ==
    ASSUME IInv, NEW printed, Puts(printed), stdout' \in Seq(Lines), Said',
           pc # "done"
    PROVE  IInv'
<1>1. /\ pc' = "free" /\ UNCHANGED <<input, loop, held, stderr, status>>
  BY DEF Puts
<1>2. InputOK' /\ mode' = mode
  BY <1>1, InputStays DEF IInv
<1>3. TypeOK'
  BY <1>1 DEF IInv, TypeOK, input, loop, AllMatches
<1>4. Phase'
  <2>1. Lines' = Lines
    BY <1>1, InputStays
  <2> QED
    BY <1>1, <2>1 DEF IInv, Phase
<1> QED
  BY <1>2, <1>3, <1>4 DEF IInv

\* The one line of the other modes.
LEMMA LineTypes ==
    /\ NoMatch \in Lines /\ Line("DUMP", NULL, NULL) \in Lines
    /\ Line("MATCH", NULL, NULL) \in Lines
    /\ \A m \in AllMatches, k \in Nat \cup {NULL} : Line("MATCH", k, m) \in Lines
    /\ NoMatch.what = "NO MATCH"
    /\ \A m, k : /\ Line("MATCH", k, m).what = "MATCH"
                /\ Line("MATCH", k, m).index = k
                /\ Line("MATCH", k, m).match = m
BY DEF NoMatch, Line, Lines

LEMMA OneLine ==
    ASSUME IInv, stdout = <<>>, NEW line \in Lines, Puts(<<line>>)
    PROVE  stdout' = <<line>> /\ stdout' \in Seq(Lines)
<1>1. stdout' = <<>> \o <<line>>
  BY DEF Puts
<1> QED
  BY <1>1

LEMMA PrintKeepsIInv ==
    ASSUME IInv, PrintDump \/ FullMatch
    PROVE  IInv'
<1>1. PICK line \in Lines : Puts(<<line>>)
  <2>1. PrintDump => Puts(<<Line("DUMP", NULL, NULL)>>)
    BY DEF PrintDump
  <2>2. FullMatch => \/ Puts(<<Line("MATCH", NULL, NULL)>>)
                     \/ Puts(<<NoMatch>>)
    BY DEF FullMatch
  <2> QED
    BY <2>1, <2>2, LineTypes
<1>2. stdout = <<>> /\ pc # "done" /\ mode \notin {"search", "find_all"}
  BY DEF IInv, Phase, PrintDump, FullMatch
<1>3. mode' = mode
  BY <1>1, InputStays DEF Puts
<1>4. Said'
  BY <1>2, <1>3 DEF Said
<1>5. stdout' \in Seq(Lines)
  BY <1>1, <1>2, OneLine
<1> QED
  BY <1>1, <1>2, <1>4, <1>5, PutsKeepsIInv

LEMMA SearchKeepsIInv ==
    ASSUME IInv, Search
    PROVE  IInv'
<1>1. pc = "search" /\ mode = "search" /\ stdout = <<>>
  BY DEF Search, IInv, Phase
<1>2. CASE FindsNothing(0) /\ Puts(<<NoMatch>>)
  <2>1. stdout' = <<NoMatch>> /\ stdout' \in Seq(Lines)
    BY <1>1, <1>2, OneLine, LineTypes
  <2>2. mode' = mode /\ UNCHANGED input
    BY <1>2, InputStays DEF Puts
  <2>3. Said'
    BY <1>1, <1>2, <2>1, <2>2 DEF Said, SearchSaid, FindsNothing, input, NoMatch, Line
  <2> QED
    BY <1>1, <1>2, <2>1, <2>3, PutsKeepsIInv
<1>3. CASE \E m \in AllMatches :
              IsFound(m, 0) /\ Puts(<<Line("MATCH", NULL, m)>>)
  <2>1. PICK m \in AllMatches :
           IsFound(m, 0) /\ Puts(<<Line("MATCH", NULL, m)>>)
    BY <1>3
  <2>2. stdout' = <<Line("MATCH", NULL, m)>> /\ stdout' \in Seq(Lines)
    BY <1>1, <2>1, OneLine, LineTypes
  <2>3. mode' = mode /\ UNCHANGED input /\ AllMatches' = AllMatches
    BY <2>1, InputStays DEF Puts
  <2>4. IsFound(m, 0)'
    BY <2>1, <2>3 DEF IsFound, input
  <2>5. SearchSaid'
    BY <2>2, <2>3, <2>4 DEF SearchSaid, Line
  <2>6. Said'
    BY <1>1, <2>3, <2>5 DEF Said
  <2> QED
    BY <1>1, <2>1, <2>2, <2>6, PutsKeepsIInv
<1> QED
  BY <1>2, <1>3 DEF Search

LEMMA SequenceIsFunction ==
    ASSUME NEW T, NEW s \in Seq(T)
    PROVE  s = [k \in 1 .. Len(s) |-> s[k]]
<1>1. PICK l \in Nat : s \in [1 .. l -> T]
  BY SeqDef
<1> QED
  BY <1>1

\* A further line is a further match of the list.
LEMMA ListedGrows ==
    ASSUME NEW lines \in Seq(Lines), NEW m \in AllMatches,
           AreNumbered(lines)
    PROVE  LET more == Append(lines, Line("MATCH", Len(lines), m))
           IN  /\ more \in Seq(Lines) /\ more # <<>>
               /\ AreNumbered(more)
               /\ Listed(more) = Append(Listed(lines), m)
<1> DEFINE line == Line("MATCH", Len(lines), m)
           more == Append(lines, line)
<1>1. /\ line \in Lines /\ line.what = "MATCH"
      /\ line.index = Len(lines) /\ line.match = m
  <2>1. Len(lines) \in Nat
    OBVIOUS
  <2> QED
    BY <2>1, LineTypes
<1> HIDE DEF line
<1>2. /\ more \in Seq(Lines) /\ Len(lines) \in Nat
      /\ DOMAIN lines = 1 .. Len(lines)
      /\ DOMAIN more = 1 .. Len(lines) + 1
      /\ \A k \in DOMAIN more :
            more[k] = IF k = Len(lines) + 1 THEN line ELSE lines[k]
  BY <1>1
<1> HIDE DEF more
<1>3. AreNumbered(more)
  BY <1>1, <1>2 DEF AreNumbered
<1>4. Listed(more) = Append(Listed(lines), m)
  <2> DEFINE n == Len(lines)
             list == Listed(lines)
  <2>1. list = [k \in 1 .. n |-> lines[k].match]
    BY <1>2 DEF Listed
  <2>2. Listed(more) = [k \in 1 .. n + 1 |->
                           IF k = n + 1 THEN m ELSE lines[k].match]
    BY <1>1, <1>2 DEF Listed
  <2> DEFINE T == {lines[k].match : k \in 1 .. n} \cup {m}
  <2>3. list \in Seq(T) /\ Len(list) = n /\ m \in T
    BY <1>2, <2>1
  <2>4. \A k \in 1 .. n : list[k] = lines[k].match
    BY <2>1
  <2> HIDE DEF list, T
  <2>5. /\ Append(list, m) \in Seq(T) /\ Len(Append(list, m)) = n + 1
        /\ \A k \in 1 .. n + 1 :
              Append(list, m)[k] = IF k = n + 1 THEN m ELSE list[k]
    BY <1>2, <2>3
  <2>6. Append(list, m) = [k \in 1 .. n + 1 |-> Append(list, m)[k]]
    <3> DEFINE longer == Append(list, m)
    <3>1. longer \in Seq(T) /\ Len(longer) = n + 1
      BY <2>5
    <3> HIDE DEF longer
    <3>2. longer = [k \in 1 .. Len(longer) |-> longer[k]]
      BY <3>1, SequenceIsFunction
    <3> QED
      BY <3>1, <3>2 DEF longer
  <2>7. \A k \in 1 .. n + 1 :
           Append(list, m)[k] = IF k = n + 1 THEN m ELSE lines[k].match
    BY <1>2, <2>4, <2>5
  <2> QED
    BY <2>2, <2>6, <2>7, Zenon DEF list
<1>5. more # <<>>
  BY <1>2
<1> QED
  BY <1>2, <1>3, <1>4, <1>5 DEF more, line

LEMMA FindNextKeepsIInv ==
    ASSUME IInv, FindNext
    PROVE  IInv'
<1>1. PICK m \in AllMatches :
         /\ IsFound(m, search_start) /\ match' = m
         /\ stdout' = Append(stdout, Line("MATCH", Index, m))
         /\ Advance(m)
  BY DEF FindNext
<1>2. /\ pc = "find_all" /\ mode = "find_all" /\ stdout \in Seq(Lines)
      /\ AreNumbered(stdout) /\ held = {"root", "states"}
      /\ stderr = NULL /\ status = NULL
      /\ Abs!IsListedTo(Listed(stdout), ends, search_start)
      /\ search_start \in 0 .. text_length /\ search_start \in Nat
      /\ UNCHANGED <<input, held, stderr, status>>
  BY EndsType DEF FindNext, IInv, Phase, TypeOK
<1>3. /\ InputOK' /\ mode' = mode /\ Lines' = Lines /\ AllMatches' = AllMatches
      /\ ends' = ends /\ text_length' = text_length
  BY <1>2, InputStays DEF IInv, input
<1>4. /\ text_length \in Nat
      /\ Abs!IsFirst(m, ends, search_start)
      /\ m.start \in search_start .. text_length /\ m.end \in 0 .. text_length
      /\ m.start <= m.end
  BY <1>1, <1>2, FoundIsFirst, EndsType DEF IInv
<1>5. /\ stdout' \in Seq(Lines) /\ stdout' # <<>>
      /\ AreNumbered(stdout')
      /\ Listed(stdout') = Append(Listed(stdout), m)
  BY <1>1, <1>2, ListedGrows DEF Index
<1>6. ASSUME NEW limit \in Nat, m.start < limit, m.end <= limit,
             m.end = limit \/ (m.start = m.end /\ limit = m.end + 1)
      PROVE  Abs!IsListedTo(Listed(stdout'), ends, limit)
  <2>1. DOMAIN ends = Abs!Offsets(text_length)
    BY EndsType DEF IInv
  <2> HIDE DEF Listed
  <2> QED
    BY <1>2, <1>4, <1>5, <1>6, <2>1, AppendListed
<1>7. TypeOK'
  <2>1. search_start' \in 0 .. text_length /\ pc' \in {"find_all", "free"}
    BY <1>1, <1>2, <1>4 DEF Advance
  <2> QED
    BY <1>1, <1>2, <1>3, <2>1 DEF TypeOK, IInv
<1>8. CASE pc' = "find_all"
  <2>1. /\ search_start' \in Nat
        /\ m.start < search_start' /\ m.end <= search_start'
        /\ m.end = search_start' \/ (m.start = m.end /\ search_start' = m.end + 1)
    BY <1>1, <1>4, <1>8 DEF Advance
  <2>2. Abs!IsListedTo(Listed(stdout'), ends, search_start')
    BY <1>6, <2>1
  <2>3. Phase'
    BY <1>2, <1>3, <1>5, <1>8, <2>2 DEF Phase
  <2> QED
    BY <1>3, <1>7, <2>3 DEF IInv
<1>9. CASE pc' = "free"
  <2>1. m.start = m.end /\ m.end = text_length /\ text_length + 1 \in Nat
    BY <1>1, <1>4, <1>9 DEF Advance
  <2>2. Abs!IsListedTo(Listed(stdout'), ends, text_length + 1)
    <3>1. /\ m.start < text_length + 1 /\ m.end <= text_length + 1
          /\ m.start = m.end /\ text_length + 1 = m.end + 1
      BY <1>4, <2>1
    <3> QED
      BY <1>6, <2>1, <3>1
  <2>3. Abs!IsFindAll(Listed(stdout'), ends, text_length)
    <3>1. \A i \in text_length + 1 .. text_length : ends[i] = {}
      BY <1>4
    <3>2. DOMAIN ends = Abs!Offsets(text_length)
      BY EndsType DEF IInv
    <3> QED
      BY <1>4, <2>1, <2>2, <3>1, <3>2, ListedAll
  <2>4. FindAllSaid'
    BY <1>3, <1>5, <2>3 DEF FindAllSaid
  <2>5. Said'
    BY <1>2, <1>3, <2>4 DEF Said
  <2>6. Phase'
    BY <1>2, <1>3, <1>5, <1>9, <2>5 DEF Phase
  <2> QED
    BY <1>3, <1>7, <2>6 DEF IInv
<1> QED
  BY <1>1, <1>8, <1>9 DEF Advance

LEMMA FindNothingKeepsIInv ==
    ASSUME IInv, FindNothing
    PROVE  IInv'
<1>1. /\ pc = "find_all" /\ mode = "find_all" /\ stdout \in Seq(Lines)
      /\ AreNumbered(stdout)
      /\ Abs!IsListedTo(Listed(stdout), ends, search_start)
      /\ search_start \in Nat
      /\ FindsNothing(search_start)
      /\ Puts(IF Index = 0 THEN <<NoMatch>> ELSE <<>>)
      /\ text_length \in Nat /\ DOMAIN ends = 0 .. text_length
      /\ DOMAIN ends = Abs!Offsets(text_length)
  BY EndsType DEF FindNothing, IInv, Phase, TypeOK
<1>2. /\ mode' = mode /\ ends' = ends /\ text_length' = text_length
  BY <1>1, InputStays DEF Puts, input
<1>3. Abs!IsFindAll(Listed(stdout), ends, text_length)
  BY <1>1, ListedAll DEF FindsNothing
<1>4. CASE Index = 0
  <2>1. stdout = <<>> /\ DOMAIN stdout = {}
    BY <1>1, <1>4 DEF Index
  <2>2. stdout' = <<NoMatch>> /\ stdout' \in Seq(Lines)
    BY <1>1, <1>4, <2>1, OneLine, LineTypes
  <2>3. FindsNothing(0)
    <3>1. DOMAIN Listed(stdout) = {}
      BY <2>1 DEF Listed
    <3>2. Abs!NoneSkipped(Listed(stdout), ends, text_length + 1)
      BY <1>3 DEF Abs!IsFindAll
    <3> QED
      BY <1>1, <3>1, <3>2 DEF Abs!NoneSkipped, Abs!IsCovered, FindsNothing
  <2>4. FindAllSaid'
    BY <1>2, <2>2, <2>3 DEF FindAllSaid, FindsNothing, NoMatch, Line
  <2>5. Said'
    BY <1>1, <1>2, <2>4 DEF Said
  <2> QED
    BY <1>1, <2>2, <2>5, PutsKeepsIInv
<1>5. CASE Index # 0
  <2>1. stdout' = stdout /\ stdout # <<>>
    <3>1. stdout' = stdout \o <<>>
      BY <1>1, <1>5 DEF Puts
    <3> QED
      BY <1>1, <1>5, <3>1 DEF Index
  <2>2. FindAllSaid'
    BY <1>1, <1>2, <1>3, <2>1 DEF FindAllSaid
  <2>3. Said'
    BY <1>1, <1>2, <2>2 DEF Said
  <2> QED
    BY <1>1, <2>1, <2>3, PutsKeepsIInv
<1> QED
  BY <1>4, <1>5

LEMMA FinishKeepsIInv ==
    ASSUME IInv, Finish
    PROVE  IInv'
<1>1. /\ pc = "free" /\ pc' = "done" /\ status' = "EXIT_SUCCESS"
      /\ held' = held \ {"tree", "root", "states"}
      /\ UNCHANGED <<input, loop, stdout, stderr>>
  BY DEF Finish, Exit
<1>2. /\ InputOK' /\ mode' = mode /\ Lines' = Lines /\ AllMatches' = AllMatches
      /\ text_length' = text_length
  BY <1>1, InputStays DEF IInv, input
<1>3. Said' /\ held' = {}
  BY <1>1, SaidStays DEF IInv, Phase, TypeOK
<1>4. TypeOK'
  BY <1>1, <1>2, <1>3 DEF IInv, TypeOK, loop, ExitStatus
<1>5. Phase'
  BY <1>1, <1>2, <1>3 DEF IInv, Phase
<1> QED
  BY <1>2, <1>4, <1>5 DEF IInv

LEMMA StutterKeepsIInv ==
    ASSUME IInv, UNCHANGED vars
    PROVE  IInv'
<1>1. /\ UNCHANGED <<input, loop, pc, held, stdout, stderr, status>>
      /\ UNCHANGED <<ends, text_length, search_start, match>>
  BY DEF vars, input, loop
<1>2. InputOK' /\ mode' = mode /\ Lines' = Lines /\ AllMatches' = AllMatches
  BY <1>1, InputStays DEF IInv
<1>3. Said => Said'
  BY <1>1, SaidStays
<1>4. SaidBefore => SaidBefore'
  BY <1>1, <1>2 DEF SaidBefore
<1>5. TypeOK'
  BY <1>1, <1>2 DEF IInv, TypeOK
<1>6. Phase'
  BY <1>1, <1>2, <1>3, <1>4 DEF IInv, Phase
<1> QED
  BY <1>2, <1>5, <1>6 DEF IInv

LEMMA StepIInv == IInv /\ [Next]_vars => IInv'
BY EarlyExitKeepsIInv, ParseKeepsIInv, CompileKeepsIInv, VmFailsKeepsIInv,
   PrintKeepsIInv, SearchKeepsIInv, FindNextKeepsIInv, FindNothingKeepsIInv,
   FinishKeepsIInv, StutterKeepsIInv
DEF Next

LEMMA Invariance == Spec => []IInv
BY InitIInv, StepIInv, PTL DEF Spec
-----------------------------------------------------------------------------
LEMMA IInvIsClean == IInv => ExitsAreClean
<1> SUFFICES ASSUME IInv, pc = "done"
             PROVE  /\ held = {}
                    /\ status = "EXIT_FAILURE" <=> stderr # NULL
                    /\ stderr # NULL /\ stdout # <<>> => mode = "find_all"
  BY DEF IInv, ExitsAreClean
<1>1. held = {}
  BY DEF IInv, Phase
<1>2. CASE status = "EXIT_SUCCESS" /\ stderr = NULL
  BY <1>1, <1>2
<1>3. CASE status = "EXIT_FAILURE" /\ stderr \in Messages /\ SaidBefore
  BY <1>1, <1>3, CliAssumption DEF SaidBefore
<1> QED
  BY <1>2, <1>3 DEF IInv, Phase

\* Whichever way main returns by, it has released everything, and fails if
\* and only if it has said why (main.c:198-210, 238, 267, 290-313, 341).
THEOREM AllIsReleased == Spec => []ExitsAreClean
BY IInvIsClean, Invariance, PTL

LEMMA NoneIsPrinted == stdout = <<NoMatch>> => Printed = {}
<1> SUFFICES ASSUME stdout = <<NoMatch>> PROVE Printed = {}
  OBVIOUS
<1>1. DOMAIN stdout = {1} /\ stdout[1] = NoMatch
  OBVIOUS
<1>2. stdout[1].what # "MATCH"
  BY <1>1, LineTypes
<1> QED
  BY <1>1, <1>2 DEF Printed

\* A printed list, and where main has it from.
LEMMA PrintedList ==
    ASSUME IInv, mode = "find_all", Printed # {}
    PROVE  /\ AreNumbered(stdout) /\ stdout # <<>>
           /\ stdout \in Seq(Lines) /\ Printed = DOMAIN stdout
           /\ Matches = Listed(stdout)
           /\ \/ \E s \in Nat : Abs!IsListedTo(Listed(stdout), ends, s)
              \/ Abs!IsFindAll(Listed(stdout), ends, text_length)
<1>1. stdout \in Seq(Lines) /\ stdout # <<>> /\ text_length \in Nat
  <2>1. stdout # <<>>
    <3>1. stdout = <<>> => DOMAIN stdout = {}
      OBVIOUS
    <3> QED
      BY <3>1 DEF Printed
  <2> QED
    BY <2>1 DEF IInv, Phase, InputOK
<1>2. stdout # <<NoMatch>>
  BY NoneIsPrinted
<1>3. /\ AreNumbered(stdout)
      /\ \/ \E s \in Nat : Abs!IsListedTo(Listed(stdout), ends, s)
         \/ Abs!IsFindAll(Listed(stdout), ends, text_length)
  <2>1. pc \in {"find_all", "free", "done"}
    BY <1>1 DEF IInv, Phase, TypeOK
  <2>2. CASE pc = "find_all"
    BY <2>2, <1>1 DEF IInv, Phase, TypeOK
  <2>3. CASE Said
    BY <2>3, <1>2 DEF Said, FindAllSaid
  <2>4. CASE SaidBefore
    BY <2>4, <1>1 DEF SaidBefore
  <2> QED
    BY <2>1, <2>2, <2>3, <2>4 DEF IInv, Phase
<1>4. Printed = DOMAIN stdout
  BY <1>3 DEF Printed, AreNumbered
<1>5. Matches = Listed(stdout)
  BY <1>4 DEF Matches, Listed
<1> QED
  BY <1>1, <1>3, <1>4, <1>5

LEMMA IInvIsNumbered == IInv => LinesAreNumbered
<1> SUFFICES ASSUME IInv, mode = "find_all", Printed # {}
             PROVE  /\ Printed = DOMAIN stdout
                    /\ \A k \in Printed : stdout[k].index = k - 1
                    /\ Abs!InOrder(Matches)
                    /\ Abs!AllLongest(Matches, ends)
                    /\ Abs!NoneSkipped(Matches, ends,
                                       Matches[Len(stdout)].start + 1)
  BY Zenon DEF LinesAreNumbered
<1> DEFINE list == Listed(stdout)
           last == list[Len(stdout)]
<1>1. /\ AreNumbered(stdout) /\ stdout # <<>>
      /\ stdout \in Seq(Lines) /\ Printed = DOMAIN stdout
      /\ Matches = list
      /\ \/ \E s \in Nat : Abs!IsListedTo(list, ends, s)
         \/ Abs!IsFindAll(list, ends, text_length)
  BY PrintedList
<1>2. DOMAIN ends \subseteq 0 .. text_length /\ text_length \in Nat
  BY EndsType DEF IInv
<1>3. Len(stdout) \in DOMAIN list
  BY <1>1 DEF Listed
<1> HIDE DEF list
<1>4. /\ Abs!InOrder(list) /\ Abs!AllLongest(list, ends)
      /\ \E s \in Nat : Abs!NoneSkipped(list, ends, s) /\ last.start + 1 <= s
      /\ last.start \in Nat
  <2>1. CASE \E s \in Nat : Abs!IsListedTo(list, ends, s)
    <3>1. PICK s \in Nat : Abs!IsListedTo(list, ends, s)
      BY <2>1
    <3>2. last.start < s /\ last.start \in Nat
      BY <1>2, <1>3, <3>1 DEF Abs!IsListedTo
    <3> QED
      BY <3>1, <3>2 DEF Abs!IsListedTo
  <2>2. CASE Abs!IsFindAll(list, ends, text_length)
    <3>1. last.start + 1 <= text_length + 1 /\ last.start \in Nat
          /\ text_length + 1 \in Nat
      BY <1>2, <1>3, <2>2 DEF Abs!IsFindAll
    <3> QED
      BY <2>2, <3>1 DEF Abs!IsFindAll
  <2> QED
    BY <1>1, <2>1, <2>2
<1>5. Abs!NoneSkipped(list, ends, last.start + 1)
  BY <1>2, <1>4 DEF Abs!NoneSkipped
<1> QED
  BY <1>1, <1>4, <1>5 DEF AreNumbered

\* The lines of a --find-all, also of one that fails, are the matches from
\* the first on, numbered from 0, without a match left out between them.
THEOREM LinesAreTheMatches == Spec => []LinesAreNumbered
BY IInvIsNumbered, Invariance, PTL

LEMMA IInvIsTrue == IInv => NoMatchIsTrue
<1> SUFFICES ASSUME IInv, status = "EXIT_SUCCESS", mode \in {"search", "find_all"}
             PROVE  /\ NoMatch \in {stdout[k] : k \in DOMAIN stdout} <=>
                          \A i \in DOMAIN ends : ends[i] = {}
                    /\ mode = "search" \/ Printed = {} => Len(stdout) = 1
  BY Zenon DEF NoMatchIsTrue
<1>1. text_length \in Nat /\ DOMAIN ends = 0 .. text_length
  BY EndsType DEF IInv
<1>2. Said
  BY CliAssumption DEF IInv, Phase, ExitStatus
<1>3. CASE FindsNothing(0) /\ stdout = <<NoMatch>>
  <2>1. NoMatch \in {stdout[k] : k \in DOMAIN stdout} /\ Len(stdout) = 1
    BY <1>3
  <2> QED
    BY <1>1, <1>3, <2>1 DEF FindsNothing
<1>4. CASE \E m \in AllMatches :
              IsFound(m, 0) /\ stdout = <<Line("MATCH", NULL, m)>>
  <2>1. PICK m \in AllMatches :
           IsFound(m, 0) /\ stdout = <<Line("MATCH", NULL, m)>>
    BY <1>4
  <2>2. m.start \in DOMAIN ends /\ ends[m.start] # {}
    BY <1>1, <2>1, FoundIsFirst DEF IInv
  <2>3. NoMatch # Line("MATCH", NULL, m)
    BY LineTypes
  <2>4. /\ NoMatch \notin {stdout[k] : k \in DOMAIN stdout}
        /\ Len(stdout) = 1
    BY <2>1, <2>3
  <2> QED
    BY <2>2, <2>4
<1>5. CASE mode = "find_all" /\ stdout # <<>> /\ AreNumbered(stdout)
           /\ Abs!IsFindAll(Listed(stdout), ends, text_length)
  <2>1. stdout \in Seq(Lines) /\ 1 \in DOMAIN stdout
    BY <1>5 DEF IInv, Phase
  <2>2. NoMatch \notin {stdout[k] : k \in DOMAIN stdout}
    BY <1>5, LineTypes DEF AreNumbered
  <2>3. 1 \in Printed
    BY <1>5, <2>1 DEF AreNumbered, Printed
  <2>4. \E i \in DOMAIN ends : ends[i] # {}
    BY <1>5, <2>1 DEF Abs!IsFindAll, Abs!AllLongest, Listed
  <2> QED
    BY <1>5, <2>2, <2>3, <2>4
<1> QED
  BY <1>2, <1>3, <1>4, <1>5 DEF Said, SearchSaid, FindAllSaid

\* "NO MATCH" is printed if and only if nothing matches, the empty matches
\* counted, and then alone (main.c:276, 336).
THEOREM NoMatchIsSaid == Spec => []NoMatchIsTrue
BY IInvIsTrue, Invariance, PTL
-----------------------------------------------------------------------------
(* --find-all, as the abstract call sees it.                               *)

\* The steps that end no --find-all with an answer.
LEMMA NoAnswer ==
    ASSUME Answer = Abs!Pending, Answer' = Abs!Pending,
           UNCHANGED <<text_length, ends>>
    PROVE  UNCHANGED Abs!vars
BY Zenon DEF Abs!vars

LEMMA StillPending ==
    ASSUME pc # "done"
    PROVE  Answer = Abs!Pending
BY DEF Answer, Abs!Pending, Abs!NoError

LEMMA EndAnswers ==
    ASSUME pc # "done", NEW a, Answer' = a, a.success \in BOOLEAN,
           Abs!Failure(a) \/ Abs!Success(a),
           UNCHANGED <<text_length, ends>>
    PROVE  Abs!Answer
<1>1. Answer = Abs!Pending /\ Abs!Pending.success = NULL
  BY StillPending DEF Abs!Pending
<1>2. a # Abs!Pending
  BY <1>1, CliAssumption
<1> QED
  BY <1>1, <1>2, Zenon DEF Abs!Answer

LEMMA StepAnswers ==
    ASSUME IInv, [Next]_vars
    PROVE  [Abs!Answer]_(Abs!vars)
<1>1. CASE UNCHANGED vars
  <2>1. UNCHANGED <<argc, option, text_length, ends, pc, stdout, stderr, status>>
    BY <1>1 DEF vars, input
  <2>2. mode' = mode
    BY <1>1, InputStays DEF vars
  <2>3. Answer' = Answer
    <3>1. Matches' = Matches
      BY <2>1 DEF Matches, Printed
    <3> QED
      BY <2>1, <2>2, <3>1 DEF Answer
  <2> QED
    BY <2>1, <2>3, Zenon DEF Abs!vars
<1>2. ASSUME Next
      PROVE  /\ pc # "done" /\ Answer = Abs!Pending
             /\ UNCHANGED input /\ UNCHANGED <<text_length, ends>>
             /\ mode' = mode
  <2>1. pc # "done" /\ UNCHANGED input
    BY <1>2
    DEF Next, Usage, Parse, ParseFails, CompileProgram, CompileFails, VmFails,
        PrintDump, FullMatch, Search, FindNext, FindNothing, Finish, Fail, Puts
  <2> QED
    BY <2>1, StillPending, InputStays DEF input
<1>3. ASSUME Next, mode # "find_all" \/ pc' # "done" \/ stderr' \notin {NULL, "vm"}
      PROVE  UNCHANGED Abs!vars
  <2>1. Answer' = Abs!Pending
    BY <1>2, <1>3 DEF Answer, Abs!Pending, Abs!NoError
  <2> QED
    BY <1>2, <1>3, <2>1, NoAnswer
<1>4. CASE VmFails /\ mode = "find_all"
  <2>1. /\ pc' = "done" /\ status' = "EXIT_FAILURE" /\ stderr' = "vm"
        /\ pc # "done" /\ mode' = "find_all" /\ UNCHANGED <<text_length, ends>>
    BY <1>2, <1>4 DEF VmFails, Fail, Exit, Next
  <2> DEFINE a == [success |-> FALSE, matches |-> <<>>,
                   error   |-> "regex VM failed during find-all"]
  <2>2. Answer' = a
    <3>1. (status' = "EXIT_SUCCESS") = FALSE
      BY <2>1
    <3> QED
      BY <2>1, <3>1 DEF Answer
  <2>3. Abs!Failure(a) /\ a.success \in BOOLEAN
    BY DEF Abs!Failure, Abs!FindAllErrors
  <2> HIDE DEF a
  <2>4. Abs!Answer
    BY <2>1, <2>2, <2>3, EndAnswers
  <2> QED
    BY <2>4
<1>5. CASE Finish /\ mode = "find_all"
  <2>1. /\ pc = "free" /\ pc' = "done" /\ status' = "EXIT_SUCCESS"
        /\ stderr' = NULL /\ stdout' = stdout
        /\ mode' = "find_all" /\ UNCHANGED <<text_length, ends>>
    BY <1>2, <1>5 DEF Finish, Exit, IInv, Phase, Next
  <2>2. Abs!IsFindAll(Matches, ends, text_length)
    <3>1. CASE FindsNothing(0) /\ stdout = <<NoMatch>>
      <4>1. Printed = {}
        BY <3>1, NoneIsPrinted
      <4>2. Matches = <<>>
        BY <4>1 DEF Matches
      <4>3. text_length \in Nat /\ DOMAIN ends = Abs!Offsets(text_length)
        BY EndsType DEF IInv
      <4>4. Abs!IsListedTo(<<>>, ends, 0)
        BY <4>3, NothingListed
      <4>5. Abs!IsFindAll(<<>>, ends, text_length)
        BY <3>1, <4>3, <4>4, ListedAll DEF FindsNothing
      <4> QED
        BY <4>2, <4>5
    <3>2. CASE /\ stdout # <<>> /\ AreNumbered(stdout)
               /\ Abs!IsFindAll(Listed(stdout), ends, text_length)
      <4>1. Printed = DOMAIN stdout
        BY <3>2 DEF Printed, AreNumbered
      <4>2. Matches = Listed(stdout)
        BY <4>1 DEF Matches, Listed
      <4> QED
        BY <3>2, <4>2
    <3> QED
      BY <1>5, <2>1, <3>1, <3>2 DEF IInv, Phase, Said, FindAllSaid
  <2> DEFINE a == [success |-> TRUE, matches |-> Matches, error |-> "none"]
  <2>3. Answer' = a
    <3>1. Matches' = Matches
      BY <2>1 DEF Matches, Printed
    <3>2. (status' = "EXIT_SUCCESS") = TRUE
      BY <2>1
    <3> QED
      BY <2>1, <3>1, <3>2 DEF Answer
  <2>4. a.success = TRUE /\ a.matches = Matches /\ a.error = "none"
    OBVIOUS
  <2> HIDE DEF a
  <2>5. Abs!Success(a) /\ a.success \in BOOLEAN
    BY <2>2, <2>4 DEF Abs!Success, Abs!Given, Abs!NoError
  <2>6. Abs!Answer
    BY <2>1, <2>3, <2>5, EndAnswers
  <2> QED
    BY <2>6
<1>6. ASSUME Next, ~VmFails, ~Finish
      PROVE  pc' # "done" \/ stderr' \notin {NULL, "vm"}
  <2>1. CASE Usage \/ ParseFails \/ CompileFails
    <3>1. stderr' \in {"usage", "regex", "compiler"}
      BY <2>1 DEF Usage, ParseFails, CompileFails, Fail
    <3> QED
      BY <3>1, CliAssumption DEF Messages
  <2>2. CASE Parse \/ CompileProgram
    BY <2>2 DEF Parse, CompileProgram, IInv, InputOK, Modes
  <2>3. CASE PrintDump \/ FullMatch \/ Search \/ FindNothing
    BY <2>3 DEF PrintDump, FullMatch, Search, FindNothing, Puts
  <2>4. CASE FindNext
    BY <2>4 DEF FindNext, Advance
  <2> QED
    BY <1>6, <2>1, <2>2, <2>3, <2>4 DEF Next
<1> QED
  BY <1>1, <1>3, <1>4, <1>5, <1>6

\* --find-all prints the list that regex_find_all returns: its loop is that of
\* src/regex.c:410 once more (main.c:290).
THEOREM FindAllIsPrinted == Spec => ImplementsFindAllSpec
<1>1. Init => Abs!Init
  <2> SUFFICES ASSUME Init PROVE Abs!Init
    OBVIOUS
  <2>1. Answer = Abs!Pending
    BY StillPending DEF Init
  <2>2. [regex |-> TRUE, text |-> TRUE, result |-> TRUE] \in Abs!Args
    BY DEF Abs!Args
  <2> QED
    BY <2>1, <2>2 DEF Init, Abs!Init
<1>2. IInv /\ [Next]_vars => [Abs!Answer]_(Abs!vars)
  BY StepAnswers
<1> QED
  BY <1>1, <1>2, Invariance, PTL DEF Spec, Abs!Spec, ImplementsFindAllSpec
=============================================================================
