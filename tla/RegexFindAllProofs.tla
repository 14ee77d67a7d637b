-------------------------- MODULE RegexFindAllProofs --------------------------
(***************************************************************************)
(* RegexFindAll implements FindAllSpec, for texts of any length and any    *)
(* capacities.                                                             *)
(***************************************************************************)
EXTENDS RegexFindAll, TLAPS

IsListedTo(m, s) == Abs!IsListedTo(m, ends, s)
IsFound(x, s) == Abs!IsFirst(x, ends, s)

\* What each value of pc says of the rest.
Phase ==
    /\ pc = "enter" => /\ matches = NULL /\ error = "none" /\ search_start = 0
                       /\ room = 0 /\ capacity = 0
    /\ pc # "done" => success = NULL
    /\ InLoop => /\ Abs!Given(args)
                 /\ error = "none"
                 /\ capacity = room
                 /\ Len(matches) <= room
                 /\ IsListedTo(matches, search_start)
    /\ pc = "append" => IsFound(match, search_start)
    /\ success = FALSE => room = 0

Inv == TypeOK /\ Phase
-----------------------------------------------------------------------------
LEMMA EndsType ==
    ASSUME TypeOK
    PROVE  /\ text_length \in Nat
           /\ ends \in [0 .. text_length -> SUBSET (0 .. text_length)]
           /\ \A i \in 0 .. text_length : \A e \in ends[i] : i <= e
           /\ search_start \in 0 .. text_length
  BY FindAllAssumption
     DEF TypeOK, Abs!MatchEndsOf, Abs!Offsets

LEMMA FoundType ==
    ASSUME TypeOK, NEW x, NEW s \in Nat, IsFound(x, s)
    PROVE  /\ x.start \in 0 .. text_length /\ x.end \in 0 .. text_length
           /\ s <= x.start /\ x.start <= x.end
  BY EndsType DEF IsFound, Abs!IsFirst, Abs!RegexMatch

\* A match found from s extends the list to any offset that it covers.
LEMMA AppendListed ==
    ASSUME NEW length \in Nat, NEW f, DOMAIN f = Abs!Offsets(length),
           NEW m, NEW s \in Nat, NEW x, NEW limit \in Nat,
           Abs!IsListedTo(m, f, s), Abs!IsFirst(x, f, s),
           x.start < limit, x.end <= limit,
           x.end = limit \/ (x.start = x.end /\ limit = x.end + 1)
    PROVE  Abs!IsListedTo(Append(m, x), f, limit)
<1> DEFINE longer == Append(m, x)
           n == Len(m) + 1
<1>1. /\ m \in Seq(Abs!RegexMatch) /\ x \in Abs!RegexMatch
      /\ Abs!InOrder(m) /\ Abs!AllLongest(m, f) /\ Abs!NoneSkipped(m, f, s)
      /\ \A k \in DOMAIN m : /\ m[k].start \in DOMAIN f
                             /\ m[k].end <= s /\ m[k].start < s
  BY DEF Abs!IsListedTo, Abs!IsFirst
<1>2. /\ x.start \in Nat /\ x.end \in Nat /\ x.start \in DOMAIN f
      /\ s <= x.start /\ x.start <= x.end
      /\ DOMAIN f \subseteq Nat
  BY DEF Abs!IsFirst, Abs!RegexMatch, Abs!Offsets
<1>3. /\ longer \in Seq(Abs!RegexMatch)
      /\ Len(m) \in Nat /\ DOMAIN m = 1 .. Len(m) /\ DOMAIN longer = 1 .. n
      /\ longer[n] = x /\ \A k \in DOMAIN m : longer[k] = m[k]
  BY <1>1
<1>4. \A k \in DOMAIN m : /\ m[k].start \in Nat /\ m[k].end \in Nat
                          /\ m[k].end <= x.start /\ m[k].start < x.start
  <2> SUFFICES ASSUME NEW k \in DOMAIN m
               PROVE  /\ m[k].start \in Nat /\ m[k].end \in Nat
                      /\ m[k].end <= x.start /\ m[k].start < x.start
    OBVIOUS
  <2>1. m[k] \in Abs!RegexMatch
    BY <1>1
  <2>2. m[k].start \in Nat /\ m[k].end \in Nat
    BY <2>1 DEF Abs!RegexMatch
  <2>3. x.start \in Nat /\ s <= x.start
    BY <1>2
  <2> QED BY <1>1, <2>2, <2>3
<1> HIDE DEF longer
<1>5. \A k \in DOMAIN longer : (k \in DOMAIN m /\ longer[k] = m[k])
                               \/ (k = n /\ k \notin DOMAIN m /\ longer[k] = x)
  BY <1>3
<1>6. \A k \in DOMAIN longer : /\ longer[k].start \in DOMAIN f
                               /\ longer[k].end <= limit
                               /\ longer[k].start < limit
  BY <1>1, <1>2, <1>4, <1>5
<1>7. Abs!InOrder(longer)
  <2> SUFFICES ASSUME NEW k \in DOMAIN longer, NEW l \in DOMAIN longer, k < l
               PROVE  /\ longer[k].end <= longer[l].start
                      /\ longer[k].start < longer[l].start
    BY DEF Abs!InOrder
  <2>1. k \in DOMAIN m /\ longer[k] = m[k]
    BY <1>3
  <2>2. CASE l \in DOMAIN m
    BY <1>1, <1>3, <2>1, <2>2 DEF Abs!InOrder
  <2>3. CASE l = n
    BY <1>3, <1>4, <2>1, <2>3
  <2> QED BY <1>5, <2>2, <2>3
<1>8. Abs!AllLongest(longer, f)
  <2>1. x.end \in f[x.start] /\ \A e \in f[x.start] : e <= x.end
    BY DEF Abs!IsFirst
  <2> QED BY <1>1, <1>5, <2>1 DEF Abs!AllLongest
<1>9. Abs!NoneSkipped(longer, f, limit)
  <2> SUFFICES ASSUME NEW i \in DOMAIN f, i < limit, f[i] # {}
               PROVE  Abs!IsCovered(longer, i)
    BY DEF Abs!NoneSkipped
  <2>1. i \in Nat
    BY <1>2
  <2>2. CASE i < s
    <3>1. PICK k \in DOMAIN m :
             m[k].start = i \/ (m[k].start < i /\ i < m[k].end)
      BY <1>1, <2>2 DEF Abs!NoneSkipped, Abs!IsCovered
    <3> QED BY <1>3, <3>1 DEF Abs!IsCovered
  <2>3. CASE s <= i /\ i < x.start
    <3>1. i \in s .. x.start - 1
      BY <1>2, <2>1, <2>3
    <3> QED BY <3>1 DEF Abs!IsFirst
  <2>4. CASE x.start <= i
    <3>1. x.start = i \/ (x.start < i /\ i < x.end)
      BY <1>2, <2>1, <2>4
    <3>2. n \in DOMAIN longer
      BY <1>3
    <3> QED BY <1>3, <3>1, <3>2 DEF Abs!IsCovered
  <2> QED BY <1>2, <2>1, <2>2, <2>3, <2>4
<1> QED BY <1>3, <1>6, <1>7, <1>8, <1>9 DEF Abs!IsListedTo, longer

\* A list that holds all there is.
LEMMA ListedAll ==
    ASSUME NEW length \in Nat, NEW f, DOMAIN f = Abs!Offsets(length),
           NEW m, NEW s \in Nat, Abs!IsListedTo(m, f, s),
           \A i \in s .. length : f[i] = {}
    PROVE  Abs!IsFindAll(m, f, length)
<1>1. Abs!NoneSkipped(m, f, length + 1)
  BY DEF Abs!IsListedTo, Abs!NoneSkipped, Abs!Offsets
<1> QED BY <1>1 DEF Abs!IsListedTo, Abs!IsFindAll

\* The same of the list of this call and a match that a search found.
LEMMA AppendFound ==
    ASSUME TypeOK, NEW m, NEW s \in Nat, NEW x, NEW limit \in Nat,
           IsListedTo(m, s), IsFound(x, s),
           x.start < limit, x.end <= limit,
           x.end = limit \/ (x.start = x.end /\ limit = x.end + 1)
    PROVE  IsListedTo(Append(m, x), limit)
<1>1. text_length \in Nat /\ DOMAIN ends = Abs!Offsets(text_length)
  BY EndsType DEF Abs!Offsets
<1> QED BY <1>1, AppendListed DEF IsListedTo, IsFound

\* When nothing matches from s on, the list is complete.
LEMMA ListedEverything ==
    ASSUME TypeOK, NEW m, NEW s \in Nat, IsListedTo(m, s),
           \A i \in s .. text_length : ends[i] = {}
    PROVE  Abs!IsFindAll(m, ends, text_length)
<1>1. text_length \in Nat /\ DOMAIN ends = Abs!Offsets(text_length)
  BY EndsType DEF Abs!Offsets
<1> QED BY <1>1, ListedAll DEF IsListedTo

\* The three ways on from an appended match.
LEMMA AdvanceListed ==
    ASSUME Inv, pc = "append", Advance, matches' = Append(matches, match),
           UNCHANGED <<input>>
    PROVE  /\ search_start' \in Abs!Offsets(text_length)
           /\ error' = "none"
           /\ \/ /\ pc' = "search" /\ success' = NULL
                 /\ IsListedTo(matches', search_start')
              \/ /\ pc' = "done" /\ success' = TRUE
                 /\ Abs!IsFindAll(matches', ends, text_length)
<1>1. /\ TypeOK /\ IsListedTo(matches, search_start)
      /\ IsFound(match, search_start) /\ search_start \in Nat
      /\ success = NULL /\ error = "none"
  BY EndsType DEF Inv, Phase, InLoop
<1>2. /\ match.start \in 0 .. text_length /\ match.end \in 0 .. text_length
      /\ search_start <= match.start /\ match.start <= match.end
      /\ text_length \in Nat /\ search_start \in 0 .. text_length
  BY <1>1, FoundType, EndsType
<1>3. CASE /\ match.end > match.start /\ pc' = "search"
           /\ search_start' = match.end /\ UNCHANGED results
  <2>1. IsListedTo(matches', match.end)
    BY <1>1, <1>2, <1>3, AppendFound
  <2> QED BY <1>1, <1>2, <1>3, <2>1 DEF results, Abs!Offsets
<1>4. CASE /\ match.end <= match.start /\ match.end < text_length
           /\ pc' = "search" /\ search_start' = match.end + 1
           /\ UNCHANGED results
  <2>1. match.end = match.start /\ match.end + 1 \in Nat
    BY <1>2, <1>4
  <2>2. IsListedTo(matches', match.end + 1)
    BY <1>1, <1>2, <2>1, AppendFound
  <2> QED BY <1>1, <1>2, <1>4, <2>2 DEF results, Abs!Offsets
<1>5. CASE /\ match.end <= match.start /\ match.end >= text_length
           /\ Succeed /\ UNCHANGED search_start
  <2>1. match.end = match.start /\ match.end = text_length
        /\ text_length + 1 \in Nat
    BY <1>2, <1>5
  <2>2. IsListedTo(matches', text_length + 1)
    <3>1. /\ match.start < text_length + 1 /\ match.end <= text_length + 1
          /\ match.start = match.end /\ text_length + 1 = match.end + 1
      BY <1>2, <2>1
    <3> QED BY <1>1, <2>1, <3>1, AppendFound
  <2>3. \A i \in text_length + 1 .. text_length : ends[i] = {}
    BY <1>2
  <2>4. Abs!IsFindAll(matches', ends, text_length)
    BY <1>1, <2>1, <2>2, <2>3, ListedEverything
  <2> QED BY <1>1, <1>2, <1>5, <2>4 DEF Succeed, Abs!Offsets
<1> QED BY <1>3, <1>4, <1>5 DEF Advance
-----------------------------------------------------------------------------
LEMMA InvInit == Init => Inv
<1> SUFFICES ASSUME Init
             PROVE  Inv
  OBVIOUS
<1>1. NULL # FALSE
  BY FindAllAssumption, Zenon
<1>2. TypeOK
  BY FindAllAssumption
     DEF Init, TypeOK, InLoop, Abs!RegexMatch, Abs!Offsets
<1>3. Phase
  BY <1>1 DEF Init, Phase, InLoop
<1> QED BY <1>2, <1>3 DEF Inv

LEMMA EnterInv ==
    ASSUME Inv, Refuse \/ Enter
    PROVE  Inv'
<1> USE DEF Inv
<1>1. /\ pc = "enter" /\ matches = NULL /\ error = "none" /\ success = NULL
      /\ search_start = 0 /\ room = 0 /\ capacity = 0
      /\ UNCHANGED <<args, text_length, ends, room, capacity, search_start, match>>
  BY DEF Refuse, Enter, ClearResult, input, Phase
<1>2. CASE Refuse
  <2>1. /\ pc' = "done" /\ success' = FALSE
        /\ error' \in Abs!FindAllErrors
    BY <1>2, Zenon DEF Refuse, Abs!FindAllErrors
  <2>2. TypeOK'
    BY <1>1, <2>1 DEF TypeOK, InLoop
  <2>3. Phase'
    BY <1>1, <2>1 DEF Phase, InLoop
  <2> QED BY <2>2, <2>3
<1>3. CASE Enter
  <2>1. /\ pc' = "search" /\ matches' = <<>> /\ Abs!Given(args)
        /\ success' = NULL /\ error' = "none"
    BY <1>1, <1>3 DEF Enter, ClearResult, results, Abs!Given
  <2>2. TypeOK'
    BY <1>1, <2>1 DEF TypeOK, InLoop
  <2>3. IsListedTo(<<>>, 0)
    BY EndsType
       DEF IsListedTo, Abs!IsListedTo, Abs!InOrder, Abs!AllLongest, Abs!NoneSkipped
  <2>4. IsListedTo(matches', search_start')
    BY <1>1, <2>1, <2>3
  <2>5. IsListedTo(matches, search_start)'
    BY <1>1, <2>4 DEF IsListedTo
  <2>6. success' # FALSE
    BY <2>1, FindAllAssumption, Zenon
  <2>7. Abs!Given(args')
    BY <1>1, <2>1
  <2>8. capacity' = room' /\ Len(matches') <= room'
    BY <1>1, <2>1
  <2>9. Phase'
    BY <2>1, <2>5, <2>6, <2>7, <2>8 DEF Phase, InLoop
  <2> QED BY <2>2, <2>9
<1> QED BY <1>2, <1>3

LEMMA SearchInv ==
    ASSUME Inv, SearchFinds \/ SearchFindsNothing
    PROVE  Inv'
<1> USE DEF Inv
<1>1. /\ pc = "search" /\ InLoop /\ error = "none" /\ success = NULL
      /\ UNCHANGED <<args, text_length, ends, matches, room, capacity,
                     search_start, error>>
  BY DEF SearchFinds, SearchFindsNothing, Succeed, input, list, results, Phase,
         InLoop
<1>2. IsListedTo(matches, search_start)'
  BY <1>1 DEF Phase, IsListedTo
<1>3. CASE SearchFinds
  <2>0. PICK from \in search_start .. text_length :
           \E to \in ends[from] :
              /\ \A s \in search_start .. from - 1 : ends[s] = {}
              /\ \A e \in ends[from] : e <= to
              /\ match' = [start |-> from, end |-> to]
    BY <1>3 DEF SearchFinds
  <2>1. PICK to \in ends[from] :
           /\ \A s \in search_start .. from - 1 : ends[s] = {}
           /\ \A e \in ends[from] : e <= to
           /\ match' = [start |-> from, end |-> to]
    BY <2>0
  <2>2. pc' = "append" /\ success' = success
    BY <1>3 DEF SearchFinds, results
  <2>3. match' \in Abs!RegexMatch /\ match'.start = from /\ match'.end = to
    BY <2>1, EndsType DEF Abs!RegexMatch
  <2>4. IsFound(match', search_start)
    BY <2>1, <2>3, EndsType DEF IsFound, Abs!IsFirst
  <2>5. IsFound(match, search_start)'
    BY <1>1, <2>4 DEF IsFound
  <2>6. TypeOK'
    BY <1>1, <2>2, <2>3 DEF TypeOK, InLoop
  <2>7. success' # FALSE
    BY <1>1, <2>2, FindAllAssumption, Zenon
  <2>8. Phase'
    BY <1>1, <1>2, <2>2, <2>5, <2>7 DEF Phase, InLoop
  <2> QED BY <2>6, <2>8
<1>4. CASE SearchFindsNothing
  <2>1. pc' = "done" /\ success' = TRUE /\ match' = match
    BY <1>4 DEF SearchFindsNothing, Succeed
  <2>2. TypeOK'
    BY <1>1, <2>1 DEF TypeOK, InLoop
  <2>3. Phase'
    BY <2>1 DEF Phase, InLoop
  <2> QED BY <2>2, <2>3
<1> QED BY <1>3, <1>4

\* The list is written where there is room.
LEMMA AppendInv ==
    ASSUME Inv, AppendInRoom \/ GrowAndAppend
    PROVE  Inv'
<1> USE DEF Inv
<1>1. /\ pc = "append" /\ InLoop /\ Abs!Given(args) /\ capacity = room
      /\ matches \in Seq(Abs!RegexMatch) /\ match \in Abs!RegexMatch
      /\ Advance /\ matches' = Append(matches, match)
      /\ UNCHANGED <<args, text_length, ends, match>>
      /\ room \in Nat /\ Len(matches) <= room
  BY DEF AppendInRoom, GrowAndAppend, Phase, InLoop, input, TypeOK, IsListedTo
<1>2. /\ search_start' \in Abs!Offsets(text_length)
      /\ error' = "none"
      /\ \/ /\ pc' = "search" /\ success' = NULL
            /\ IsListedTo(matches', search_start')
         \/ pc' = "done" /\ success' = TRUE
  BY <1>1, AdvanceListed DEF input
<1>3. /\ room' \in Nat /\ capacity' = room' /\ Len(matches') <= room'
  <2>1. Len(matches) \in Nat /\ Len(matches') = Len(matches) + 1
    BY <1>1
  <2>2. CASE AppendInRoom
    BY <1>1, <2>1, <2>2 DEF AppendInRoom, IsFull
  <2>3. CASE GrowAndAppend
    <3>1. room' = Doubled /\ capacity' = Doubled
      BY <2>3 DEF GrowAndAppend
    <3>2. Doubled \in Nat /\ Doubled > room
      BY <1>1, FindAllAssumption DEF Doubled
    <3> QED BY <1>1, <2>1, <3>1, <3>2
  <2> QED BY <2>2, <2>3
<1>4. matches' \in Seq(Abs!RegexMatch)
  BY <1>1
<1>5. TypeOK'
  <2>1. pc' \in {"enter", "search", "append", "done"}
    BY <1>2
  <2>2. success' \in {TRUE, FALSE, NULL}
    BY <1>2, Zenon
  <2> QED BY <1>1, <1>2, <1>3, <1>4, <2>1, <2>2 DEF TypeOK, InLoop
<1>6. CASE pc' = "search"
  <2>1. success' = NULL /\ IsListedTo(matches', search_start')
    BY <1>2, <1>6
  <2>2. IsListedTo(matches, search_start)'
    BY <1>1, <2>1 DEF IsListedTo
  <2>3. success' # FALSE
    BY <2>1, FindAllAssumption, Zenon
  <2>4. Phase'
    BY <1>1, <1>2, <1>3, <1>6, <2>1, <2>2, <2>3 DEF Phase, InLoop
  <2> QED BY <1>5, <2>4
<1>7. CASE pc' = "done"
  <2>1. success' = TRUE
    BY <1>2, <1>7
  <2>2. Phase'
    BY <1>7, <2>1 DEF Phase, InLoop
  <2> QED BY <1>5, <2>2
<1> QED BY <1>2, <1>6, <1>7

LEMMA FailInv ==
    ASSUME Inv, SearchFails \/ AppendFails
    PROVE  /\ Inv'
           /\ pc # "done" /\ InLoop /\ pc' = "done" /\ matches' = <<>>
           /\ success' = FALSE /\ error' \in Abs!FindAllErrors
           /\ UNCHANGED <<args, text_length, ends>>
<1> USE DEF Inv
<1>1. PICK why \in Abs!FindAllErrors : Fail(why)
  <2>1. CASE SearchFails
    BY <2>1 DEF SearchFails, Abs!FindAllErrors
  <2>2. CASE AppendFails
    BY <2>2 DEF AppendFails, Abs!FindAllErrors
  <2> QED BY <2>1, <2>2
<1>2. /\ pc' = "done" /\ matches' = <<>> /\ room' = 0 /\ success' = FALSE
      /\ error' = why
      /\ UNCHANGED <<args, text_length, ends, capacity, search_start, match>>
  BY <1>1, Zenon DEF Fail, input
<1>3. pc # "done" /\ InLoop
  BY DEF SearchFails, AppendFails, InLoop
<1>4. TypeOK'
  BY <1>2 DEF TypeOK, InLoop
<1>5. Phase'
  BY <1>2 DEF Phase, InLoop
<1> QED BY <1>2, <1>3, <1>4, <1>5

LEMMA InvNext ==
    ASSUME Inv, [Next]_vars
    PROVE  Inv'
<1>1. CASE UNCHANGED vars
  <2>1. UNCHANGED <<args, text_length, ends, pc, matches, room, capacity,
                    search_start, match, success, error>>
    BY <1>1 DEF vars, input, list, results
  <2>2. TypeOK'
    BY <2>1 DEF Inv, TypeOK, InLoop
  <2>3. Phase'
    BY <2>1 DEF Inv, Phase, InLoop, IsListedTo, IsFound
  <2> QED BY <2>2, <2>3 DEF Inv
<1> QED BY <1>1, EnterInv, SearchInv, AppendInv, FailInv DEF Next

LEMMA Invariant == Spec => []Inv
<1> QED BY InvInit, InvNext, PTL DEF Spec

(* Every variable keeps its type.                                          *)
THEOREM TypeCorrect == Spec => []TypeOK
<1>1. Inv => TypeOK
  BY DEF Inv
<1> QED BY <1>1, Invariant, PTL

(* No two matches of the list under construction share a character or a    *)
(* start.                                                                  *)
THEOREM NoOverlap == Spec => []MatchesDoNotOverlap
<1>1. Inv => MatchesDoNotOverlap
  BY DEF Inv, Phase, MatchesDoNotOverlap, IsListedTo, Abs!IsListedTo
<1> QED BY <1>1, Invariant, PTL

(* The search never steps over a match that begins behind the listed ones. *)
THEOREM NoMatchLost == Spec => []NothingIsSkipped
<1>1. Inv => NothingIsSkipped
  BY DEF Inv, Phase, NothingIsSkipped, IsListedTo, Abs!IsListedTo
<1> QED BY <1>1, Invariant, PTL

(* Each search begins behind the one before it: there are at most as many  *)
(* as the text has offsets.                                                *)
THEOREM SearchAdvances == Spec => SearchMovesOn
<1>1. ASSUME Inv, [Next]_vars, pc = "append", pc' = "search"
      PROVE  search_start < search_start'
  <2>1. Advance
    BY <1>1 DEF Next, Refuse, Enter, SearchFails, SearchFinds,
                SearchFindsNothing, AppendInRoom, GrowAndAppend, AppendFails,
                Fail, vars
  <2>2. /\ search_start \in Nat /\ match.start \in Nat /\ match.end \in Nat
        /\ search_start <= match.start /\ match.start <= match.end
    BY <1>1, FoundType DEF Inv, Phase, TypeOK, IsFound, Abs!Offsets
  <2> QED BY <1>1, <2>1, <2>2 DEF Advance, Succeed
<1>2. Inv /\ [Next]_vars =>
        [pc = "append" /\ pc' = "search" => search_start < search_start']_vars
  BY <1>1
<1> QED BY <1>2, Invariant, PTL DEF Spec, SearchMovesOn

(* The list never outgrows its block, and a failure keeps no block.        *)
THEOREM ListFits == Spec => []WithinBlock
<1>1. Inv => WithinBlock
  BY DEF Inv, Phase, WithinBlock
<1> QED BY <1>1, Invariant, PTL
-----------------------------------------------------------------------------
\* The end of the call, as the abstract call sees it.
LEMMA EndAnswers ==
    ASSUME pc # "done", pc' = "done", success' \in {TRUE, FALSE},
           UNCHANGED <<args, text_length, ends>>,
           LET a == [success |-> success', matches |-> matches', error |-> error']
           IN  Abs!Failure(a) \/ Abs!Success(a)
    PROVE  Abs!Answer
<1> DEFINE a == [success |-> success', matches |-> matches', error |-> error']
<1>1. Answer = Abs!Pending
  BY DEF Answer, Abs!Pending, Abs!NoError
<1>2. Answer' = a
  BY Zenon DEF Answer
<1>3. a.success = success' /\ Abs!Pending.success = NULL
  BY DEF Abs!Pending
<1>4. success' # NULL
  BY FindAllAssumption, Zenon
<1>5. Answer' # Abs!Pending
  BY <1>2, <1>3, <1>4, Zenon
<1>6. Abs!Failure(Answer') \/ Abs!Success(Answer')
  BY <1>2
<1> QED BY <1>1, <1>5, <1>6, Zenon DEF Abs!Answer

LEMMA FailureAnswers ==
    ASSUME pc # "done", pc' = "done", success' = FALSE,
           error' \in Abs!FindAllErrors,
           matches' = IF args.result THEN <<>> ELSE NULL,
           UNCHANGED <<args, text_length, ends>>
    PROVE  Abs!Answer
<1> DEFINE a == [success |-> success', matches |-> matches', error |-> error']
<1>1. a.success = success' /\ a.matches = matches' /\ a.error = error'
  OBVIOUS
<1> HIDE DEF a
<1>2. Abs!Failure(a)
  BY <1>1, Zenon DEF Abs!Failure
<1> QED BY <1>2, EndAnswers, Zenon DEF a

LEMMA SuccessAnswers ==
    ASSUME pc # "done", pc' = "done", success' = TRUE, error' = "none",
           Abs!Given(args), Abs!IsFindAll(matches', ends, text_length),
           UNCHANGED <<args, text_length, ends>>
    PROVE  Abs!Answer
<1> DEFINE a == [success |-> success', matches |-> matches', error |-> error']
<1>1. a.success = success' /\ a.matches = matches' /\ a.error = error'
  OBVIOUS
<1> HIDE DEF a
<1>2. Abs!Success(a)
  BY <1>1, Zenon DEF Abs!Success, Abs!NoError
<1> QED BY <1>2, EndAnswers, Zenon DEF a

LEMMA StepAnswers ==
    ASSUME Inv, [Next]_vars
    PROVE  [Abs!Answer]_(Abs!vars)
<1>1. CASE Refuse
  <2>1. /\ pc # "done" /\ pc' = "done" /\ success' = FALSE
        /\ error' \in Abs!FindAllErrors
        /\ UNCHANGED <<args, text_length, ends>>
    BY <1>1, Zenon DEF Refuse, Abs!FindAllErrors, input
  <2>2. matches' = IF args.result THEN <<>> ELSE NULL
    BY <1>1, Zenon DEF Refuse, ClearResult, Inv, Phase
  <2> QED BY <2>1, <2>2, FailureAnswers
<1>2. CASE SearchFails \/ AppendFails
  <2>1. /\ pc # "done" /\ pc' = "done" /\ success' = FALSE
        /\ error' \in Abs!FindAllErrors
        /\ UNCHANGED <<args, text_length, ends>>
        /\ matches' = <<>> /\ InLoop
    BY <1>2, FailInv
  <2>2. args.result
    BY <2>1 DEF Inv, Phase, Abs!Given
  <2> QED BY <2>1, <2>2, FailureAnswers
<1>3. CASE SearchFindsNothing
  <2>1. /\ pc = "search" /\ InLoop /\ pc' = "done" /\ success' = TRUE
        /\ UNCHANGED <<args, text_length, ends, matches, error>>
        /\ \A s \in search_start .. text_length : ends[s] = {}
    BY <1>3 DEF SearchFindsNothing, Succeed, input, list, InLoop
  <2>2. /\ TypeOK /\ IsListedTo(matches, search_start) /\ error = "none"
        /\ Abs!Given(args) /\ search_start \in Nat
    BY <2>1, EndsType DEF Inv, Phase
  <2>3. Abs!IsFindAll(matches', ends, text_length)
    BY <2>1, <2>2, ListedEverything
  <2> QED BY <2>1, <2>2, <2>3, SuccessAnswers
<1>4. CASE AppendInRoom \/ GrowAndAppend
  <2>1. /\ pc = "append" /\ InLoop /\ Advance
        /\ matches' = Append(matches, match)
        /\ UNCHANGED <<args, text_length, ends>>
    BY <1>4 DEF AppendInRoom, GrowAndAppend, input, InLoop
  <2>2. /\ error' = "none"
        /\ \/ pc' = "search" /\ success' = NULL
           \/ /\ pc' = "done" /\ success' = TRUE
              /\ Abs!IsFindAll(matches', ends, text_length)
    BY <2>1, AdvanceListed DEF input
  <2>3. CASE pc' = "search"
    BY <2>1, <2>3, Zenon DEF Abs!vars, Answer
  <2>4. CASE pc' = "done"
    BY <2>1, <2>2, <2>4, SuccessAnswers DEF Inv, Phase
  <2> QED BY <2>2, <2>3, <2>4
<1>5. CASE Enter \/ SearchFinds
  <2>1. pc # "done" /\ pc' # "done" /\ UNCHANGED <<args, text_length, ends>>
    BY <1>5 DEF Enter, SearchFinds, input
  <2> QED BY <2>1, Zenon DEF Abs!vars, Answer
<1>6. CASE UNCHANGED vars
  <2>1. UNCHANGED <<args, text_length, ends, pc, matches, success, error>>
    BY <1>6 DEF vars, input, list, results
  <2> QED BY <2>1, Zenon DEF Abs!vars, Answer
<1> QED BY <1>1, <1>2, <1>3, <1>4, <1>5, <1>6 DEF Next

(* The list returned holds every leftmost-longest match that does not      *)
(* overlap an earlier one, or the call failed and the list is empty.       *)
THEOREM FindAllIsRight == Spec => ImplementsFindAllSpec
<1>1. Init => Abs!Init
  BY Zenon DEF Init, Abs!Init, Answer, Abs!Pending, Abs!NoError
<1>2. Inv /\ [Next]_vars => [Abs!Answer]_(Abs!vars)
  BY StepAnswers
<1> QED BY <1>1, <1>2, Invariant, PTL DEF Spec, Abs!Spec, ImplementsFindAllSpec
=============================================================================
