----------------------------- MODULE RegexFindAll -----------------------------
(***************************************************************************)
(* regex_find_all of src/regex.c: searches again from behind the last      *)
(* match until nothing is found, and appends each match to a list that     *)
(* grows by doubling.                                                      *)
(*                                                                         *)
(* Each search is one step.  Its answer is the one MatchSpec allows        *)
(* nfa_vm_search_from; NfaVmProofs proves that src/vm.c gives it.          *)
(***************************************************************************)
EXTENDS Integers, Sequences

CONSTANTS Lengths, NULL,
          INITIAL_CAPACITY,  \* 8 in the code
          MAXIMUM_SIZE,      \* (size_t) -1
          MATCH_SIZE         \* sizeof(RegexMatch)

ASSUME FindAllAssumption ==
    /\ Lengths \subseteq Nat
    /\ INITIAL_CAPACITY \in Nat \ {0}
    /\ MAXIMUM_SIZE \in Nat
    /\ MATCH_SIZE \in Nat \ {0}
    /\ NULL \notin BOOLEAN

VARIABLES
    args, text_length, ends, \* the call: see FindAllSpec
    pc,                      \* where the call is
    matches,                 \* the list of the result: its first `count` entries
    room,                    \* the entries of the block result->matches points to
    capacity,                \* what regex_find_all believes `room` to be
    search_start,            \* where the next search begins
    match,                   \* what the last search found
    success, error           \* the result

input   == <<args, text_length, ends>>
list    == <<matches, room, capacity>>
results == <<success, error>>
vars    == <<input, pc, list, search_start, match, results>>

Answer == IF pc = "done"
          THEN [success |-> success, matches |-> matches, error |-> error]
          ELSE [success |-> NULL, matches |-> NULL, error |-> "none"]

Abs == INSTANCE FindAllSpec WITH answer <- Answer

Init == /\ args \in Abs!Args
        /\ text_length \in Lengths
        /\ ends \in Abs!MatchEndsOf(text_length)
        /\ pc = "enter"
        /\ matches = NULL /\ room = 0
        /\ capacity = 0 /\ search_start = 0
        /\ match = [start |-> 0, end |-> 0]
        /\ success = NULL /\ error = "none"
-----------------------------------------------------------------------------
(* Entry.  The list is cleared before the pointers are looked at.          *)

ClearResult == /\ matches' = IF args.result THEN <<>> ELSE matches
               /\ UNCHANGED <<room, capacity, search_start, match>>

Refuse == /\ pc = "enter"
          /\ ~Abs!Given(args)
          /\ pc' = "done"
          /\ success' = FALSE
          /\ error' = IF ~args.regex THEN "compiled regex must not be null"
                      ELSE IF ~args.text THEN "input text must not be null"
                      ELSE "match-list pointer must not be null"
          /\ ClearResult
          /\ UNCHANGED input

Enter == /\ pc = "enter"
         /\ Abs!Given(args)
         /\ pc' = "search"
         /\ ClearResult
         /\ UNCHANGED <<input, results>>
-----------------------------------------------------------------------------
(* The loop.                                                               *)

\* regex_match_list_free and the return of 0 that follows it.
Fail(why) == /\ pc' = "done"
             /\ matches' = <<>> /\ room' = 0
             /\ success' = FALSE /\ error' = why
             /\ UNCHANGED <<input, capacity, search_start, match>>

Succeed == pc' = "done" /\ success' = TRUE /\ UNCHANGED error

SearchFails == pc = "search" /\ Fail("regex VM failed during find-all")

\* Mutant: takes the first end instead of the last.
SearchFindsShortest ==
    /\ pc = "search"
    /\ \E from \in search_start .. text_length : \E to \in ends[from] :
          /\ \A s \in search_start .. from - 1 : ends[s] = {}
          /\ \A e \in ends[from] : to <= e
          /\ match' = [start |-> from, end |-> to]
    /\ pc' = "append"
    /\ UNCHANGED <<input, list, search_start, results>>

SearchFinds ==
    /\ pc = "search"
    /\ \E from \in search_start .. text_length : \E to \in ends[from] :
          /\ \A s \in search_start .. from - 1 : ends[s] = {}
          /\ \A e \in ends[from] : e <= to
          /\ match' = [start |-> from, end |-> to]
    /\ pc' = "append"
    /\ UNCHANGED <<input, list, search_start, results>>

\* There is nothing to find, which includes the end of the loop.
SearchFindsNothing ==
    /\ pc = "search"
    /\ \A s \in search_start .. text_length : ends[s] = {}
    /\ Succeed
    /\ UNCHANGED <<input, list, search_start, match>>

\* Mutants: step over an offset; step back into the match; search at the
\* end of an empty match again.
AdvanceTooFar ==
    IF match.end < text_length
    THEN pc' = "search" /\ search_start' = match.end + 1 /\ UNCHANGED results
    ELSE Succeed /\ UNCHANGED search_start
AdvanceIntoMatch ==
    IF match.start < text_length
    THEN pc' = "search" /\ search_start' = match.start + 1 /\ UNCHANGED results
    ELSE Succeed /\ UNCHANGED search_start

AdvanceNowhere ==
    pc' = "search" /\ search_start' = match.end /\ UNCHANGED results
\* What the loop does after a match is appended.
Advance ==
    \/ /\ match.end > match.start
       /\ pc' = "search"
       /\ search_start' = match.end
       /\ UNCHANGED results
    \/ /\ match.end <= match.start
       /\ match.end < text_length
       /\ pc' = "search"
       /\ search_start' = match.end + 1
       /\ UNCHANGED results
    \/ /\ match.end <= match.start
       /\ match.end >= text_length
       /\ Succeed
       /\ UNCHANGED search_start

\* Mutant: looks for room at the last entry, not behind it.
IsFullLate == Len(matches) > capacity

IsFull == Len(matches) >= capacity

AppendInRoom == /\ pc = "append"
                /\ ~IsFull
                /\ matches' = Append(matches, match)
                /\ Advance
                /\ UNCHANGED <<input, room, capacity, match>>

Doubled == IF capacity = 0 THEN INITIAL_CAPACITY ELSE capacity * 2

\* Neither the doubling nor the size in bytes overflows.
CanGrow == /\ capacity = 0 \/ capacity <= MAXIMUM_SIZE \div 2
           /\ Doubled <= MAXIMUM_SIZE \div MATCH_SIZE

GrowAndAppend == /\ pc = "append"
                 /\ IsFull
                 /\ CanGrow
                 /\ room' = Doubled
                 /\ capacity' = Doubled
                 /\ matches' = Append(matches, match)
                 /\ Advance
                 /\ UNCHANGED <<input, match>>

AppendFails ==
    /\ pc = "append"
    /\ IsFull
    /\ Fail(IF CanGrow THEN "failed to allocate regex match list"
            ELSE IF capacity # 0 /\ capacity > MAXIMUM_SIZE \div 2
            THEN "too many regex matches"
            ELSE "regex match list is too large")

Next == \/ Refuse \/ Enter
        \/ SearchFails \/ SearchFinds \/ SearchFindsNothing
        \/ AppendInRoom \/ GrowAndAppend \/ AppendFails

Spec == Init /\ [][Next]_vars
-----------------------------------------------------------------------------
InLoop == pc \in {"search", "append"}

TypeOK ==
    /\ args \in Abs!Args
    /\ text_length \in Lengths
    /\ ends \in Abs!MatchEndsOf(text_length)
    /\ pc \in {"enter", "search", "append", "done"}
    /\ InLoop => matches \in Seq(Abs!RegexMatch)
    /\ room \in Nat /\ capacity \in Nat
    /\ search_start \in Abs!Offsets(text_length)
    /\ match \in Abs!RegexMatch
    /\ success \in {TRUE, FALSE, NULL}
    /\ error \in Abs!FindAllErrors \cup {"none"}

(* What is listed so far is in order and behind it lies the next search:   *)
(* two matches never share a character or a start.                         *)
MatchesDoNotOverlap ==
    InLoop => /\ Abs!InOrder(matches)
              /\ \A k \in DOMAIN matches : /\ matches[k].end <= search_start
                                           /\ matches[k].start < search_start

(* No match below the next search is lost, except those that overlap a     *)
(* listed one.                                                             *)
NothingIsSkipped == InLoop => Abs!NoneSkipped(matches, ends, search_start)

(* An entry is only ever written inside of the block, and the block is     *)
(* released on every failure.                                              *)
WithinBlock == /\ InLoop => /\ capacity = room
                            /\ Len(matches) <= room
               /\ success = FALSE => room = 0

(* The answer is the whole list of leftmost-longest matches or a failure   *)
(* with an empty list.                                                     *)
ImplementsFindAllSpec == Abs!Spec

(* The loop comes back only to search from a later offset, also behind an  *)
(* empty match: it ends, and not because the memory does.                  *)
SearchMovesOn ==
    [][pc = "append" /\ pc' = "search" => search_start < search_start']_vars
=============================================================================
