-------------------------------- MODULE NfaVm --------------------------------
(***************************************************************************)
(* One call of the matcher of src/vm.c: a simulation of the program that   *)
(* keeps the set of states the text can have led to, one character at a    *)
(* time, and starts again from the next offset when nothing matched.       *)
(*                                                                         *)
(* The set is the array `current`; the next one is built in `next`.  A     *)
(* state enters a list at most once because the array `seen` marks it with *)
(* the list's `generation`; the marks are never cleared, a new list just   *)
(* takes the next generation, until the unsigned counter is at UINT_MAX    *)
(* and the whole array is zeroed.                                          *)
(***************************************************************************)
EXTENDS VmCalls, SequencesExt

CONSTANT UINT_MAX            \* the last generation

ASSUME UintMaxAssumption == UINT_MAX \in Nat \ {0}

VARIABLES
    call,             \* the arguments
    pc,               \* where the call is
    arrays,           \* the arrays of the NfaVm that are allocated
    current, next,    \* the state lists
    work,             \* the stack of vm_add_closure
    seen, generation, \* the marks
    start_position,   \* the offset this run starts from
    position,         \* the offset `current` belongs to
    list_index,       \* the state of `current` being moved
    longest_end,      \* the last offset of this run that was accepted
    matched, match, error \* the results

lists   == <<current, next, work, seen, generation>>
cursor  == <<start_position, position, list_index, longest_end>>
results == <<matched, match, error>>
vars    == <<call, pc, arrays, lists, cursor, results>>

Arrays == {"current", "next", "work", "seen"}

Program == call.program
State(s) == Program.states[s]
Length == Len(call.text)

Init == /\ call \in Calls
        /\ pc = "enter"
        /\ arrays = {}
        /\ current = <<>> /\ next = <<>> /\ work = <<>>
        /\ seen = <<>> /\ generation = 0
        /\ start_position = 0 /\ position = 0 /\ list_index = 0
        /\ longest_end = NFA_INVALID_STATE
        /\ matched = NULL /\ match = NULL /\ error = NoError
-----------------------------------------------------------------------------
(* Entry: the arguments, in the order of the early returns.                *)

\* The caller sees the outputs cleared once the pointers are known good.
ClearOutputs == /\ matched' = FALSE
                /\ match' = IF call.require_text_end THEN match ELSE EmptyMatch

Refuse(why) == /\ pc = "enter"
               /\ pc' = "done"
               /\ error' = why
               /\ UNCHANGED <<call, arrays, lists, cursor>>

RefuseOutputs == /\ ~call.outputs
                 /\ Refuse("null result pointer")
                 /\ UNCHANGED <<matched, match>>

RefuseText == /\ call.outputs
              /\ call.text = NULL
              /\ Refuse("null input text")
              /\ ClearOutputs

\* Mutant: refuses the offset vm.h allows, "may equal strlen(text)".
RefuseStartAtEnd == /\ call.outputs
                    /\ call.text # NULL
                    /\ ~call.require_text_end
                    /\ call.search_start >= Length
                    /\ Refuse("search start exceeds input length")
                    /\ ClearOutputs

\* Only nfa_vm_search_from has this check.
RefuseStart == /\ call.outputs
               /\ call.text # NULL
               /\ ~call.require_text_end
               /\ call.search_start > Length
               /\ Refuse("search start exceeds input length")
               /\ ClearOutputs

ReachesProgram == /\ call.outputs
                  /\ call.text # NULL
                  /\ call.require_text_end \/ call.search_start <= Length

RefuseProgram == /\ ReachesProgram
                 /\ \/ /\ Program = NULL
                       /\ Refuse("null program")
                    \/ /\ Program # NULL
                       /\ \/ Program.count = 0
                          \/ Program.start = NFA_INVALID_STATE
                          \/ Program.start >= Program.count
                       /\ Refuse("invalid NFA program")
                 /\ ClearOutputs

\* vm_initialize asks for the four arrays before it looks at any of them.
Allocate == /\ pc = "enter"
            /\ ReachesProgram
            /\ Program # NULL
            /\ Program.count # 0
            /\ Program.start # NFA_INVALID_STATE
            /\ Program.start < Program.count
            /\ pc' = "allocated"
            /\ \E got \in SUBSET Arrays : arrays' = got
            /\ seen' = [s \in States(Program) |-> 0]
            /\ start_position' = call.search_start
            /\ ClearOutputs
            /\ UNCHANGED <<call, current, next, work, generation, position,
                           list_index, longest_end, error>>

\* vm_destroy and the return that follows it.
Return == /\ pc' = "done"
          /\ arrays' = {}
          /\ current' = <<>> /\ next' = <<>> /\ work' = <<>>
          /\ seen' = <<>> /\ generation' = 0
          /\ UNCHANGED <<call, cursor>>

\* Mutant: returns without freeing the arrays that could be allocated.
AllocationFailsLeaking == /\ pc = "allocated"
                          /\ arrays # Arrays
                          /\ pc' = "done"
                          /\ error' = "failed to allocate VM state lists"
                          /\ seen' = <<>>
                          /\ UNCHANGED <<call, arrays, current, next, work,
                                         generation, cursor, matched, match>>

AllocationFails == /\ pc = "allocated"
                   /\ arrays # Arrays
                   /\ error' = "failed to allocate VM state lists"
                   /\ Return
                   /\ UNCHANGED <<matched, match>>

AllocationSucceeds == /\ pc = "allocated"
                      /\ arrays = Arrays
                      /\ pc' = "run"
                      /\ UNCHANGED <<call, arrays, lists, cursor, results>>
-----------------------------------------------------------------------------
(* vm_begin_state_list and vm_push_unseen_state.                           *)

\* Mutant: the marks outlive the generations.
FreshSeenStale == seen

FreshGeneration == IF generation = UINT_MAX THEN 1 ELSE generation + 1

FreshSeen ==
    IF generation = UINT_MAX THEN [s \in States(Program) |-> 0] ELSE seen

\* Mutant: pushes a state whatever its mark is.
PushedAlways(stack, marks, s, g) == Append(stack, s)

\* The stack after s is pushed, if `marks` does not have it in generation g.
Pushed(stack, marks, s, g) ==
    IF marks[s] = g THEN stack ELSE Append(stack, s)

\* A transition into s would leave the program.
IsInvalid(s) == s = NFA_INVALID_STATE \/ s >= Program.count
-----------------------------------------------------------------------------
(* vm_add_closure: one action per turn of its loop.  It fills `current`    *)
(* when a run begins ("seed") and `next` afterwards ("follow").            *)

IsFilling == pc \in {"seed", "follow"} /\ work # <<>>

Offset == IF pc = "seed" THEN position ELSE position + 1

\* The type lets the simulation pass at this offset.
Passes(type) == \/ type = "JUMP"
                \/ type = "ASSERT_START" /\ Offset = 0
                \/ type = "ASSERT_END" /\ Offset = Length

\* Mutant: tests both marks before it sets either.
PopSplitUnmarked ==
    LET state == State(Last(work))
        marks == [seen EXCEPT ![state.out1] = generation]
    IN  /\ IsFilling
        /\ state.type = "SPLIT"
        /\ ~IsInvalid(state.out1)
        /\ ~IsInvalid(state.out2)
        /\ seen' = [marks EXCEPT ![state.out2] = generation]
        /\ work' = Pushed(Pushed(Front(work), seen, state.out1, generation),
                          seen, state.out2, generation)
        /\ UNCHANGED <<call, pc, arrays, current, next, generation, cursor,
                       results>>

PopSplit ==
    LET state == State(Last(work))
        marks == [seen EXCEPT ![state.out1] = generation]
    IN  /\ IsFilling
        /\ state.type = "SPLIT"
        /\ ~IsInvalid(state.out1)
        /\ ~IsInvalid(state.out2)
        /\ seen' = [marks EXCEPT ![state.out2] = generation]
        /\ work' = Pushed(Pushed(Front(work), seen, state.out1, generation),
                          marks, state.out2, generation)
        /\ UNCHANGED <<call, pc, arrays, current, next, generation, cursor,
                       results>>

\* Mutant: follows the transition without looking at the mark.
PopPassingAlways ==
    LET state == State(Last(work))
    IN  /\ IsFilling
        /\ Passes(state.type)
        /\ ~IsInvalid(state.out1)
        /\ seen' = [seen EXCEPT ![state.out1] = generation]
        /\ work' = Append(Front(work), state.out1)
        /\ UNCHANGED <<call, pc, arrays, current, next, generation, cursor,
                       results>>

PopPassing ==
    LET state == State(Last(work))
    IN  /\ IsFilling
        /\ Passes(state.type)
        /\ ~IsInvalid(state.out1)
        /\ seen' = [seen EXCEPT ![state.out1] = generation]
        /\ work' = Pushed(Front(work), seen, state.out1, generation)
        /\ UNCHANGED <<call, pc, arrays, current, next, generation, cursor,
                       results>>

\* An assertion that does not hold here ends this path.
PopBlocked ==
    LET type == State(Last(work)).type
    IN  /\ IsFilling
        /\ type \in {"ASSERT_START", "ASSERT_END"}
        /\ ~Passes(type)
        /\ work' = Front(work)
        /\ UNCHANGED <<call, pc, arrays, current, next, seen, generation,
                       cursor, results>>

PopListed ==
    LET s == Last(work)
    IN  /\ IsFilling
        /\ State(s).type \in Listed
        /\ IF pc = "seed"
           THEN current' = Append(current, s) /\ UNCHANGED next
           ELSE next' = Append(next, s) /\ UNCHANGED current
        /\ work' = Front(work)
        /\ UNCHANGED <<call, pc, arrays, seen, generation, cursor, results>>

FailTransition == /\ error' = "NFA contains an invalid transition"
                  /\ Return
                  /\ UNCHANGED <<matched, match>>

PopInvalid ==
    LET state == State(Last(work))
    IN  /\ IsFilling
        /\ \/ state.type = "SPLIT" /\ IsInvalid(state.out2)
           \/ /\ state.type = "SPLIT" \/ Passes(state.type)
              /\ IsInvalid(state.out1)
        /\ FailTransition
-----------------------------------------------------------------------------
(* vm_run_from.                                                            *)

\* state_list_contains_match
ContainsMatch(list) == \E i \in DOMAIN list : State(list[i]).type = "MATCH"

\* Mutant: keeps the first end found, the shortest.
LongestEndFirst(list, q) ==
    IF /\ longest_end = NFA_INVALID_STATE
       /\ ContainsMatch(list) /\ (~call.require_text_end \/ q = Length)
    THEN q ELSE longest_end

\* longest_end once `list` is known to belong to offset q.
LongestEnd(list, q) ==
    IF ContainsMatch(list) /\ (~call.require_text_end \/ q = Length)
    THEN q ELSE longest_end

BeginRun == /\ pc = "run"
            /\ pc' = "seed"
            /\ current' = <<>>
            /\ generation' = FreshGeneration
            /\ seen' = [FreshSeen EXCEPT ![Program.start] = FreshGeneration]
            /\ work' = Pushed(<<>>, FreshSeen, Program.start, FreshGeneration)
            /\ position' = start_position
            /\ longest_end' = NFA_INVALID_STATE
            /\ UNCHANGED <<call, arrays, next, start_position, list_index,
                           results>>

EndSeed == /\ pc = "seed"
           /\ work = <<>>
           /\ longest_end' = LongestEnd(current, position)
           /\ pc' = IF position < Length THEN "read" ELSE "finish"
           /\ UNCHANGED <<call, arrays, lists, start_position, position,
                          list_index, results>>

BeginCharacter == /\ pc = "read"
                  /\ pc' = "scan"
                  /\ next' = <<>>
                  /\ generation' = FreshGeneration
                  /\ seen' = FreshSeen
                  /\ list_index' = 1
                  /\ UNCHANGED <<call, arrays, current, work, start_position,
                                 position, longest_end, results>>

IsScanning == pc = "scan" /\ list_index <= Len(current)

\* state_matches_character, for the character at `position`.
MatchesCharacter(state) ==
    \/ state.type \in {"CHAR", "CLASS"} /\ call.text[position + 1] \in state.chars
    \/ state.type = "ANY"

FollowState ==
    LET state == State(current[list_index])
    IN  /\ IsScanning
        /\ MatchesCharacter(state)
        /\ ~IsInvalid(state.out1)
        /\ pc' = "follow"
        /\ seen' = [seen EXCEPT ![state.out1] = generation]
        /\ work' = Pushed(<<>>, seen, state.out1, generation)
        /\ UNCHANGED <<call, arrays, current, next, generation, cursor,
                       results>>

FollowInvalid ==
    LET state == State(current[list_index])
    IN  /\ IsScanning
        /\ MatchesCharacter(state)
        /\ IsInvalid(state.out1)
        /\ FailTransition

SkipState == /\ IsScanning
             /\ ~MatchesCharacter(State(current[list_index]))
             /\ list_index' = list_index + 1
             /\ UNCHANGED <<call, pc, arrays, lists, start_position, position,
                            longest_end, results>>

EndFollow == /\ pc = "follow"
             /\ work = <<>>
             /\ pc' = "scan"
             /\ list_index' = list_index + 1
             /\ UNCHANGED <<call, arrays, lists, start_position, position,
                            longest_end, results>>

\* The lists are swapped; an empty one breaks the loop over the text.
EndCharacter ==
    /\ pc = "scan"
    /\ list_index > Len(current)
    /\ current' = next
    /\ next' = current
    /\ longest_end' = LongestEnd(next, position + 1)
    /\ position' = position + 1
    /\ pc' = IF next # <<>> /\ position + 1 < Length THEN "read" ELSE "finish"
    /\ UNCHANGED <<call, arrays, work, seen, generation, start_position,
                   list_index, results>>
-----------------------------------------------------------------------------
(* The end of a run, in nfa_vm_full_match and nfa_vm_search_from.          *)

ReportMatch == /\ pc = "finish"
               /\ longest_end # NFA_INVALID_STATE
               /\ matched' = TRUE
               /\ match' = IF call.require_text_end THEN match
                           ELSE [start |-> start_position, end |-> longest_end]
               /\ Return
               /\ UNCHANGED error

\* Mutant: goes on after the last character read.
TryAfterPosition == /\ pc = "finish"
                    /\ longest_end = NFA_INVALID_STATE
                    /\ ~call.require_text_end
                    /\ position < Length
                    /\ start_position' = position + 1
                    /\ pc' = "run"
                    /\ UNCHANGED <<call, arrays, lists, position, list_index,
                                   longest_end, results>>

TryNextStart == /\ pc = "finish"
                /\ longest_end = NFA_INVALID_STATE
                /\ ~call.require_text_end
                /\ start_position < Length
                /\ start_position' = start_position + 1
                /\ pc' = "run"
                /\ UNCHANGED <<call, arrays, lists, position, list_index,
                               longest_end, results>>

ReportNothing == /\ pc = "finish"
                 /\ longest_end = NFA_INVALID_STATE
                 /\ call.require_text_end \/ start_position = Length
                 /\ Return
                 /\ UNCHANGED results

Next == \/ RefuseOutputs \/ RefuseText \/ RefuseStart \/ RefuseProgram
        \/ Allocate \/ AllocationFails \/ AllocationSucceeds
        \/ BeginRun
        \/ PopSplit \/ PopPassing \/ PopBlocked \/ PopListed \/ PopInvalid
        \/ EndSeed
        \/ BeginCharacter
        \/ FollowState \/ FollowInvalid \/ SkipState \/ EndFollow
        \/ EndCharacter
        \/ ReportMatch \/ TryNextStart \/ ReportNothing

\* The call runs in its caller's thread and nothing in it waits.
Spec == Init /\ [][Next]_vars /\ WF_vars(Next)
-----------------------------------------------------------------------------
Answer == IF pc = "done"
          THEN [error |-> error, matched |-> matched, match |-> match]
          ELSE [error |-> "pending", matched |-> NULL, match |-> NULL]

Abs == INSTANCE MatchSpec WITH answer <- Answer

IsRunning == pc \in {"run", "seed", "read", "scan", "follow", "finish"}

Filled == IF pc = "seed" THEN current ELSE next

Marked == {s \in States(Program) : seen[s] = generation}

\* The listed states a run from start_position can be in at offset q.
ListedAt(q) ==
    {s \in States(Program) :
        /\ State(s).type \in Listed
        /\ <<s, q>> \in Reachable(Program, call.text, start_position)}

ControlType ==
    /\ call \in Calls
    /\ pc \in {"enter", "allocated", "run", "seed", "read", "scan", "follow",
              "finish", "done"}
    /\ arrays \subseteq Arrays
    /\ pc \notin {"enter", "done"} => IsLegal(call)

CursorType ==
    /\ start_position \in Nat /\ position \in Nat /\ list_index \in Nat
    /\ longest_end \in Nat \cup {NFA_INVALID_STATE}

ListType ==
    /\ generation \in 0 .. UINT_MAX
    /\ IF pc \in {"enter", "done"}
       THEN current = <<>> /\ next = <<>> /\ work = <<>> /\ seen = <<>>
       ELSE /\ current \in Seq(States(Program))
            /\ next \in Seq(States(Program))
            /\ work \in Seq(States(Program))
            /\ seen \in [States(Program) -> 0 .. UINT_MAX]

ResultType ==
    /\ matched \in {TRUE, FALSE, NULL}
    /\ match \in NfaMatch \cup {NULL}
    /\ error \in VmErrors \cup {NoError}

TypeOK == ControlType /\ CursorType /\ ListType /\ ResultType

(* The arrays hold program->count entries each (vm_initialize): none of    *)
(* the unchecked writes of vm_push_unseen_state and vm_add_closure goes    *)
(* past its array, whatever the program's transitions are.                 *)
WithinArrays ==
    IsRunning => /\ Len(work) <= Program.count
                 /\ Len(current) <= Program.count
                 /\ Len(next) <= Program.count

(* The marks are those of the list being filled, across any number of      *)
(* lists and the zeroing at UINT_MAX.  A list and the stack it is filled   *)
(* from hold marked states only, none of them twice; and a marked state    *)
(* that has left the stack was handled for this list: it is in it, or all  *)
(* states it leads to at this offset are marked.  So a mark left by an     *)
(* older list is never taken for one of this list, and hides no state.     *)
MarksAreOfThisList ==
    pc \in {"seed", "scan", "follow"} =>
        /\ IsInjective(Filled \o work)
        /\ ToSet(Filled \o work) \subseteq Marked
        /\ \A s \in Marked \ ToSet(work) :
              /\ State(s).type \in Listed => s \in ToSet(Filled)
              /\ EpsilonMoves(Program, call.text, s, Offset) \subseteq Marked

(* Between two characters `current` is exactly the set of listed states    *)
(* that the text read so far can lead to: nothing unreachable slips in     *)
(* (assertions tested at the wrong offset, stale entries of a swapped      *)
(* list) and nothing is lost (a stale mark that hides a state).            *)
CurrentIsExact ==
    pc \in {"read", "scan", "follow", "finish"} =>
        ToSet(current) = ListedAt(position)

(* longest_end is the largest end of a match found up to here, and a run   *)
(* is only left when no longer match can follow.                           *)
LongestIsMaximal ==
    pc \in {"read", "scan", "follow", "finish"} =>
        LET ends == {q \in Ends(call, start_position) :
                        pc = "finish" \/ q <= position}
        IN  IF ends = {}
            THEN longest_end = NFA_INVALID_STATE
            ELSE longest_end \in ends /\ \A q \in ends : q <= longest_end

(* nfa_vm_search_from moves on to a later start only when every earlier    *)
(* one neither matches nor runs into an invalid transition: leftmost.      *)
EarlierStartsFail ==
    IsRunning => \A s \in Starts(call) :
                    s < start_position => ~Decides(call, s)

(* The four arrays are all there while the simulation runs, and none is    *)
(* left allocated on any of the eight ways out (vm_destroy).               *)
ArraysBalanced == /\ IsRunning => arrays = Arrays
                  /\ pc = "done" => arrays = {}

(* The call is answered once, with the leftmost-longest match of the       *)
(* reference semantics, a refusal of an illegal call, or a reported        *)
(* failure that leaves matched = 0.                                        *)
ImplementsMatchSpec == Abs!Safety

(* Whatever cycles the program has, also cycles that consume nothing, the  *)
(* call comes to an end.                                                   *)
IsAnswered == Abs!Answered
=============================================================================
