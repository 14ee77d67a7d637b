-------------------------------- MODULE Regex --------------------------------
(***************************************************************************)
(* src/regex.c but for the loop of regex_find_all, which RegexFindAll      *)
(* models: a client compiles patterns to handles, matches texts with them  *)
(* and frees them, in any order the header allows, with a few variables    *)
(* the calls report to and which keep what an earlier call has left there. *)
(*                                                                         *)
(* The parser, the compiler and the VM are one step each: their own        *)
(* modules show that a failure of theirs releases what they allocated, and *)
(* that what they answer is what the pattern means.                        *)
(***************************************************************************)
EXTENDS Integers, Sequences

CONSTANTS
    Patterns,                \* the strings a client compiles
    Valid,                   \* those that are a pattern
    Texts,
    Meaning,                 \* of a pattern in a text: see MC_Regex
    Slots,                   \* the Regex pointers of the client
    Addresses,               \* of the blocks malloc returns
    Offered(_),              \* those it chooses from, of the free ones
    NULL

ASSUME RegexAssumption ==
    /\ Valid \subseteq Patterns
    /\ NULL \notin Patterns \cup Texts \cup Addresses
    /\ \A free \in SUBSET Addresses : Offered(free) \subseteq free

\* A match begins and ends somewhere; <<>> stands for none.
ASSUME MeaningAssumption ==
    Meaning \in [Valid \X Texts ->
                    [full : BOOLEAN, first : {<<>>} \cup (Nat \X Nat)]]

VARIABLES
    heap,                    \* the blocks that are allocated
    handle,                  \* the client's Regex pointers
    list,                    \* matches of the client's RegexMatchList
    matched, match, error,   \* the client's variables for results
    pc, call,                \* where the call is, and its arguments
    root, regex,             \* the variables of regex_compile
    frees,                   \* the calls of free still to be made
    returned,                \* the result of the call
    compiled                 \* what the client has compiled to each handle

client == <<handle, list, compiled>>
output == <<matched, match, error>>
locals == <<root, regex, frees>>
vars   == <<heap, client, output, pc, call, locals, returned>>

NO_MATCH == <<0, 0>>
NO_ERROR == "none"

Block(kind, pattern, states) ==
    [kind |-> kind, pattern |-> pattern, states |-> states]

Unused == Offered(Addresses \ DOMAIN heap)

\* malloc, which may return what was freed before.
Malloc(address, block) ==
    /\ address \in Unused
    /\ heap' = [a \in DOMAIN heap \cup {address} |->
                   IF a = address THEN block ELSE heap[a]]

NoCall == [op |-> "none", slot |-> NULL, text |-> NULL, pattern |-> NULL,
           matched |-> FALSE, match |-> FALSE, error |-> FALSE]

Init == /\ heap = <<>>
        /\ handle = [s \in Slots |-> NULL]
        /\ compiled = [s \in Slots |-> NULL]
        /\ list = NULL
        /\ matched = 0 /\ match = NO_MATCH /\ error = NO_ERROR
        /\ pc = "idle" /\ call = NoCall
        /\ root = NULL /\ regex = NULL /\ frees = <<>>
        /\ returned = NULL

\* A call with the arguments that are not null; it is gone when it returns.
Call(named) == [field \in DOMAIN NoCall |->
                   IF field \in DOMAIN named THEN named[field]
                   ELSE NoCall[field]]
-----------------------------------------------------------------------------
(* What a call c reports.                                                  *)

Report(c, value) == error' = IF c.error THEN value ELSE error

\* Mutant: keeps the error of the call before.
KeepError(c) == UNCHANGED error

regex_error_clear(c) == Report(c, NO_ERROR)

\* Mutant: the variables keep what they had.
KeepOutputs(c) == UNCHANGED <<matched, match>>

ClearOutputs(c) == /\ matched' = IF c.matched THEN 0 ELSE matched
                   /\ match' = IF c.match THEN NO_MATCH ELSE match

Return(result) == pc' = "idle" /\ call' = NoCall /\ returned' = result

Failed(c, what) == Return(FALSE) /\ Report(c, what)

\* The blocks are freed in this order before the call returns.
FailAndFree(blocks, what) == /\ Report(call, what)
                             /\ frees' = blocks
                             /\ pc' = "free"
                             /\ returned' = FALSE
-----------------------------------------------------------------------------
(* regex_compile                                                           *)

Compile ==
    \E s \in Slots, p \in Patterns \cup {NULL}, e \in BOOLEAN :
       LET c == Call([op |-> "compile", slot |-> s, pattern |-> p,
                      error |-> e])
       IN /\ pc = "idle" /\ handle[s] = NULL
          /\ call' = c
          /\ regex_error_clear(c)
          /\ pc' = IF p = NULL THEN "refuse" ELSE "parse"
          /\ UNCHANGED <<heap, client, matched, match, locals, returned>>

\* An argument that must not be null is.
Refuse == /\ pc = "refuse"
          /\ Failed(call, "argument")
          /\ UNCHANGED <<heap, client, matched, match, locals>>

Parse == /\ pc = "parse"
         /\ call.pattern \in Valid
         /\ \E a \in Addresses :
               Malloc(a, Block("ast", call.pattern, NULL)) /\ root' = a
         /\ pc' = "allocate"
         /\ UNCHANGED <<client, output, call, regex, frees, returned>>

\* The pattern is wrong, or memory is short.
ParseFails == /\ pc = "parse"
              /\ Failed(call, "parser")
              /\ UNCHANGED <<heap, client, matched, match, locals>>

\* nfa_program_init leaves a program without states.
AllocateRegex == /\ pc = "allocate"
                 /\ \E a \in Addresses :
                       Malloc(a, Block("regex", NULL, NULL)) /\ regex' = a
                 /\ pc' = "program"
                 /\ UNCHANGED <<client, output, call, root, frees, returned>>

AllocateRegexFails ==
    /\ pc = "allocate"
    /\ FailAndFree(<<root>>, "memory")
    /\ UNCHANGED <<heap, client, matched, match, call, root, regex>>

\* The tree is freed, the program is the client's.
GiveHandle(states) == frees' = <<root>>

CompileProgram ==
    /\ pc = "program"
    /\ \E a \in Unused :
          /\ heap' = [b \in DOMAIN heap \cup {a} |->
                         CASE b = a -> Block("states", heap[root].pattern, NULL)
                           [] b = regex -> Block("regex", NULL, a)
                           [] OTHER -> heap[b]]
          /\ GiveHandle(a)
    /\ handle' = [handle EXCEPT ![call.slot] = regex]
    /\ compiled' = [compiled EXCEPT ![call.slot] = call.pattern]
    /\ pc' = "free" /\ returned' = TRUE
    /\ UNCHANGED <<list, output, call, root, regex>>

\* Mutant: compiler_compile leaves the pointer to the states it has freed.
StatesLeft == CHOOSE a \in Addresses : a \notin DOMAIN heap

\* compiler_compile has freed the states and emptied the program, so that
\* nfa_program_free is left with nothing (compiler.c:1070, regex.c:186).
StatesAfterFailure == NULL

CompileFails ==
    /\ pc = "program"
    /\ FailAndFree(<<StatesAfterFailure, regex, root>>, "compiler")
    /\ UNCHANGED <<heap, client, matched, match, call, root, regex>>

\* free, which a null pointer does nothing to.
Free == /\ pc = "free" /\ frees # <<>>
        /\ heap' = [a \in DOMAIN heap \ {Head(frees)} |-> heap[a]]
        /\ frees' = Tail(frees)
        /\ UNCHANGED <<client, output, pc, call, root, regex, returned>>

\* The variables of the call are gone.
ReturnFreed == /\ pc = "free" /\ frees = <<>>
               /\ Return(returned)
               /\ root' = NULL /\ regex' = NULL
               /\ UNCHANGED <<heap, client, output, frees>>
-----------------------------------------------------------------------------
(* regex_full_match, regex_search and regex_find_all                       *)

\* An argument that must not be null is missing.  For find_all,
\* `match` stands for the pointer to the list.
IsIncomplete(c) == \/ handle[c.slot] = NULL \/ c.text = NULL
                   \/ c.op # "find_all" /\ ~c.matched
                   \/ c.op # "full" /\ ~c.match

\* The list is cleared, not freed, by a call that fills it: the client makes
\* that with an empty one.
Match ==
    \E op \in {"full", "search", "find_all"}, s \in Slots,
       t \in Texts \cup {NULL}, m, r, e \in BOOLEAN :
       LET c == Call([op |-> op, slot |-> s, text |-> t,
                      matched |-> m, match |-> r, error |-> e])
       IN /\ pc = "idle"
          /\ op = "find_all" => list = NULL /\ ~m
          /\ op = "full" => ~r
          /\ IF op = "find_all" THEN UNCHANGED <<matched, match>>
             ELSE ClearOutputs(c)
          /\ call' = c
          /\ regex_error_clear(c)
          /\ pc' = IF IsIncomplete(c) THEN "refuse" ELSE "vm"
          /\ UNCHANGED <<heap, client, locals, returned>>

\* What the program of the handle says of the text.
Program == heap[heap[handle[call.slot]].states].pattern
Found == Meaning[<<Program, call.text>>]

VmAnswers ==
    /\ pc = "vm"
    /\ Return(TRUE)
    /\ \/ /\ call.op = "full"
          /\ matched' = IF Found.full THEN 1 ELSE 0
          /\ UNCHANGED <<heap, list, match>>
       \/ /\ call.op = "search"
          /\ matched' = IF Found.first # <<>> THEN 1 ELSE 0
          /\ match' = IF Found.first # <<>> THEN Found.first ELSE match
          /\ UNCHANGED <<heap, list>>
       \/ /\ call.op = "find_all"
          /\ IF Found.first = <<>> THEN UNCHANGED <<heap, list>>
             ELSE \E a \in Addresses :
                     Malloc(a, Block("list", Program, NULL)) /\ list' = a
          /\ UNCHANGED <<matched, match>>
    /\ UNCHANGED <<handle, compiled, error, locals>>

\* Memory is short, and what was allocated for the call is freed.
VmFails == /\ pc = "vm"
           /\ Failed(call, "vm")
           /\ UNCHANGED <<heap, client, matched, match, locals>>
-----------------------------------------------------------------------------
(* regex_free and regex_match_list_free; the client forgets the pointer.   *)

RegexFree == /\ pc = "idle"
             /\ \E s \in Slots :
                   /\ frees' = IF handle[s] = NULL THEN <<>>
                               ELSE <<heap[handle[s]].states, handle[s]>>
                   /\ handle' = [handle EXCEPT ![s] = NULL]
                   /\ compiled' = [compiled EXCEPT ![s] = NULL]
             /\ pc' = "free" /\ returned' = NULL
             /\ UNCHANGED <<heap, list, output, call, root, regex>>

\* It clears the pointer, so that the list may be freed again.
MatchListFree == /\ pc = "idle"
                 /\ frees' = <<list>> /\ list' = NULL
                 /\ pc' = "free" /\ returned' = NULL
                 /\ UNCHANGED <<heap, handle, compiled, output, call, root,
                                regex>>

Next == \/ Compile \/ Refuse \/ Parse \/ ParseFails
        \/ AllocateRegex \/ AllocateRegexFails
        \/ CompileProgram \/ CompileFails \/ Free \/ ReturnFreed
        \/ Match \/ VmAnswers \/ VmFails
        \/ RegexFree \/ MatchListFree

Spec == Init /\ [][Next]_vars
-----------------------------------------------------------------------------
(* Properties.                                                             *)

Handles == {s \in Slots : handle[s] # NULL}

\* The variables have their types, and a pointer leads to a block of its own
\* type: a handle to a regex, that to the states its pattern has compiled to.
TypeOK ==
    /\ DOMAIN heap \subseteq Addresses
    /\ handle \in [Slots -> Addresses \cup {NULL}]
    /\ compiled \in [Slots -> Valid \cup {NULL}]
    /\ \A s \in Handles :
          /\ handle[s] \in DOMAIN heap /\ heap[handle[s]].kind = "regex"
          /\ LET states == heap[handle[s]].states
             IN /\ states \in DOMAIN heap
                /\ heap[states] = Block("states", compiled[s], NULL)
    /\ list \in Addresses \cup {NULL}
    /\ matched \in {0, 1} /\ match \in Nat \X Nat
    /\ pc \in {"idle", "refuse", "parse", "allocate", "program", "free", "vm"}
    /\ root \in Addresses \cup {NULL} /\ regex \in Addresses \cup {NULL}
    /\ frees \in Seq(Addresses \cup {NULL})
    /\ returned \in BOOLEAN \cup {NULL}

\* Who is to free a block.
Owners ==
    {o \in {<<"regex", s, handle[s]>> : s \in Slots}
           \cup {<<"states", s, heap[handle[s]].states>> : s \in Handles}
           \cup {<<"list", 1, list>>}
           \cup {<<"free", i, frees[i]>> : i \in DOMAIN frees}
           \cup {<<"root", 1, root>> : i \in {pc} \cap {"allocate", "program"}}
           \cup {<<"new", 1, regex>> : i \in {pc} \cap {"program"}} :
        o[3] # NULL}

\* Every block is to be freed once: nothing leaks and nothing is freed twice,
\* in whatever order the client makes its calls and wherever one of them
\* fails, also after a failed compilation, where the program is freed by
\* compiler_compile and by regex_compile (regex.c:155-190).
BlocksOwnedOnce ==
    /\ TypeOK
    /\ {o[3] : o \in Owners} = DOMAIN heap
    /\ \A o \in Owners, p \in Owners : o[3] = p[3] => o = p

\* What a call c that has just returned leaves in the variables it was given
\* is its own report, not that of a call before: an error if and only if it
\* failed, and then no match.
IsReportOf(c) ==
    /\ c.error => (error = NO_ERROR <=> returned)
    /\ ~returned => /\ c.matched => matched = 0
                    /\ c.match /\ c.op = "search" => match = NO_MATCH

Returns == call.op # "none" /\ call' = NoCall

\* No call leaves the caller with what an earlier one has reported, whichever
\* of its arguments are null (regex.c:126, 207-232, 276-325).
ReplyIsThisCalls == [][Returns => \A c \in {call} : IsReportOf(c)']_vars

\* What a match of the pattern p in a text answers.
IsAnswer(c, p) ==
    LET found == Meaning[<<p, c.text>>]
    IN CASE c.op = "full" -> matched = IF found.full THEN 1 ELSE 0
         [] c.op = "search" -> IF found.first = <<>>
                               THEN matched = 0 /\ match = NO_MATCH
                               ELSE matched = 1 /\ match = found.first
         [] c.op = "find_all" -> list = NULL <=> found.first = <<>>

\* A call that succeeds answers for the pattern the client has compiled to
\* the handle, whatever was compiled, matched and freed since.
AnswersAreRight ==
    [][Returns /\ call.op # "compile" /\ returned' =>
          \A c \in {call} : IsAnswer(c, compiled[c.slot])']_vars

=============================================================================
