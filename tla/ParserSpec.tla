------------------------------ MODULE ParserSpec ------------------------------
(***************************************************************************)
(* What parser_parse_tree and parser_parse of include/cregex/parser.h      *)
(* promise: a pattern is accepted, anything else is refused at the first   *)
(* token that is wrong and with the reason, and either may run out of      *)
(* memory instead.                                                         *)
(***************************************************************************)
EXTENDS PatternSyntax

CONSTANTS Inputs,            \* the token sequences
          MemoryErrors       \* the messages of allocations that fail

VARIABLES tokens, answer

NoError == "none"

Pending == [success |-> "pending", error |-> NoError, position |-> 0]

Accept == /\ IsPattern(tokens)
          /\ answer' = [success |-> "yes", error |-> NoError, position |-> 0]

\* Positions count tokens here and characters in the code.
Refuse == /\ ~IsPattern(tokens)
          /\ answer' = [success  |-> "no",
                        error    |-> Complaint(tokens),
                        position |-> FirstWrong(tokens)]

RunOutOfMemory == \E error \in MemoryErrors, position \in 0 .. Len(tokens) :
    answer' = [success |-> "no", error |-> error, position |-> position]

Init == tokens \in Inputs /\ answer = Pending

Answer == /\ answer = Pending
          /\ Accept \/ Refuse \/ RunOutOfMemory
          /\ UNCHANGED tokens

vars == <<tokens, answer>>

Spec == Init /\ [][Answer]_vars
=============================================================================
