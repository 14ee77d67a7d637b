------------------------------ MODULE MatchSpec ------------------------------
(***************************************************************************)
(* What the matcher promises (include/cregex/vm.h, "Finds the leftmost-    *)
(* longest match in text"), with no algorithm: a call is answered once,    *)
(* as VmCalls says.                                                        *)
(***************************************************************************)
EXTENDS VmCalls

VARIABLES call, answer

Pending == [error |-> "pending", matched |-> NULL, match |-> NULL]

-----------------------------------------------------------------------------
Init == call \in Calls /\ answer = Pending

Answer == /\ answer = Pending
          /\ answer' # Pending
          /\ \/ Refusal(call, answer')
             \/ OutOfMemory(call, answer')
             \/ IsLegal(call) /\ Decision(call, answer')
          /\ UNCHANGED call

vars == <<call, answer>>

Safety == Init /\ [][Answer]_vars

\* Every call is answered.
Answered == <>(answer # Pending)

Spec == Safety /\ Answered
=============================================================================
