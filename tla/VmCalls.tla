------------------------------- MODULE VmCalls -------------------------------
(***************************************************************************)
(* What a caller hands to nfa_vm_full_match and nfa_vm_search_from of      *)
(* include/cregex/vm.h, and the messages it can get back.  A call may be   *)
(* illegal: null pointers, a search_start past the text, a program that    *)
(* cannot be run.                                                          *)
(***************************************************************************)
EXTENDS NfaProgram

CONSTANTS Programs,       \* the programs a call may name
          Texts,          \* the texts a call may name
          SearchStarts,   \* the search_start offsets a call may name
          NULL            \* a null pointer, and an output not written yet

ASSUME CallsAssumption ==
    /\ \A p \in Programs : IsProgram(p)
    /\ Texts \subseteq Seq(Chars)
    /\ SearchStarts \subseteq Nat
    /\ NULL \notin Programs
    /\ NULL \notin Texts
    /\ NULL \notin BOOLEAN

\* require_text_end tells nfa_vm_full_match from nfa_vm_search_from; the
\* former takes no search_start and has no match to fill in.  `outputs` is
\* false when one of the result pointers is null.
Calls == {c \in [require_text_end : BOOLEAN,
                 program          : Programs \cup {NULL},
                 text             : Texts \cup {NULL},
                 search_start     : SearchStarts \cup {0},
                 outputs          : BOOLEAN] :
             c.require_text_end => c.search_start = 0}

NfaMatch == [start : Nat, end : Nat]

\* What nfa_vm_search_from leaves in *match when it finds nothing.
EmptyMatch == [start |-> 0, end |-> 0]

NoError == "none"

VmErrors == {"null result pointer", "null input text",
             "search start exceeds input length", "null program",
             "invalid NFA program", "failed to allocate VM state lists",
             "NFA contains an invalid transition"}

\* vm_initialize can run p.
IsRunnable(p) == p.count > 0 /\ p.start \in States(p)

IsLegal(c) == /\ c.outputs
              /\ c.program # NULL
              /\ c.text # NULL
              /\ c.search_start <= Len(c.text)
              /\ IsRunnable(c.program)
-----------------------------------------------------------------------------
(* The answers a call may have, by the reference semantics of its program. *)

\* The starts to try, and the ends that count as a match from one of them.
Starts(c) == IF c.require_text_end THEN {0} ELSE c.search_start .. Len(c.text)

Ends(c, from) ==
    IF c.require_text_end
    THEN MatchEnds(c.program, c.text, from) \cap {Len(c.text)}
    ELSE MatchEnds(c.program, c.text, from)

\* A run from here does not end without a result.
Decides(c, from) == \/ IsBroken(c.program, c.text, from)
                    \/ Ends(c, from) # {}

IsFirst(c, from) == /\ from \in Starts(c)
                    /\ Decides(c, from)
                    /\ \A s \in Starts(c) : Decides(c, s) => from <= s

\* The value of *match when there is nothing to report.
NothingIn(c) == IF c.require_text_end THEN NULL ELSE EmptyMatch

Failed(c, error) ==
    [error |-> error, matched |-> FALSE, match |-> NothingIn(c)]

NotFound(c) == Failed(c, NoError)

Found(c, from, to) ==
    [error   |-> NoError,
     matched |-> TRUE,
     match   |-> IF c.require_text_end THEN NULL
                 ELSE [start |-> from, end |-> to]]

IsLongest(c, from, to) == /\ to \in Ends(c, from)
                          /\ \A q \in Ends(c, from) : q <= to

\* The answer to a legal call that does not run out of memory.
Decision(c, a) ==
    \/ /\ \A s \in Starts(c) : ~Decides(c, s)
       /\ a = NotFound(c)
    \/ \E from \in Starts(c) :
          /\ IsFirst(c, from)
          /\ \/ /\ IsBroken(c.program, c.text, from)
                /\ a = Failed(c, "NFA contains an invalid transition")
             \/ /\ ~IsBroken(c.program, c.text, from)
                /\ \E to \in Ends(c, from) :
                      IsLongest(c, from, to) /\ a = Found(c, from, to)

\* An illegal call is refused, and no output says that something matched.
Refusal(c, a) == /\ ~IsLegal(c)
                 /\ a.error \in VmErrors
                 /\ a.matched # TRUE

OutOfMemory(c, a) == /\ IsLegal(c)
                     /\ a = Failed(c, "failed to allocate VM state lists")
=============================================================================
