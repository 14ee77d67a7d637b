----------------------------- MODULE FindAllSpec -----------------------------
(***************************************************************************)
(* What regex_find_all of include/cregex/regex.h promises: one answer, the *)
(* list of the leftmost-longest matches that do not overlap, or a failure  *)
(* that leaves an empty list.                                              *)
(*                                                                         *)
(* The regex and the text appear only as the matches they have: ends[i] is *)
(* the set of offsets at which a match that starts at i can end, the       *)
(* Ends(c, i) of VmCalls.                                                  *)
(***************************************************************************)
EXTENDS Integers, Sequences

CONSTANTS Lengths,           \* the lengths of the texts
          NULL               \* a null pointer, and a list not written yet

VARIABLES args, text_length, ends, answer

Offsets(length) == 0 .. length

\* Which of the pointers a call is given.
Args == [regex : BOOLEAN, text : BOOLEAN, result : BOOLEAN]

Given(a) == a.regex /\ a.text /\ a.result

RegexMatch == [start : Nat, end : Nat]

\* "regex VM failed during find-all" stands for whatever the VM reported.
FindAllErrors == {"compiled regex must not be null",
                  "input text must not be null",
                  "match-list pointer must not be null",
                  "regex VM failed during find-all",
                  "too many regex matches",
                  "regex match list is too large",
                  "failed to allocate regex match list"}

NoError == "none"

Pending == [success |-> NULL, matches |-> NULL, error |-> NoError]

\* What a start offset has matched without reading a character can depend
\* on ^ and $ only, so that the offsets between them all agree.
MatchEndsOf(length) ==
    {f \in [Offsets(length) -> SUBSET Offsets(length)] :
        /\ \A i \in Offsets(length) : \A e \in f[i] : i <= e
        /\ \A i \in Offsets(length) \ {0, length} :
              i \in f[i] => \A j \in Offsets(length) : j \in f[j]}
-----------------------------------------------------------------------------
(* The list that regex_find_all is to return.                              *)

\* Each match begins where the one before it has ended, or later.
InOrder(m) ==
    \A k \in DOMAIN m, l \in DOMAIN m :
        k < l => m[k].end <= m[l].start /\ m[k].start < m[l].start

\* Each match is the longest from its start.
AllLongest(m, f) ==
    \A k \in DOMAIN m : /\ m[k].end \in f[m[k].start]
                        /\ \A e \in f[m[k].start] : e <= m[k].end

\* A listed match begins at i or covers the character at i.
IsCovered(m, i) ==
    \E k \in DOMAIN m :
        m[k].start = i \/ (m[k].start < i /\ i < m[k].end)

\* The matches that begin below `limit` are listed, or overlap a listed one.
NoneSkipped(m, f, limit) ==
    \A i \in DOMAIN f : i < limit /\ f[i] # {} => IsCovered(m, i)

IsFindAll(m, f, length) == /\ m \in Seq(RegexMatch)
                           /\ \A k \in DOMAIN m : m[k].start \in DOMAIN f
                           /\ InOrder(m)
                           /\ AllLongest(m, f)
                           /\ NoneSkipped(m, f, length + 1)
-----------------------------------------------------------------------------
Init == /\ args \in Args
        /\ text_length \in Lengths
        /\ ends \in MatchEndsOf(text_length)
        /\ answer = Pending

\* A failure leaves the caller an empty list, if it was given one at all.
Failure(a) == /\ a.success = FALSE
              /\ a.error \in FindAllErrors
              /\ a.matches = IF args.result THEN <<>> ELSE NULL

Success(a) == /\ Given(args)
              /\ a.success = TRUE
              /\ a.error = NoError
              /\ IsFindAll(a.matches, ends, text_length)

Answer == /\ answer = Pending
          /\ Failure(answer') \/ Success(answer')
          /\ UNCHANGED <<args, text_length, ends>>

vars == <<args, text_length, ends, answer>>

Spec == Init /\ [][Answer]_vars
-----------------------------------------------------------------------------
(* How the list grows, for the two loops that build it: regex_find_all's   *)
(* and that of the command line.                                           *)

\* The list m holds what begins below offset s.
IsListedTo(m, f, s) ==
    /\ m \in Seq(RegexMatch)
    /\ \A k \in DOMAIN m : /\ m[k].start \in DOMAIN f
                           /\ m[k].end <= s /\ m[k].start < s
    /\ InOrder(m)
    /\ AllLongest(m, f)
    /\ NoneSkipped(m, f, s)

\* x is what a search from s is to find.
IsFirst(x, f, s) ==
    /\ x \in RegexMatch
    /\ x.start \in DOMAIN f /\ s <= x.start /\ x.start <= x.end
    /\ x.end \in f[x.start]
    /\ \A e \in f[x.start] : e <= x.end
    /\ \A i \in s .. x.start - 1 : f[i] = {}
=============================================================================
