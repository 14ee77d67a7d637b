---------------------------- MODULE CompilerProofs ----------------------------
(***************************************************************************)
(* For trees of any size and programs of any capacity: the compiler's      *)
(* state keeps its type, its patch lists are owned once and are exact, no  *)
(* transition leaves the program, and the finished program has the matches *)
(* that the tree stands for.                                               *)
(***************************************************************************)
EXTENDS CompilerMeaning, SequenceTheorems, FiniteSetTheorems,
        WellFoundedInduction, TLAPS

Indices(sts) == 0 .. Len(sts) - 1

\* Every transition of a program leads to a state of it, or nowhere yet.
LeadsInside(sts) ==
    \A i \in DOMAIN sts : /\ sts[i].out1 \in Indices(sts) \cup {NFA_INVALID_STATE}
                          /\ sts[i].out2 \in Indices(sts) \cup {NFA_INVALID_STATE}

\* The transitions that lead nowhere yet.
Open(sts) ==
    {r \in PatchReference :
        /\ r[1] \in Indices(sts)
        /\ \/ /\ r[2] = 1
              /\ sts[r[1] + 1].type # "MATCH"
              /\ sts[r[1] + 1].out1 = NFA_INVALID_STATE
           \/ /\ r[2] = 2
              /\ sts[r[1] + 1].type = "SPLIT"
              /\ sts[r[1] + 1].out2 = NFA_INVALID_STATE}

\* The blocks refs are those of the frames' lists and of the list `out`, each
\* of one of them only.
Owns(refs, frs, out) ==
    /\ out \subseteq refs
    /\ \A i \in DOMAIN frs : frs[i].held.out \subseteq refs
    /\ \A r \in refs : r \in out \/ \E i \in DOMAIN frs : r \in frs[i].held.out
    /\ \A i \in DOMAIN frs : frs[i].held.out \cap out = {}
    /\ \A i \in DOMAIN frs, j \in DOMAIN frs :
          i # j => frs[i].held.out \cap frs[j].held.out = {}

\* A frame f belongs to a node of its kind, or of the REPEAT that it
\* compiles a part of; what it holds is nothing until its first child has
\* returned, and then a fragment of a program with `count` states.
FrameOK(f, count) ==
    /\ f.node \in DOMAIN ast
    /\ \/ ast[f.node].type = f.fn
       \/ ast[f.node].type = "REPEAT" /\ f.fn \in UnaryType
    /\ f.fn = "REPEAT" => HasBounds(ast[f.node])
    /\ f.fn \in UnaryType => f.index = 0
    /\ f.fn \in BinaryType => f.index \in {0, 1}
    /\ IF f.index = 0 THEN f.held = NoFragment
       ELSE f.held.start \in 0 .. count - 1

FramesOK == \A i \in DOMAIN frames : FrameOK(frames[i], Len(states))

\* What each mode says of the rest.
ModeOK ==
    /\ mode \in {"enter", "done"} => frames = <<>>
    /\ mode = "repeat" => frames # <<>> /\ Top.fn = "REPEAT"
    /\ mode = "return" => fragment.start \in Indices(states)
    /\ mode = "fail" => error # NoError
    /\ mode \notin {"fail", "done"} => error = NoError
    /\ HasCompiled => start \in Indices(states)

ReferencesOK ==
    /\ Owns(references, frames, IF mode = "return" THEN fragment.out ELSE {})
    /\ \A r \in references : r[1] \in Indices(states)

IInv == /\ TypeOK
        /\ FramesOK
        /\ ModeOK
        /\ ReferencesOK
        /\ LeadsInside(states)
        /\ ListsAreExact
-----------------------------------------------------------------------------
(* Sequences of frames.                                                    *)

\* Front and Last of a sequence that is not empty.
LEMMA FrontLast ==
    ASSUME NEW S, NEW s \in Seq(S), s # <<>>
    PROVE  /\ Len(s) \in Nat \ {0} /\ DOMAIN s = 1 .. Len(s)
           /\ Front(s) \in Seq(S) /\ Len(Front(s)) = Len(s) - 1
           /\ DOMAIN Front(s) = 1 .. Len(s) - 1
           /\ \A i \in 1 .. Len(s) - 1 : Front(s)[i] = s[i]
           /\ Last(s) \in S /\ Last(s) = s[Len(s)]
<1>1. Len(s) \in Nat \ {0} /\ DOMAIN s = 1 .. Len(s)
      /\ \A i \in 1 .. Len(s) : s[i] \in S
  OBVIOUS
<1>2. /\ Front(s) \in Seq(S) /\ Len(Front(s)) = Len(s) - 1
      /\ \A i \in 1 .. Len(s) - 1 : Front(s)[i] = s[i]
  BY <1>1, SubSeqProperties DEF Front
<1> QED
  BY <1>1, <1>2 DEF Last

\* A sequence with one more element.
LEMMA Appending ==
    ASSUME NEW S, NEW s \in Seq(S), NEW e \in S
    PROVE  /\ Append(s, e) \in Seq(S) /\ Len(Append(s, e)) = Len(s) + 1
           /\ DOMAIN Append(s, e) = 1 .. Len(s) + 1
           /\ DOMAIN s = 1 .. Len(s) /\ Len(s) \in Nat
           /\ \A i \in 1 .. Len(s) : Append(s, e)[i] = s[i]
           /\ Append(s, e)[Len(s) + 1] = e
           /\ Append(s, e) # <<>> /\ Last(Append(s, e)) = e
BY DEF Last
-----------------------------------------------------------------------------
(* Who owns which block.                                                   *)

\* A list on top of the stack is one more owner.
LEMMA OwnsPush ==
    ASSUME NEW frs \in Seq(Frame), NEW f \in Frame, NEW refs, NEW out,
           Owns(refs, frs, out), f.held.out = out
    PROVE  Owns(refs, Append(frs, f), {})
<1> DEFINE pushed == Append(frs, f)
<1>1. /\ DOMAIN pushed = 1 .. Len(frs) + 1
      /\ DOMAIN frs = 1 .. Len(frs) /\ Len(frs) \in Nat
      /\ \A i \in 1 .. Len(frs) : pushed[i] = frs[i]
      /\ pushed[Len(frs) + 1] = f
  BY Appending
<1> HIDE DEF pushed
<1>2. \A i \in DOMAIN pushed :
         \/ i \in DOMAIN frs /\ pushed[i] = frs[i]
         \/ i = Len(frs) + 1 /\ i \notin DOMAIN frs /\ pushed[i].held.out = out
  BY <1>1
<1>3. Len(frs) + 1 \in DOMAIN pushed /\ DOMAIN frs \subseteq DOMAIN pushed
      /\ pushed[Len(frs) + 1].held.out = out
  BY <1>1
<1>4. \A r \in refs : \E i \in DOMAIN pushed : r \in pushed[i].held.out
  BY <1>1, <1>3 DEF Owns
<1> QED
  BY <1>2, <1>4 DEF Owns, pushed

\* What the top of the stack owned is no longer owned.
LEMMA OwnsPop ==
    ASSUME NEW frs \in Seq(Frame), frs # <<>>, NEW refs, NEW out,
           Owns(refs, frs, out)
    PROVE  /\ Owns(refs, Front(frs), out \cup Last(frs).held.out)
           /\ out \cap Last(frs).held.out = {}
<1> DEFINE n == Len(frs)
           popped == Front(frs)
<1>1. /\ DOMAIN frs = 1 .. n /\ DOMAIN popped = 1 .. n - 1
      /\ n \in Nat \ {0} /\ Last(frs) = frs[n]
      /\ \A i \in 1 .. n - 1 : popped[i] = frs[i]
  BY FrontLast
<1> HIDE DEF n, popped
<1>2. /\ n \in DOMAIN frs
      /\ \A i \in DOMAIN frs : i = n \/ (i \in DOMAIN popped /\ i # n)
      /\ \A i \in DOMAIN popped : i \in DOMAIN frs /\ i # n /\ popped[i] = frs[i]
  BY <1>1
<1> QED
  BY <1>1, <1>2 DEF Owns, popped

\* A list that is released is no longer owned.
LEMMA OwnsRelease ==
    ASSUME NEW frs, NEW refs, NEW a, NEW b, a \cap b = {},
           Owns(refs, frs, a \cup b)
    PROVE  Owns(refs \ a, frs, b)
BY DEF Owns

\* The list that is handed over is owned with the others.
LEMMA OwnsAdd ==
    ASSUME NEW frs, NEW refs, NEW out, NEW r, r \notin refs,
           Owns(refs, frs, out)
    PROVE  Owns(refs \cup {r}, frs, out \cup {r})
BY DEF Owns
-----------------------------------------------------------------------------
(* The program.                                                            *)

\* patch_list sets the open links of a list, and no others.
LEMMA Patching ==
    ASSUME NEW sts \in Seq(NfaState), NEW list, NEW destination \in Nat
    PROVE  LET patched == Patched(sts, list, destination)
           IN  /\ patched \in Seq(NfaState) /\ Len(patched) = Len(sts)
               /\ DOMAIN patched = 1 .. Len(sts)
               /\ \A i \in 1 .. Len(sts) :
                     /\ patched[i].type = sts[i].type
                     /\ patched[i].out1 = IF <<i - 1, 1>> \in list
                                          THEN destination ELSE sts[i].out1
                     /\ patched[i].out2 = IF <<i - 1, 2>> \in list
                                          THEN destination ELSE sts[i].out2
<1>1. Len(sts) \in Nat /\ DOMAIN sts = 1 .. Len(sts)
      /\ \A i \in 1 .. Len(sts) : sts[i] \in NfaState
  OBVIOUS
<1> DEFINE patched == Patched(sts, list, destination)
<1>2. patched = [i \in 1 .. Len(sts) |-> patched[i]]
  BY <1>1 DEF Patched
<1>3. DOMAIN patched = 1 .. Len(sts)
  BY <1>1 DEF Patched
<1>4. \A i \in 1 .. Len(sts) :
         /\ patched[i] \in NfaState
         /\ patched[i].type = sts[i].type
         /\ patched[i].out1 = IF <<i - 1, 1>> \in list
                              THEN destination ELSE sts[i].out1
         /\ patched[i].out2 = IF <<i - 1, 2>> \in list
                              THEN destination ELSE sts[i].out2
  <2> TAKE i \in 1 .. Len(sts)
  <2> DEFINE a == IF <<i - 1, 1>> \in list THEN destination ELSE sts[i].out1
             b == IF <<i - 1, 2>> \in list THEN destination ELSE sts[i].out2
  <2>1. patched[i] = [sts[i] EXCEPT !.out1 = a, !.out2 = b]
    BY <1>1 DEF Patched
  <2>2. /\ sts[i] \in NfaState
        /\ a \in Nat \cup {NFA_INVALID_STATE}
        /\ b \in Nat \cup {NFA_INVALID_STATE}
    BY <1>1 DEF NfaState
  <2> HIDE DEF a, b, patched
  <2>3. /\ patched[i] \in NfaState /\ patched[i].type = sts[i].type
        /\ patched[i].out1 = a /\ patched[i].out2 = b
    BY <2>1, <2>2 DEF NfaState
  <2> QED
    BY <2>3 DEF a, b
<1>5. patched \in Seq(NfaState) /\ Len(patched) = Len(sts)
  <2> HIDE DEF patched
  <2>1. patched \in [1 .. Len(sts) -> NfaState]
    BY <1>2, <1>4
  <2>2. patched \in Seq(NfaState)
    BY <1>1, <2>1, SeqDef
  <2> QED
    BY <1>1, <1>3, <2>2
<1> HIDE DEF patched
<1> QED
  BY <1>3, <1>4, <1>5 DEF patched

\* nfa_program_add_state adds one state at the end.
LEMMA AppendingState ==
    ASSUME TypeOK, NEW type \in NfaStateType, NEW chars \in SUBSET Chars
    PROVE  LET appended == Appended(type, chars)
           IN  /\ appended \in Seq(NfaState)
               /\ Len(appended) = Len(states) + 1
               /\ DOMAIN appended = 1 .. Len(states) + 1
               /\ Len(states) \in Nat /\ DOMAIN states = 1 .. Len(states)
               /\ \A i \in 1 .. Len(states) : appended[i] = states[i]
               /\ appended[Len(states) + 1].type = type
               /\ appended[Len(states) + 1].out1 = NFA_INVALID_STATE
               /\ appended[Len(states) + 1].out2 = NFA_INVALID_STATE
<1>1. NewState(type, chars) \in NfaState
  BY DEF NewState, NfaState
<1> QED
  BY <1>1, Appending DEF Appended, NewState, TypeOK

\* A program with one more state has its type.
LEMMA GrownFits ==
    ASSUME TypeOK
    PROVE  Grown \in Nat /\ Len(states) + 1 <= Grown
BY CompilerAssumption DEF TypeOK, Grown

\* Patching closes what is on the list, and nothing else.
LEMMA PatchedInside ==
    ASSUME NEW sts \in Seq(NfaState), NEW list,
           NEW destination \in Indices(sts), LeadsInside(sts)
    PROVE  LeadsInside(Patched(sts, list, destination))
<1>1. destination \in Nat /\ DOMAIN sts = 1 .. Len(sts)
  BY DEF Indices
<1> DEFINE patched == Patched(sts, list, destination)
<1>2. /\ Len(patched) = Len(sts) /\ DOMAIN patched = 1 .. Len(sts)
      /\ \A i \in 1 .. Len(sts) :
            /\ patched[i].out1 = IF <<i - 1, 1>> \in list
                                 THEN destination ELSE sts[i].out1
            /\ patched[i].out2 = IF <<i - 1, 2>> \in list
                                 THEN destination ELSE sts[i].out2
  BY <1>1, Patching
<1> HIDE DEF patched
<1>3. Indices(patched) = Indices(sts)
  BY <1>2 DEF Indices
<1> QED
  BY <1>1, <1>2, <1>3 DEF LeadsInside, patched

\* What a patch leaves open is what was open and is not in the list.
LEMMA PatchedOpen ==
    ASSUME NEW sts \in Seq(NfaState), NEW list \in SUBSET PatchReference,
           NEW destination \in Nat
    PROVE  Open(Patched(sts, list, destination)) = Open(sts) \ list
<1> DEFINE patched == Patched(sts, list, destination)
<1>1. /\ Len(patched) = Len(sts) /\ Len(sts) \in Nat
      /\ \A i \in 1 .. Len(sts) :
            /\ patched[i].type = sts[i].type
            /\ patched[i].out1 = IF <<i - 1, 1>> \in list
                                 THEN destination ELSE sts[i].out1
            /\ patched[i].out2 = IF <<i - 1, 2>> \in list
                                 THEN destination ELSE sts[i].out2
  BY Patching
<1> HIDE DEF patched
<1>2. destination # NFA_INVALID_STATE
  BY DEF NFA_INVALID_STATE
<1>3. ASSUME NEW r \in PatchReference, r[1] \in Indices(sts)
      PROVE  r \in Open(patched) <=> r \in Open(sts) /\ r \notin list
  <2>1. r[1] + 1 \in 1 .. Len(sts) /\ (r[1] + 1) - 1 = r[1]
        /\ r = <<r[1], r[2]>> /\ r[2] \in {1, 2}
    BY <1>1, <1>3 DEF Indices, PatchReference
  <2>2. r[1] \in Indices(patched)
    BY <1>1, <1>3 DEF Indices
  <2>3. /\ patched[r[1] + 1].type = sts[r[1] + 1].type
        /\ patched[r[1] + 1].out1 = IF <<r[1], 1>> \in list
                                    THEN destination ELSE sts[r[1] + 1].out1
        /\ patched[r[1] + 1].out2 = IF <<r[1], 2>> \in list
                                    THEN destination ELSE sts[r[1] + 1].out2
    BY <1>1, <2>1
  <2>6. /\ r \in PatchReference /\ r[1] \in Indices(sts)
        /\ destination # NFA_INVALID_STATE
    BY <1>1, <1>2, <1>3
  <2>4. CASE r[2] = 1
    BY ONLY <2>1, <2>2, <2>3, <2>4, <2>6, SMTT(30) DEF Open
  <2>5. CASE r[2] = 2
    BY ONLY <2>1, <2>2, <2>3, <2>5, <2>6, SMTT(30) DEF Open
  <2> QED
    BY <2>1, <2>4, <2>5
<1>4. \A r \in Open(patched) : r \in PatchReference /\ r[1] \in Indices(sts)
  BY <1>1 DEF Open, Indices
<1>5. \A r \in Open(sts) : r \in PatchReference /\ r[1] \in Indices(sts)
  BY DEF Open
<1> QED
  BY <1>3, <1>4, <1>5 DEF patched

\* A new state leads nowhere.
LEMMA AppendedInside ==
    ASSUME TypeOK, NEW type \in NfaStateType, NEW chars \in SUBSET Chars,
           LeadsInside(states)
    PROVE  LeadsInside(Appended(type, chars))
BY AppendingState DEF LeadsInside, Indices

\* What a new state leaves open is what was open and its own links.
LEMMA AppendedOpen ==
    ASSUME TypeOK, NEW type \in NfaStateType, NEW chars \in SUBSET Chars
    PROVE  Open(Appended(type, chars)) =
              Open(states) \cup
              (IF type = "MATCH" THEN {} ELSE {<<Index, 1>>}) \cup
              (IF type = "SPLIT" THEN {<<Index, 2>>} ELSE {})
<1> DEFINE appended == Appended(type, chars)
           added == (IF type = "MATCH" THEN {} ELSE {<<Index, 1>>}) \cup
                    (IF type = "SPLIT" THEN {<<Index, 2>>} ELSE {})
<1>1. /\ Len(appended) = Len(states) + 1 /\ Len(states) \in Nat
      /\ \A i \in 1 .. Len(states) : appended[i] = states[i]
      /\ appended[Len(states) + 1].type = type
      /\ appended[Len(states) + 1].out1 = NFA_INVALID_STATE
      /\ appended[Len(states) + 1].out2 = NFA_INVALID_STATE
  BY AppendingState
<1> HIDE DEF appended
<1>2. \A r \in PatchReference : r = <<r[1], r[2]>> /\ r[1] \in Nat /\ r[2] \in {1, 2}
  BY DEF PatchReference
<1>3. ASSUME NEW r \in PatchReference, r[1] \in Indices(states)
      PROVE  r \in Open(appended) <=> r \in Open(states)
  <2>1. r[1] + 1 \in 1 .. Len(states) /\ r[1] \in Indices(appended)
    BY <1>1, <1>3 DEF Indices
  <2> QED
    BY <1>1, <1>3, <2>1 DEF Open
<1>4. ASSUME NEW r \in PatchReference, r[1] = Index
      PROVE  r \in Open(appended) <=> r \in added
  <2>1. r[1] + 1 = Len(states) + 1 /\ r[1] \in Indices(appended)
    BY <1>1, <1>4 DEF Indices, Index
  <2>2. /\ r[2] = 1 => r = <<Index, 1>> /\ r # <<Index, 2>>
        /\ r[2] = 2 => r = <<Index, 2>> /\ r # <<Index, 1>>
    BY <1>2, <1>4
  <2> QED
    BY <1>1, <1>2, <2>1, <2>2 DEF Open
<1>5. \A r \in Open(appended) : /\ r \in PatchReference
                                /\ r[1] \in Indices(states) \/ r[1] = Index
  BY <1>1 DEF Open, Indices, Index
<1>6. \A r \in Open(states) : /\ r \in PatchReference
                              /\ r[1] \in Indices(states) /\ r[1] # Index
  BY <1>1 DEF Open, Indices, Index
<1>7. \A r \in added : r \in PatchReference /\ r[1] = Index
  BY <1>1 DEF PatchReference, Index
<1>8. Index \notin Indices(states)
  BY <1>1 DEF Index, Indices
<1> QED
  BY <1>3, <1>4, <1>5, <1>6, <1>7, <1>8 DEF appended
-----------------------------------------------------------------------------
(* Nodes and frames.                                                       *)

\* The fields of a node, whose children come before it.
LEMMA NodeFacts ==
    ASSUME TypeOK, NEW n \in DOMAIN ast
    PROVE  /\ n \in 1 .. Len(ast) /\ Len(ast) \in Nat
           /\ ast[n].type \in AstType /\ ast[n].chars \in SUBSET Chars
           /\ ast[n].minimum \in Nat
           /\ ast[n].maximum \in Nat \cup {UNBOUNDED}
           /\ ast[n].type \in BinaryType \cup UnaryType \cup {"REPEAT"} =>
                 ast[n].left \in 1 .. n - 1
           /\ ast[n].type \in BinaryType => ast[n].right \in 1 .. n - 1
<1>1. IsAst(ast)
  BY CompilerAssumption DEF TypeOK
<1>2. ast \in Seq(AstNode) /\ Children(ast[n]) \subseteq 1 .. n - 1
  BY <1>1 DEF IsAst
<1>3. ast[n] \in AstNode /\ n \in 1 .. Len(ast) /\ Len(ast) \in Nat
  BY <1>2
<1> QED
  BY <1>2, <1>3
  DEF AstNode, Children, LeafType, BinaryType, UnaryType

\* A frame stays good when the program grows.
LEMMA FrameKept ==
    ASSUME NEW f, NEW count \in Nat, NEW larger \in Nat, count <= larger,
           FrameOK(f, count)
    PROVE  FrameOK(f, larger)
BY DEF FrameOK

\* A call that returns leaves the others good.
LEMMA PopKeepsFrames ==
    ASSUME TypeOK, FramesOK, frames # <<>>,
           NEW count \in Nat, Len(states) <= count
    PROVE  /\ Front(frames) \in Seq(Frame)
           /\ \A i \in DOMAIN Front(frames) : FrameOK(Front(frames)[i], count)
           /\ Top \in Frame /\ FrameOK(Top, Len(states))
<1>1. /\ Len(frames) \in Nat \ {0} /\ DOMAIN frames = 1 .. Len(frames)
      /\ Front(frames) \in Seq(Frame)
      /\ DOMAIN Front(frames) = 1 .. Len(frames) - 1
      /\ \A i \in 1 .. Len(frames) - 1 : Front(frames)[i] = frames[i]
      /\ Top \in Frame /\ Top = frames[Len(frames)]
  BY FrontLast DEF TypeOK, Top
<1>2. Len(states) \in Nat
  BY DEF TypeOK
<1> QED
  BY <1>1, <1>2, FrameKept DEF FramesOK

\* A call that is good on top leaves the others good.
LEMMA PushKeepsFrames ==
    ASSUME NEW frs \in Seq(Frame), NEW f \in Frame, NEW count,
           \A i \in DOMAIN frs : FrameOK(frs[i], count), FrameOK(f, count)
    PROVE  /\ Append(frs, f) \in Seq(Frame)
           /\ \A i \in DOMAIN Append(frs, f) : FrameOK(Append(frs, f)[i], count)
<1>1. /\ Append(frs, f) \in Seq(Frame) /\ Len(frs) \in Nat
      /\ DOMAIN Append(frs, f) = 1 .. Len(frs) + 1
      /\ DOMAIN frs = 1 .. Len(frs)
      /\ \A i \in 1 .. Len(frs) : Append(frs, f)[i] = frs[i]
      /\ Append(frs, f)[Len(frs) + 1] = f
  BY Appending
<1>2. \A i \in 1 .. Len(frs) + 1 : i \in 1 .. Len(frs) \/ i = Len(frs) + 1
  BY <1>1
<1> QED
  BY <1>1, <1>2

\* ListsAreExact speaks of the open transitions.
LEMMA OpenIsOpenOutputs ==
    ASSUME NEW sts \in Seq(NfaState)
    PROVE  Open(sts) =
              {<<s, 1>> : s \in {s \in 0 .. Len(sts) - 1 :
                                    /\ sts[s + 1].type # "MATCH"
                                    /\ sts[s + 1].out1 = NFA_INVALID_STATE}} \cup
              {<<s, 2>> : s \in {s \in 0 .. Len(sts) - 1 :
                                    /\ sts[s + 1].type = "SPLIT"
                                    /\ sts[s + 1].out2 = NFA_INVALID_STATE}}
<1>1. Len(sts) \in Nat
  OBVIOUS
<1>2. \A r \in PatchReference : r = <<r[1], r[2]>> /\ r[2] \in {1, 2}
  BY DEF PatchReference
<1>3. \A s \in Indices(sts) :
         <<s, 1>> \in PatchReference /\ <<s, 2>> \in PatchReference
  BY <1>1 DEF PatchReference, Indices
<1>4. Open(sts) =
         {<<s, 1>> : s \in {s \in Indices(sts) :
                               /\ sts[s + 1].type # "MATCH"
                               /\ sts[s + 1].out1 = NFA_INVALID_STATE}} \cup
         {<<s, 2>> : s \in {s \in Indices(sts) :
                               /\ sts[s + 1].type = "SPLIT"
                               /\ sts[s + 1].out2 = NFA_INVALID_STATE}}
  BY ONLY <1>2, <1>3, ZenonT(60) DEF Open
<1> QED
  BY ONLY <1>4 DEF Indices

\* The frames' lists are all there is while no fragment is returned.
LEMMA InvFacts ==
    ASSUME IInv
    PROVE  /\ TypeOK /\ FramesOK
           /\ Len(states) \in Nat /\ Index = Len(states)
           /\ states \in Seq(NfaState) /\ frames \in Seq(Frame)
           /\ fragment \in Fragment /\ references \in SUBSET PatchReference
           /\ fragment.out \in SUBSET PatchReference
           /\ LeadsInside(states)
           /\ \A r \in references : r[1] \in Indices(states)
           /\ mode # "return" => Owns(references, frames, {})
           /\ mode = "return" => /\ Owns(references, frames, fragment.out)
                                 /\ fragment.start \in Indices(states)
                                 /\ fragment.start \in Nat
           /\ mode \notin {"fail", "done"} => references = Open(states)
<1>1. OpenOutputs = Open(states)
  BY OpenIsOpenOutputs DEF IInv, TypeOK, OpenOutputs
<1> QED
  BY <1>1 DEF IInv, TypeOK, ReferencesOK, ModeOK, ListsAreExact, HasFailed,
              Index, Fragment, Indices
-----------------------------------------------------------------------------
(* A step that returns a fragment to the frames it leaves, or fails.       *)

Outcome ==
    /\ states' \in Seq(NfaState) /\ capacity' \in Nat
    /\ Len(states') <= capacity' /\ Len(states) <= Len(states')
    /\ LeadsInside(states')
    /\ target' = target /\ start' = start
    /\ fragment' \in Fragment /\ references' \in SUBSET PatchReference
    /\ \A r \in references' : r[1] \in Indices(states')
    /\ \/ /\ mode' = "fail"
          /\ error' \in Error /\ error' # NoError
          /\ Owns(references', frames', {})
       \/ /\ mode' = "return"
          /\ error' = error
          /\ fragment'.start \in Indices(states')
          /\ references' = Open(states')
          /\ Owns(references', frames', fragment'.out)

\* A call that ends with a good fragment, or fails, keeps the invariant.
LEMMA OutcomeKeepsIInv ==
    ASSUME IInv, Outcome, UNCHANGED input,
           mode \notin {"fail", "done"},
           frames' = frames \/ (frames # <<>> /\ frames' = Front(frames))
    PROVE  IInv'
<1>1. Len(states') \in Nat /\ Len(states) \in Nat
  BY InvFacts DEF Outcome
<1>2. /\ frames' \in Seq(Frame)
      /\ \A i \in DOMAIN frames' : FrameOK(frames'[i], Len(states'))
  BY <1>1, InvFacts, PopKeepsFrames, FrameKept DEF Outcome, FramesOK
<1>3. TypeOK'
  BY <1>2 DEF Outcome, IInv, TypeOK, input
<1>4. FramesOK'
  BY <1>2 DEF FramesOK, FrameOK, input
<1>5. ModeOK'
  BY DEF Outcome, ModeOK, IInv, HasCompiled
<1>6. ReferencesOK'
  BY DEF Outcome, ReferencesOK, Indices, Owns
<1>7. ListsAreExact'
  BY OpenIsOpenOutputs DEF Outcome, ListsAreExact, OpenOutputs
<1>8. LeadsInside(states)'
  BY DEF Outcome, LeadsInside, Indices
<1> QED
  BY <1>3, <1>4, <1>5, <1>6, <1>7, <1>8 DEF IInv
-----------------------------------------------------------------------------
(* The steps that return a fragment.                                       *)

\* What such a step makes of the program.
Grows == /\ states' \in Seq(NfaState) /\ capacity' \in Nat
         /\ Len(states') <= capacity' /\ Len(states) <= Len(states')
         /\ LeadsInside(states')
         /\ start' = start

\* Failing is such an end.
LEMMA FailIsOutcome ==
    ASSUME IInv, Grows, NEW why \in Error, why # NoError, Fail(why),
           references' \subseteq references, Owns(references', frames', {})
    PROVE  Outcome
<1>1. fragment' \in Fragment /\ references' \in SUBSET PatchReference
  BY InvFacts DEF Fail
<1>2. \A r \in references' : r[1] \in Indices(states')
  BY InvFacts DEF Grows, Indices
<1> QED
  BY <1>1, <1>2 DEF Outcome, Grows, Fail

\* Returning a fragment is such an end.
LEMMA YieldIsOutcome ==
    ASSUME IInv, Grows, NEW from \in Indices(states'),
           NEW out \in SUBSET PatchReference, Yield(from, out),
           references' = Open(states'), Owns(references', frames', out)
    PROVE  Outcome
<1>1. fragment' = [start |-> from, out |-> out]
  BY DEF Yield
<1>2. from \in Nat
  BY DEF Indices, Grows
<1>3. fragment' \in Fragment /\ fragment'.start = from /\ fragment'.out = out
  BY <1>1, <1>2 DEF Fragment
<1>4. /\ references' \in SUBSET PatchReference
      /\ \A r \in references' : r[1] \in Indices(states')
  BY DEF Open
<1> QED
  BY <1>3, <1>4 DEF Outcome, Grows, Yield

\* A program that stays as it is has grown by nothing.
LEMMA StayingGrows == IInv /\ UNCHANGED program => Grows
BY InvFacts DEF IInv, TypeOK, Grows, program, LeadsInside, Indices

\* A state is appended, and transitions are patched.
LEMMA GrownProgram ==
    ASSUME IInv, mode \notin {"fail", "done"},
           NEW type \in NfaStateType \ {"MATCH"}, NEW chars \in SUBSET Chars
    PROVE  /\ Appended(type, chars) \in Seq(NfaState)
           /\ Len(Appended(type, chars)) = Len(states) + 1
           /\ LeadsInside(Appended(type, chars))
           /\ Open(Appended(type, chars)) =
                 references \cup {<<Index, 1>>} \cup
                 (IF type = "SPLIT" THEN {<<Index, 2>>} ELSE {})
           /\ Index \in Nat /\ Len(states) \in Nat
           /\ Indices(Appended(type, chars)) = Indices(states) \cup {Index}
           /\ Grown \in Nat /\ Len(states) + 1 <= Grown
           /\ <<Index, 1>> \in PatchReference /\ <<Index, 1>> \notin references
           /\ <<Index, 2>> \in PatchReference /\ <<Index, 2>> \notin references
           /\ <<Index, 1>> # <<Index, 2>>
<1> DEFINE appended == Appended(type, chars)
<1>1. TypeOK /\ LeadsInside(states) /\ references = Open(states)
      /\ Index = Len(states) /\ Len(states) \in Nat
      /\ \A r \in references : r[1] \in Indices(states)
  BY InvFacts
<1>2. appended \in Seq(NfaState) /\ Len(appended) = Len(states) + 1
  BY <1>1, AppendingState
<1>3. LeadsInside(appended) /\ Grown \in Nat /\ Len(states) + 1 <= Grown
  BY <1>1, AppendedInside, GrownFits
<1>4. Open(appended) = references \cup {<<Index, 1>>} \cup
                       (IF type = "SPLIT" THEN {<<Index, 2>>} ELSE {})
  BY <1>1, AppendedOpen
<1> HIDE DEF appended
<1>5. Indices(appended) = Indices(states) \cup {Index}
  BY <1>1, <1>2 DEF Indices
<1>6. /\ <<Index, 1>>[1] = Index /\ <<Index, 2>>[1] = Index
      /\ Index \notin Indices(states)
  BY <1>1 DEF Indices
<1>7. /\ <<Index, 1>> \in PatchReference /\ <<Index, 1>> \notin references
      /\ <<Index, 2>> \in PatchReference /\ <<Index, 2>> \notin references
  BY <1>1, <1>6 DEF PatchReference
<1> QED
  BY <1>1, <1>2, <1>3, <1>4, <1>5, <1>7 DEF appended

\* A state with one output is a fragment whose list is that output.
LEMMA SingleOutputIsOutcome ==
    ASSUME IInv, mode \notin {"fail", "done"},
           NEW type \in NfaStateType \ {"MATCH", "SPLIT"},
           NEW chars \in SUBSET Chars, SingleOutputState(type, chars),
           Owns(references, frames', {})
    PROVE  Outcome
<1> DEFINE appended == Appended(type, chars)
<1>1. /\ appended \in Seq(NfaState) /\ Len(appended) = Len(states) + 1
      /\ LeadsInside(appended)
      /\ Open(appended) = references \cup {<<Index, 1>>}
      /\ Index \in Indices(appended) /\ Len(states) \in Nat
      /\ Grown \in Nat /\ Len(states) + 1 <= Grown
      /\ <<Index, 1>> \in PatchReference /\ <<Index, 1>> \notin references
  BY GrownProgram
<1> HIDE DEF appended
<1>2. CASE UNCHANGED <<program, references>> /\ Fail("failed to allocate NFA state")
  <2>1. Grows /\ references' = references
    BY <1>2, StayingGrows
  <2> QED
    BY <1>2, <2>1, FailIsOutcome DEF NoError, Error
<1>3. CASE /\ states' = appended /\ capacity' = Grown /\ UNCHANGED start
           /\ Fail("failed to allocate patch reference")
           /\ UNCHANGED references
  <2>1. Len(states') = Len(states) + 1 /\ capacity' = Grown
        /\ states' \in Seq(NfaState) /\ LeadsInside(states')
        /\ start' = start
    BY <1>1, <1>3
  <2>2. Grows
    BY <1>1, <2>1 DEF Grows
  <2> QED
    BY <1>3, <2>2, FailIsOutcome DEF NoError, Error
<1>4. CASE /\ states' = appended /\ capacity' = Grown /\ UNCHANGED start
           /\ references' = references \cup {<<Index, 1>>}
           /\ Yield(Index, {<<Index, 1>>})
  <2>1. Owns(references', frames', {} \cup {<<Index, 1>>})
    BY <1>1, <1>4, OwnsAdd
  <2>2. Owns(references', frames', {<<Index, 1>>})
    BY <2>1
  <2>3. Grows /\ references' = Open(states')
    BY <1>1, <1>4 DEF Grows
  <2> QED
    BY <1>1, <1>4, <2>2, <2>3, YieldIsOutcome
<1> QED
  BY <1>2, <1>3, <1>4 DEF SingleOutputState, appended

\* A leaf compiles to one state, or fails.
LEMMA CompileLeafKeeps == IInv /\ CompileLeaf => IInv'
<1> SUFFICES ASSUME IInv, CompileLeaf PROVE IInv'
  OBVIOUS
<1>1. mode = "call" /\ target # NULL_NODE /\ Node.type \in LeafType
      /\ UNCHANGED <<input, frames>>
  BY DEF CompileLeaf, IsCall
<1>2. target \in DOMAIN ast
  BY <1>1 DEF IInv, TypeOK, NULL_NODE
<1>3. StateTypeOf(Node.type) \in NfaStateType \ {"MATCH", "SPLIT"}
      /\ Node.chars \in SUBSET Chars
  BY <1>1, <1>2, NodeFacts
  DEF IInv, Node, StateTypeOf, NfaStateType, Listed, LeafType
<1>4. Owns(references, frames', {})
  BY <1>1, InvFacts
<1>5. Outcome
  BY <1>1, <1>3, <1>4, SingleOutputIsOutcome DEF CompileLeaf
<1> QED
  BY <1>1, <1>5, OutcomeKeepsIInv

\* A returning frame: what it holds and the returned fragment are its own.
LEMMA ReturnFacts ==
    ASSUME IInv, NEW fns, IsReturn(fns)
    PROVE  /\ mode = "return" /\ frames # <<>> /\ Top.fn \in fns
           /\ Front(frames) \in Seq(Frame)
           /\ Top \in Frame /\ Top.held \in Fragment
           /\ FrameOK(Top, Len(states))
           /\ Top.held.out \in SUBSET PatchReference
           /\ Owns(references, Front(frames), fragment.out \cup Top.held.out)
           /\ fragment.out \cap Top.held.out = {}
           /\ references = Open(states)
<1>1. mode = "return" /\ frames # <<>> /\ Top.fn \in fns
  BY DEF IsReturn
<1>2. Top \in Frame /\ FrameOK(Top, Len(states)) /\ Front(frames) \in Seq(Frame)
  BY <1>1, InvFacts, PopKeepsFrames
<1>3. /\ Owns(references, Front(frames), fragment.out \cup Top.held.out)
      /\ fragment.out \cap Top.held.out = {}
  BY <1>1, InvFacts, OwnsPop DEF Top
<1> QED
  BY <1>1, <1>2, <1>3, InvFacts DEF Frame, Fragment

\* Two fragments in a row: the first leads to the second.
LEMMA AppendFragmentFacts ==
    ASSUME IInv, NEW to \in Fragment, AppendFragment(to), mode = "return",
           UNCHANGED capacity
    PROVE  /\ states' \in Seq(NfaState) /\ Len(states') = Len(states)
           /\ capacity' \in Nat /\ Len(states') <= capacity'
           /\ LeadsInside(states')
           /\ Indices(states') = Indices(states)
           /\ references' \in SUBSET PatchReference
           /\ references' = Open(states')
           /\ \A r \in references' : r[1] \in Indices(states')
<1>1. /\ states \in Seq(NfaState) /\ LeadsInside(states)
      /\ fragment.start \in Indices(states) /\ fragment.start \in Nat
      /\ references = Open(states) /\ references \in SUBSET PatchReference
      /\ \A r \in references : r[1] \in Indices(states)
      /\ to.out \in SUBSET PatchReference
  BY InvFacts DEF Fragment
<1>2. /\ states' = Patched(states, to.out, fragment.start)
      /\ references' = references \ to.out
  BY DEF AppendFragment
<1>3. states' \in Seq(NfaState) /\ Len(states') = Len(states)
  BY <1>1, <1>2, Patching
<1>4. LeadsInside(states') /\ Open(states') = Open(states) \ to.out
  BY <1>1, <1>2, PatchedInside, PatchedOpen
<1> QED
  BY <1>1, <1>2, <1>3, <1>4 DEF Indices, IInv, TypeOK

\* A concatenation appends its right part to the left one.
LEMMA ReturnRightKeeps == IInv /\ ReturnRight => IInv'
<1> SUFFICES ASSUME IInv, ReturnRight PROVE IInv'
  OBVIOUS
<1>1. /\ IsReturn({"CONCATENATION"}) /\ Top.index = 1
      /\ AppendFragment(Top.held) /\ Yield(Top.held.start, fragment.out)
      /\ frames' = Front(frames) /\ UNCHANGED <<input, capacity, start>>
  BY DEF ReturnRight, Pop
<1>2. /\ mode = "return" /\ frames # <<>> /\ Top.held \in Fragment
      /\ FrameOK(Top, Len(states))
      /\ Owns(references, Front(frames), fragment.out \cup Top.held.out)
      /\ fragment.out \cap Top.held.out = {}
  BY <1>1, ReturnFacts
<1>3. Owns(references', frames', fragment.out)
  BY <1>1, <1>2, OwnsRelease DEF AppendFragment
<1>4. Top.held.start \in Indices(states) /\ Top.held.start \in Nat
  BY <1>1, <1>2 DEF FrameOK, Indices
<1>5. /\ fragment' = [start |-> Top.held.start, out |-> fragment.out]
      /\ fragment' \in Fragment /\ mode' = "return" /\ UNCHANGED <<target, error>>
  BY <1>1, <1>4, InvFacts DEF Yield, Fragment
<1>6. Outcome
  BY <1>1, <1>2, <1>3, <1>4, <1>5, AppendFragmentFacts, InvFacts DEF Outcome
<1> QED
  BY <1>1, <1>2, <1>6, OutcomeKeepsIInv

\* The program after its open links have been patched.
LEMMA PatchedProgram ==
    ASSUME NEW sts \in Seq(NfaState), NEW list \in SUBSET PatchReference,
           NEW destination \in Indices(sts), LeadsInside(sts)
    PROVE  /\ Patched(sts, list, destination) \in Seq(NfaState)
           /\ Len(Patched(sts, list, destination)) = Len(sts)
           /\ Indices(Patched(sts, list, destination)) = Indices(sts)
           /\ LeadsInside(Patched(sts, list, destination))
           /\ Open(Patched(sts, list, destination)) = Open(sts) \ list
<1>1. destination \in Nat
  BY DEF Indices
<1>2. /\ Patched(sts, list, destination) \in Seq(NfaState)
      /\ Len(Patched(sts, list, destination)) = Len(sts)
  BY <1>1, Patching
<1>3. Indices(Patched(sts, list, destination)) = Indices(sts)
  BY <1>2 DEF Indices
<1> QED
  BY <1>1, <1>2, <1>3, PatchedInside, PatchedOpen

\* A SPLIT is appended whose first output leads to `first`.
LEMMA SplitProgram ==
    ASSUME IInv, mode \notin {"fail", "done"}, NEW first \in Indices(states)
    PROVE  LET split == Patched(Appended("SPLIT", {}), {<<Index, 1>>}, first)
           IN  /\ split \in Seq(NfaState) /\ Len(split) = Len(states) + 1
               /\ Indices(split) = Indices(states) \cup {Index}
               /\ LeadsInside(split)
               /\ Open(split) = references \cup {<<Index, 2>>}
               /\ <<Index, 2>> \in PatchReference /\ <<Index, 2>> \notin references
               /\ Index \in Nat /\ Len(states) \in Nat
               /\ Grown \in Nat /\ Len(states) + 1 <= Grown
<1> DEFINE appended == Appended("SPLIT", {})
           split == Patched(appended, {<<Index, 1>>}, first)
<1>1. "SPLIT" \in NfaStateType \ {"MATCH"} /\ {} \in SUBSET Chars
  BY DEF NfaStateType, Listed
<1>2. /\ appended \in Seq(NfaState) /\ Len(appended) = Len(states) + 1
      /\ LeadsInside(appended)
      /\ Open(appended) = references \cup {<<Index, 1>>} \cup {<<Index, 2>>}
      /\ Index \in Nat /\ Len(states) \in Nat
      /\ Indices(appended) = Indices(states) \cup {Index}
      /\ Grown \in Nat /\ Len(states) + 1 <= Grown
      /\ <<Index, 1>> \in PatchReference /\ <<Index, 1>> \notin references
      /\ <<Index, 2>> \in PatchReference /\ <<Index, 2>> \notin references
      /\ <<Index, 1>> # <<Index, 2>>
  BY <1>1, GrownProgram
<1> HIDE DEF appended
<1>3. /\ split \in Seq(NfaState) /\ Len(split) = Len(appended)
      /\ Indices(split) = Indices(appended) /\ LeadsInside(split)
      /\ Open(split) = Open(appended) \ {<<Index, 1>>}
  BY <1>2, PatchedProgram, ZenonT(60)
<1> HIDE DEF split
<1> QED
  BY <1>2, <1>3, ZenonT(60) DEF split, appended

\* What a frame holds that has not got a fragment yet.
LEMMA HoldsNothing ==
    ASSUME NEW f, NEW count, FrameOK(f, count), f.index = 0
    PROVE  f.held.out = {}
BY DEF FrameOK, NoFragment

\* A frame that waits for a second part holds the first one.
LEMMA HoldsAFragment ==
    ASSUME NEW f \in Frame, FrameOK(f, Len(states)), f.index > 0
    PROVE  f.held.start \in Indices(states)
BY DEF FrameOK, Indices, Frame

\* An alternation joins its branches under a split, or fails.
LEMMA ReturnBranchesKeeps == IInv /\ ReturnBranches => IInv'
<1> SUFFICES ASSUME IInv, ReturnBranches PROVE IInv'
  OBVIOUS
<1>1. /\ IsReturn({"ALTERNATION"}) /\ Top.index = 1
      /\ frames' = Front(frames) /\ UNCHANGED input
  BY DEF ReturnBranches, Pop
<1>2. /\ mode = "return" /\ frames # <<>> /\ Top \in Frame
      /\ FrameOK(Top, Len(states)) /\ Top.held.out \in SUBSET PatchReference
      /\ Owns(references, frames', fragment.out \cup Top.held.out)
  BY <1>1, ReturnFacts
<1>3. /\ Top.held.start \in Indices(states)
      /\ fragment.start \in Indices(states)
      /\ fragment.out \in SUBSET PatchReference
  BY <1>1, <1>2, HoldsAFragment, InvFacts
<1>4. CASE /\ references' = references \ (Top.held.out \cup fragment.out)
           /\ Fail("failed to allocate alternation state")
           /\ UNCHANGED program
  <2>1. Owns(references \ (fragment.out \cup Top.held.out), frames', {})
    BY <1>2, OwnsRelease
  <2>2. Owns(references', frames', {}) /\ references' \subseteq references
    BY <1>4, <2>1
  <2>3. Outcome
    BY <1>4, <2>2, StayingGrows, FailIsOutcome DEF Error, NoError, program
  <2> QED
    BY <1>1, <1>2, <2>3, OutcomeKeepsIInv
<1>5. CASE /\ states' = Patched(Patched(Appended("SPLIT", {}), {<<Index, 1>>},
                                        Top.held.start),
                                {<<Index, 2>>}, fragment.start)
           /\ capacity' = Grown
           /\ Yield(Index, Top.held.out \cup fragment.out)
           /\ UNCHANGED <<start, references>>
  <2> DEFINE split == Patched(Appended("SPLIT", {}), {<<Index, 1>>},
                              Top.held.start)
  <2>1. /\ split \in Seq(NfaState) /\ Len(split) = Len(states) + 1
        /\ Indices(split) = Indices(states) \cup {Index}
        /\ LeadsInside(split)
        /\ Open(split) = references \cup {<<Index, 2>>}
        /\ <<Index, 2>> \in PatchReference /\ <<Index, 2>> \notin references
        /\ Len(states) \in Nat /\ Grown \in Nat /\ Len(states) + 1 <= Grown
    BY <1>2, <1>3, SplitProgram
  <2>2. states' = Patched(split, {<<Index, 2>>}, fragment.start)
    BY <1>5
  <2> HIDE DEF split
  <2>3. /\ states' \in Seq(NfaState) /\ Len(states') = Len(split)
        /\ Indices(states') = Indices(split) /\ LeadsInside(states')
        /\ Open(states') = Open(split) \ {<<Index, 2>>}
    BY <1>3, <2>1, <2>2, PatchedProgram, ZenonT(60)
  <2>4. Grows /\ references' = Open(states') /\ Index \in Indices(states')
    <3>1. references' = Open(states') /\ Index \in Indices(states')
          /\ Len(states') = Len(states) + 1
          /\ capacity' = Grown /\ start' = start
      BY <1>5, <2>1, <2>3
    <3> QED
      BY <2>1, <2>3, <3>1 DEF Grows
  <2>5. Owns(references', frames', Top.held.out \cup fragment.out)
    <3>1. fragment.out \cup Top.held.out = Top.held.out \cup fragment.out
      OBVIOUS
    <3> QED
      BY <1>2, <1>5, <3>1
  <2>6. Outcome
    BY <1>2, <1>3, <1>5, <2>4, <2>5, YieldIsOutcome
  <2> QED
    BY <1>1, <1>2, <2>6, OutcomeKeepsIInv
<1> QED
  BY <1>4, <1>5 DEF ReturnBranches

\* The frames with one child hold nothing: what is returned is all there is.
LEMMA UnaryFacts ==
    ASSUME IInv, NEW fns \in SUBSET UnaryType, IsReturn(fns),
           frames' = Front(frames)
    PROVE  /\ Owns(references, frames', fragment.out)
           /\ Owns(references \ fragment.out, frames', {})
           /\ mode = "return" /\ frames # <<>>
           /\ fragment.start \in Indices(states)
           /\ fragment.out \in SUBSET PatchReference
           /\ fragment.out \subseteq references
<1>1. /\ mode = "return" /\ frames # <<>> /\ Top \in Frame /\ Top.fn \in fns
      /\ FrameOK(Top, Len(states))
      /\ Owns(references, frames', fragment.out \cup Top.held.out)
  BY ReturnFacts
<1>2. Top.held.out = {}
  BY <1>1, HoldsNothing DEF FrameOK
<1>3. /\ fragment.out \cup Top.held.out = fragment.out
      /\ fragment.out \cup {} = fragment.out
  BY <1>2
<1>4. Owns(references, frames', fragment.out)
  BY <1>1, <1>3
<1>5. Owns(references \ fragment.out, frames', {})
  BY <1>3, <1>4, OwnsRelease
<1> QED
  BY <1>1, <1>4, <1>5, InvFacts DEF Owns

\* A split that is not allocated makes the call fail.
LEMMA SplitFailsIsOutcome ==
    ASSUME IInv, NEW fns \in SUBSET UnaryType, IsReturn(fns),
           frames' = Front(frames), SplitFails
    PROVE  Outcome
<1> DEFINE why == CASE Top.fn = "STAR" -> "failed to allocate repetition state"
                    [] Top.fn = "PLUS" -> "failed to allocate plus state"
                    [] OTHER -> "failed to allocate optional state"
<1>1. why \in Error /\ why # NoError
  BY DEF Error, NoError
<1>2. Fail(why) /\ references' = references \ fragment.out /\ Grows
  BY StayingGrows DEF SplitFails
<1> HIDE DEF why
<1>3. Owns(references', frames', {}) /\ references' \subseteq references
  BY <1>2, UnaryFacts
<1> QED
  BY <1>1, <1>2, <1>3, FailIsOutcome

\* A star or a plus closes its loop, or fails.
LEMMA ReturnLoopKeeps == IInv /\ ReturnLoop => IInv'
<1> SUFFICES ASSUME IInv, ReturnLoop PROVE IInv'
  OBVIOUS
<1>1. /\ IsReturn({"STAR", "PLUS"}) /\ {"STAR", "PLUS"} \in SUBSET UnaryType
      /\ frames' = Front(frames) /\ UNCHANGED input
  BY DEF ReturnLoop, Pop, UnaryType
<1>2. /\ Owns(references \ fragment.out, frames', {})
      /\ mode = "return" /\ frames # <<>>
      /\ fragment.start \in Indices(states)
      /\ fragment.out \in SUBSET PatchReference
      /\ fragment.out \subseteq references
  BY <1>1, UnaryFacts
<1> SUFFICES Outcome
  BY <1>1, <1>2, OutcomeKeepsIInv
<1> DEFINE split == Patched(Appended("SPLIT", {}), {<<Index, 1>>},
                            fragment.start)
<1>3. /\ split \in Seq(NfaState) /\ Len(split) = Len(states) + 1
      /\ Indices(split) = Indices(states) \cup {Index}
      /\ LeadsInside(split)
      /\ Open(split) = references \cup {<<Index, 2>>}
      /\ <<Index, 2>> \in PatchReference /\ <<Index, 2>> \notin references
      /\ Len(states) \in Nat /\ Grown \in Nat /\ Len(states) + 1 <= Grown
  BY <1>2, SplitProgram
<1>4. ASSUME states' = Patched(split, fragment.out, Index), capacity' = Grown,
             UNCHANGED start
      PROVE  /\ Grows /\ Indices(states') = Indices(states) \cup {Index}
             /\ Open(states') = (references \ fragment.out) \cup {<<Index, 2>>}
  <2> HIDE DEF split
  <2>1. /\ states' \in Seq(NfaState) /\ Len(states') = Len(split)
        /\ Indices(states') = Indices(split) /\ LeadsInside(states')
        /\ Open(states') = Open(split) \ fragment.out
    BY <1>2, <1>3, <1>4, PatchedProgram
  <2>2. Len(split) = Len(states) + 1 /\ Len(states) <= Len(split)
    BY <1>3
  <2>3. Grows
    BY ONLY <1>3, <1>4, <2>1, <2>2 DEF Grows
  <2> QED
    BY <1>2, <1>3, <2>1, <2>3
<1>5. CASE SplitFails
  BY <1>1, <1>5, SplitFailsIsOutcome
<1>6. CASE /\ states' = Patched(split, fragment.out, Index)
           /\ capacity' = Grown /\ UNCHANGED start
           /\ references' = references \ fragment.out
           /\ Fail("failed to allocate patch reference")
  BY <1>2, <1>4, <1>6, FailIsOutcome DEF Error, NoError
<1>7. CASE /\ states' = Patched(split, fragment.out, Index)
           /\ capacity' = Grown /\ UNCHANGED start
           /\ references' = (references \ fragment.out) \cup {<<Index, 2>>}
           /\ Yield(LoopEntry, {<<Index, 2>>})
  <2>1. Grows /\ Indices(states') = Indices(states) \cup {Index}
        /\ references' = Open(states')
    BY <1>4, <1>7
  <2>2. LoopEntry \in Indices(states')
    BY <1>2, <2>1 DEF LoopEntry
  <2>3. Owns(references', frames', {} \cup {<<Index, 2>>})
    BY <1>2, <1>3, <1>7, OwnsAdd
  <2>4. Owns(references', frames', {<<Index, 2>>})
    BY <2>3
  <2> QED
    BY <1>3, <1>7, <2>1, <2>2, <2>4, YieldIsOutcome
<1> QED
  BY <1>5, <1>6, <1>7 DEF ReturnLoop, split

\* A question mark goes round its fragment, or fails.
LEMMA ReturnOptionalKeeps == IInv /\ ReturnOptional => IInv'
<1> SUFFICES ASSUME IInv, ReturnOptional PROVE IInv'
  OBVIOUS
<1>1. /\ IsReturn({"OPTIONAL"}) /\ {"OPTIONAL"} \in SUBSET UnaryType
      /\ frames' = Front(frames) /\ UNCHANGED input
  BY DEF ReturnOptional, Pop, UnaryType
<1>2. /\ Owns(references \ fragment.out, frames', {})
      /\ Owns(references, frames', fragment.out)
      /\ mode = "return" /\ frames # <<>>
      /\ fragment.start \in Indices(states)
      /\ fragment.out \in SUBSET PatchReference
      /\ fragment.out \subseteq references
  BY <1>1, UnaryFacts
<1> SUFFICES Outcome
  BY <1>1, <1>2, OutcomeKeepsIInv
<1> DEFINE split == Patched(Appended("SPLIT", {}), {<<Index, 1>>},
                            fragment.start)
<1>3. /\ split \in Seq(NfaState) /\ Len(split) = Len(states) + 1
      /\ Indices(split) = Indices(states) \cup {Index}
      /\ LeadsInside(split)
      /\ Open(split) = references \cup {<<Index, 2>>}
      /\ <<Index, 2>> \in PatchReference /\ <<Index, 2>> \notin references
      /\ Len(states) \in Nat /\ Grown \in Nat /\ Len(states) + 1 <= Grown
  BY <1>2, SplitProgram
<1> HIDE DEF split
<1>4. CASE SplitFails
  BY <1>1, <1>4, SplitFailsIsOutcome
<1>5. CASE /\ states' = split /\ capacity' = Grown /\ UNCHANGED start
           /\ references' = references \ fragment.out
           /\ Fail("failed to allocate patch reference")
  <2>1. Grows
    <3>1. Len(states') = Len(states) + 1 /\ states' \in Seq(NfaState)
          /\ LeadsInside(states') /\ capacity' = Grown /\ start' = start
      BY <1>3, <1>5
    <3> QED
      BY <1>3, <3>1 DEF Grows
  <2> QED
    BY <1>2, <1>5, <2>1, FailIsOutcome DEF Error, NoError
<1>6. CASE /\ states' = split /\ capacity' = Grown /\ UNCHANGED start
           /\ references' = references \cup {<<Index, 2>>}
           /\ Yield(Index, fragment.out \cup {<<Index, 2>>})
  <2>1. Grows /\ references' = Open(states') /\ Index \in Indices(states')
    BY <1>3, <1>6 DEF Grows
  <2>2. Owns(references', frames', fragment.out \cup {<<Index, 2>>})
    BY <1>2, <1>3, <1>6, OwnsAdd
  <2>3. fragment.out \cup {<<Index, 2>>} \in SUBSET PatchReference
    BY <1>2, <1>3
  <2> QED
    BY <1>6, <2>1, <2>2, <2>3, YieldIsOutcome
<1> QED
  BY <1>4, <1>5, <1>6 DEF ReturnOptional, split

\* A counted repetition without a part is a jump; any other is its parts.
LEMMA RepeatEndsKeeps == IInv /\ RepeatEnds => IInv'
<1> SUFFICES ASSUME IInv, RepeatEnds PROVE IInv'
  OBVIOUS
<1>1. /\ mode = "repeat" /\ frames' = Front(frames) /\ UNCHANGED input
  BY DEF RepeatEnds, Pop
<1>2. frames # <<>> /\ references = Open(states)
  BY <1>1, InvFacts DEF IInv, ModeOK
<1>3. Top \in Frame /\ FrameOK(Top, Len(states))
  BY <1>2, InvFacts, PopKeepsFrames
<1>4. Owns(references, frames', Top.held.out)
  <2>1. Owns(references, frames', {} \cup Top.held.out)
    BY <1>1, <1>2, InvFacts, OwnsPop DEF Top
  <2> QED
    BY <2>1
<1> SUFFICES Outcome
  BY <1>1, <1>2, OutcomeKeepsIInv
<1>5. CASE Top.index = 0 /\ SingleOutputState("JUMP", {})
  <2>1. Owns(references, frames', {})
    BY <1>3, <1>4, <1>5, HoldsNothing
  <2> QED
    BY <1>1, <1>5, <2>1, SingleOutputIsOutcome DEF NfaStateType
<1>6. CASE /\ Top.index > 0
           /\ Yield(Top.held.start, Top.held.out)
           /\ UNCHANGED <<program, references>>
  <2>1. Grows /\ states' = states /\ references' = references
    BY <1>6, StayingGrows DEF program
  <2>2. Top.held.start \in Indices(states')
        /\ Top.held.out \in SUBSET PatchReference
    BY <1>3, <1>6, <2>1, HoldsAFragment DEF Frame, Fragment
  <2> QED
    BY <1>2, <1>4, <1>6, <2>1, <2>2, YieldIsOutcome
<1> QED
  BY <1>5, <1>6 DEF RepeatEnds
-----------------------------------------------------------------------------
(* The steps that change the waiting calls only.                           *)

\* The frames are other ones, and transitions may have been patched.
LEMMA PatchKeepsIInv ==
    ASSUME IInv, mode \notin {"fail", "done"},
           UNCHANGED <<input, fragment, capacity, start, error>>,
           states' \in Seq(NfaState), Len(states') = Len(states),
           LeadsInside(states'), references' = Open(states'),
           target' \in 0 .. Len(ast),
           frames' \in Seq(Frame),
           \A i \in DOMAIN frames' : FrameOK(frames'[i], Len(states)),
           Owns(references', frames', {}),
           \/ mode' = "call"
           \/ mode' = "repeat" /\ frames' # <<>> /\ Last(frames').fn = "REPEAT"
    PROVE  IInv'
<1>1. capacity' = capacity /\ start' = start /\ ast' = ast /\ given' = given
      /\ error' = error /\ fragment' = fragment /\ Indices(states') = Indices(states)
  BY DEF input, Indices
<1>2. /\ mode' \in {"call", "repeat"} /\ mode' \notin {"enter", "done", "return", "fail"}
      /\ mode' = "repeat" => frames' # <<>> /\ Last(frames').fn = "REPEAT"
  OBVIOUS
<1>3. TypeOK'
  <2>1. references' \in SUBSET PatchReference
    BY DEF Open
  <2> QED
    BY <1>1, <1>2, <2>1 DEF IInv, TypeOK
<1>4. FramesOK'
  BY <1>1 DEF FramesOK, FrameOK
<1>5. ModeOK'
  BY <1>1, <1>2 DEF IInv, ModeOK, HasCompiled, Top
<1>6. ReferencesOK'
  <2>1. \A r \in references' : r[1] \in Indices(states')
    BY DEF Open
  <2> QED
    BY <1>2, <2>1 DEF ReferencesOK, Indices, Owns
<1>7. ListsAreExact'
  BY OpenIsOpenOutputs DEF ListsAreExact, OpenOutputs
<1>8. LeadsInside(states)'
  BY DEF LeadsInside, Indices
<1> QED
  BY <1>3, <1>4, <1>5, <1>6, <1>7, <1>8 DEF IInv

\* The program and the blocks on the heap stay.
LEMMA FramesKeepIInv ==
    ASSUME IInv, mode \notin {"fail", "done"},
           UNCHANGED <<input, fragment, program, references, error>>,
           target' \in 0 .. Len(ast),
           frames' \in Seq(Frame),
           \A i \in DOMAIN frames' : FrameOK(frames'[i], Len(states)),
           Owns(references, frames', {}),
           \/ mode' = "call"
           \/ mode' = "repeat" /\ frames' # <<>> /\ Last(frames').fn = "REPEAT"
    PROVE  IInv'
<1>1. states' = states /\ references' = references
      /\ UNCHANGED <<input, fragment, capacity, start, error>>
  BY DEF program
<1>2. /\ states' \in Seq(NfaState) /\ Len(states') = Len(states)
      /\ LeadsInside(states') /\ references' = Open(states')
  BY <1>1, InvFacts
<1> QED
  BY <1>1, <1>2, PatchKeepsIInv

\* A call of compile_node keeps the invariant.
LEMMA PushKeepsIInv ==
    ASSUME IInv, mode \in {"call", "repeat"},
           NEW fn, NEW node \in DOMAIN ast, Push(fn, node),
           \/ ast[node].type = fn /\ fn \in BinaryType \cup UnaryType
           \/ ast[node].type = "REPEAT" /\ fn \in UnaryType
           \/ ast[node].type = "REPEAT" /\ fn = "REPEAT" /\ HasBounds(ast[node]),
           target' \in 0 .. Len(ast),
           mode' = "call" \/ (mode' = "repeat" /\ fn = "REPEAT")
    PROVE  IInv'
<1> DEFINE f == [fn |-> fn, node |-> node, held |-> NoFragment, index |-> 0]
<1>1. node \in Nat /\ fn \in BinaryType \cup UnaryType \cup {"REPEAT"}
  BY InvFacts, NodeFacts
<1>2. NoFragment \in Fragment /\ NoFragment.out = {}
  BY DEF NoFragment, Fragment
<1>3. f \in Frame /\ f.held.out = {} /\ f.fn = fn
  BY <1>1, <1>2 DEF Frame, BinaryType, UnaryType
<1>4. FrameOK(f, Len(states))
  BY <1>1 DEF FrameOK, BinaryType, UnaryType
<1>5. frames' = Append(frames, f)
      /\ UNCHANGED <<input, fragment, program, references, error>>
  BY DEF Push
<1> HIDE DEF f
<1>6. frames \in Seq(Frame) /\ Owns(references, frames, {})
      /\ \A i \in DOMAIN frames : FrameOK(frames[i], Len(states))
  BY InvFacts DEF FramesOK
<1>7. Owns(references, frames', {})
  BY <1>3, <1>5, <1>6, OwnsPush
<1>8. frames' \in Seq(Frame)
      /\ \A i \in DOMAIN frames' : FrameOK(frames'[i], Len(states))
  BY <1>3, <1>4, <1>5, <1>6, PushKeepsFrames
<1>9. frames' # <<>> /\ Last(frames') = f
  BY <1>3, <1>5, <1>6, Appending
<1> QED
  BY <1>3, <1>5, <1>7, <1>8, <1>9, FramesKeepIInv

\* A call with a child of a node that is not a repetition.
LEMMA CallChildKeeps == IInv /\ CallChild => IInv'
<1> SUFFICES ASSUME IInv, CallChild PROVE IInv'
  OBVIOUS
<1>1. /\ mode = "call" /\ target # NULL_NODE
      /\ Node.type \in BinaryType \cup UnaryType
      /\ Push(Node.type, target) /\ target' = Node.left /\ mode' = mode
  BY DEF CallChild, IsCall
<1>2. target \in DOMAIN ast
  BY <1>1 DEF IInv, TypeOK, NULL_NODE
<1>3. target' \in 0 .. Len(ast)
  BY <1>1, <1>2, InvFacts, NodeFacts DEF Node
<1> QED
  BY <1>1, <1>2, <1>3, PushKeepsIInv DEF Node

\* A counted repetition whose bounds are good begins with its parts.
LEMMA CallRepeatKeeps == IInv /\ CallRepeat => IInv'
<1> SUFFICES ASSUME IInv, CallRepeat PROVE IInv'
  OBVIOUS
<1>1. /\ mode = "call" /\ target # NULL_NODE /\ Node.type = "REPEAT"
      /\ HasBounds(Node) /\ Push("REPEAT", target)
      /\ target' = target /\ mode' = "repeat"
  BY DEF CallRepeat, IsCall, Goto
<1>2. target \in DOMAIN ast /\ target' \in 0 .. Len(ast)
  BY <1>1 DEF IInv, TypeOK, NULL_NODE
<1> QED
  BY <1>1, <1>2, PushKeepsIInv DEF Node

\* The topmost call is that of a REPEAT node.
LEMMA RepeatFacts ==
    ASSUME IInv, mode = "repeat"
    PROVE  /\ frames # <<>> /\ Top \in Frame /\ Top.fn = "REPEAT"
           /\ FrameOK(Top, Len(states))
           /\ Top.node \in DOMAIN ast /\ Repeat.type = "REPEAT"
           /\ Repeat.left \in 0 .. Len(ast)
<1>1. frames # <<>> /\ Top.fn = "REPEAT"
  BY DEF IInv, ModeOK
<1>2. Top \in Frame /\ FrameOK(Top, Len(states))
  BY <1>1, InvFacts, PopKeepsFrames
<1>3. Top.node \in DOMAIN ast /\ Repeat.type = "REPEAT"
  BY <1>1, <1>2 DEF FrameOK, Repeat, UnaryType
<1> QED
  BY <1>1, <1>2, <1>3, InvFacts, NodeFacts DEF Repeat

\* A part that is not required is a star or optional.
LEMMA RepeatRestKeeps == IInv /\ RepeatRest => IInv'
<1> SUFFICES ASSUME IInv, RepeatRest PROVE IInv'
  OBVIOUS
<1> DEFINE fn == IF Repeat.maximum = UNBOUNDED THEN "STAR" ELSE "OPTIONAL"
<1>1. /\ mode = "repeat" /\ Push(fn, Top.node)
      /\ mode' = "call" /\ target' = Repeat.left
  BY DEF RepeatRest, IsRepeating, Goto
<1>2. fn \in UnaryType
  BY DEF UnaryType
<1> HIDE DEF fn
<1> QED
  BY <1>1, <1>2, RepeatFacts, PushKeepsIInv DEF Repeat

\* A part that is required is a copy of the child.
LEMMA RepeatCopyKeeps == IInv /\ RepeatCopy => IInv'
<1> SUFFICES ASSUME IInv, RepeatCopy PROVE IInv'
  OBVIOUS
<1>1. /\ mode = "repeat" /\ mode' = "call" /\ target' = Repeat.left
      /\ UNCHANGED <<input, fragment, frames, program, references, error>>
  BY DEF RepeatCopy, IsRepeating, Goto
<1> QED
  BY <1>1, RepeatFacts, InvFacts, FramesKeepIInv DEF FramesOK

\* The left part is kept while the right one is compiled.
LEMMA ReturnLeftKeeps == IInv /\ ReturnLeft => IInv'
<1> SUFFICES ASSUME IInv, ReturnLeft PROVE IInv'
  OBVIOUS
<1> DEFINE f == [Top EXCEPT !.held = fragment, !.index = 1]
<1>1. /\ IsReturn(BinaryType) /\ Top.index = 0
      /\ frames' = Append(Front(frames), f)
      /\ target' = ast[Top.node].right /\ mode' = "call"
      /\ UNCHANGED <<input, fragment, program, references, error>>
  BY DEF ReturnLeft, Goto
<1>2. /\ mode = "return" /\ frames # <<>> /\ Top.fn \in BinaryType
      /\ Front(frames) \in Seq(Frame)
      /\ Top \in Frame /\ FrameOK(Top, Len(states))
      /\ Owns(references, Front(frames), fragment.out \cup Top.held.out)
  BY <1>1, ReturnFacts
<1>3. Owns(references, Front(frames), fragment.out)
  <2>1. Top.held.out = {}
    BY <1>1, <1>2, HoldsNothing
  <2>2. fragment.out \cup Top.held.out = fragment.out
    BY <2>1
  <2> QED
    BY <1>2, <2>2
<1>4. fragment \in Fragment /\ fragment.start \in Indices(states)
  BY <1>2, InvFacts
<1>5. /\ f \in Frame /\ f.held = fragment /\ f.fn = Top.fn
      /\ f.node = Top.node /\ f.index = 1
  BY <1>2, <1>4 DEF Frame
<1> HIDE DEF f
<1>6. FrameOK(f, Len(states))
  BY <1>2, <1>4, <1>5 DEF FrameOK, Indices, BinaryType, UnaryType
<1>7. \A i \in DOMAIN Front(frames) : FrameOK(Front(frames)[i], Len(states))
  BY <1>2, InvFacts, PopKeepsFrames
<1>8. frames' \in Seq(Frame)
      /\ \A i \in DOMAIN frames' : FrameOK(frames'[i], Len(states))
  BY <1>1, <1>2, <1>5, <1>6, <1>7, PushKeepsFrames
<1>9. Owns(references, frames', {})
  BY <1>1, <1>2, <1>3, <1>5, OwnsPush
<1>10. target' \in 0 .. Len(ast)
  <2>1. Top.node \in DOMAIN ast /\ ast[Top.node].type \in BinaryType
    BY <1>2 DEF FrameOK, BinaryType, UnaryType
  <2> QED
    BY <1>1, <2>1, InvFacts, NodeFacts
<1> QED
  BY <1>1, <1>2, <1>8, <1>9, <1>10, FramesKeepIInv

\* A part of a repetition is appended to those before it.
LEMMA ReturnPartKeeps == IInv /\ ReturnPart => IInv'
<1> SUFFICES ASSUME IInv, ReturnPart PROVE IInv'
  OBVIOUS
<1> DEFINE f == [Top EXCEPT !.held = fragment, !.index = 1]
           g == [Top EXCEPT !.held.out = fragment.out, !.index = @ + 1]
<1>1. /\ IsReturn({"REPEAT"}) /\ mode' = "repeat"
      /\ UNCHANGED <<input, target, fragment, capacity, start, error>>
  BY DEF ReturnPart, Goto
<1>2. /\ mode = "return" /\ frames # <<>> /\ Top.fn = "REPEAT"
      /\ Front(frames) \in Seq(Frame)
      /\ Top \in Frame /\ Top.held \in Fragment /\ FrameOK(Top, Len(states))
      /\ Owns(references, Front(frames), fragment.out \cup Top.held.out)
      /\ fragment.out \cap Top.held.out = {}
  BY <1>1, ReturnFacts
<1>3. /\ fragment \in Fragment /\ fragment.start \in Indices(states)
      /\ fragment.out \in SUBSET PatchReference /\ target' \in 0 .. Len(ast)
  BY <1>1, <1>2, InvFacts DEF IInv, TypeOK
<1>4. \A i \in DOMAIN Front(frames) : FrameOK(Front(frames)[i], Len(states))
  BY <1>2, InvFacts, PopKeepsFrames
<1>5. CASE /\ Top.index = 0
           /\ frames' = Append(Front(frames), f)
           /\ UNCHANGED <<states, references>>
  <2>1. Top.held.out = {}
    BY <1>2, <1>5, HoldsNothing
  <2>2. fragment.out \cup Top.held.out = fragment.out
    BY <2>1
  <2>3. Owns(references, Front(frames), fragment.out)
    BY <1>2, <2>2
  <2>4. /\ f \in Frame /\ f.held = fragment /\ f.fn = Top.fn
        /\ f.node = Top.node /\ f.index = 1
    BY <1>2, <1>3 DEF Frame
  <2> HIDE DEF f
  <2>5. FrameOK(f, Len(states))
    BY <1>2, <1>3, <2>4 DEF FrameOK, Indices, BinaryType, UnaryType
  <2>6. /\ frames' \in Seq(Frame)
        /\ \A i \in DOMAIN frames' : FrameOK(frames'[i], Len(states))
        /\ frames' # <<>> /\ Last(frames').fn = "REPEAT"
    BY <1>2, <1>4, <1>5, <2>4, <2>5, PushKeepsFrames, Appending
  <2>7. Owns(references, frames', {})
    BY <1>2, <1>5, <2>3, <2>4, OwnsPush
  <2> QED
    BY <1>1, <1>2, <1>3, <1>5, <2>6, <2>7, FramesKeepIInv DEF program
<1>6. CASE /\ Top.index > 0
           /\ AppendFragment(Top.held)
           /\ frames' = Append(Front(frames), g)
  <2>1. /\ states' \in Seq(NfaState) /\ Len(states') = Len(states)
        /\ LeadsInside(states') /\ references' = Open(states')
    BY <1>1, <1>2, <1>6, AppendFragmentFacts
  <2>2. Owns(references', Front(frames), fragment.out)
    <3>1. Top.held.out \cap fragment.out = {}
          /\ fragment.out \cup Top.held.out = Top.held.out \cup fragment.out
      BY <1>2
    <3> QED
      BY <1>2, <1>6, <3>1, OwnsRelease DEF AppendFragment
  <2>3. Top.index \in Nat /\ Top.held.start \in Indices(states)
    BY <1>2, <1>6, HoldsAFragment DEF Frame
  <2> DEFINE held == [Top.held EXCEPT !.out = fragment.out]
  <2> DEFINE next == Top.index + 1
  <2>4. g = [Top EXCEPT !.held = held, !.index = next]
    BY <1>2 DEF Frame
  <2>5. held \in Fragment /\ held.start = Top.held.start /\ held.out = fragment.out
    BY <1>2, <1>3 DEF Fragment
  <2>6. next \in Nat /\ next > 0
    BY <2>3
  <2> HIDE DEF held, g, next
  <2>7. /\ g \in Frame /\ g.held = held /\ g.fn = Top.fn
        /\ g.node = Top.node /\ g.index = next
    BY <1>2, <2>4, <2>5, <2>6 DEF Frame
  <2>8. FrameOK(g, Len(states))
    BY <1>2, <2>3, <2>5, <2>6, <2>7 DEF FrameOK, Indices, BinaryType, UnaryType
  <2>9. /\ frames' \in Seq(Frame)
        /\ \A i \in DOMAIN frames' : FrameOK(frames'[i], Len(states))
        /\ frames' # <<>> /\ Last(frames').fn = "REPEAT"
    BY <1>2, <1>4, <1>6, <2>7, <2>8, PushKeepsFrames, Appending
  <2>10. Owns(references', frames', {})
    BY <1>2, <1>6, <2>2, <2>5, <2>7, OwnsPush
  <2> QED
    BY <1>1, <1>2, <1>3, <2>1, <2>9, <2>10, PatchKeepsIInv
<1> QED
  BY <1>5, <1>6 DEF ReturnPart

\* compiler_compile_ast begins.
LEMMA BeginKeeps == IInv /\ Begin => IInv'
<1> SUFFICES ASSUME IInv, Begin PROVE IInv'
  OBVIOUS
<1>1. /\ mode = "enter" /\ mode' = "call" /\ target' = Len(ast)
      /\ UNCHANGED <<input, fragment, frames, program, references, error>>
  BY DEF Begin
<1>2. Len(ast) \in 0 .. Len(ast)
  BY DEF IInv, TypeOK
<1> QED
  BY <1>1, <1>2, InvFacts, FramesKeepIInv DEF FramesOK

\* A call that fails before it has done anything.
LEMMA RefusingKeeps ==
    ASSUME IInv, mode \in {"enter", "call"}, NEW why \in Error, why # NoError,
           Fail(why), UNCHANGED <<input, frames, program, references>>
    PROVE  IInv'
<1>1. Grows /\ references' = references /\ frames' = frames
  BY StayingGrows
<1>2. Owns(references', frames', {})
  BY <1>1, InvFacts
<1> QED
  BY <1>1, <1>2, FailIsOutcome, OutcomeKeepsIInv

\* A program, a node or bounds that are refused make the call fail.
LEMMA RefuseKeeps == IInv /\ (RefuseProgram \/ CallNull \/ RefuseBounds) => IInv'
<1> SUFFICES ASSUME IInv, RefuseProgram \/ CallNull \/ RefuseBounds PROVE IInv'
  OBVIOUS
<1>1. CASE RefuseProgram
  <2> DEFINE why == IF given = "null" THEN "compiler received a null NFA program"
                    ELSE "NFA program must be empty before compilation"
  <2>1. why \in Error /\ why # NoError
    BY DEF Error, NoError
  <2> HIDE DEF why
  <2> QED
    BY <1>1, <2>1, RefusingKeeps DEF RefuseProgram, why
<1>2. CASE CallNull
  BY <1>2, RefusingKeeps DEF CallNull, Error, NoError
<1>3. CASE RefuseBounds
  BY <1>3, RefusingKeeps DEF RefuseBounds, IsCall, Error, NoError
<1> QED
  BY <1>1, <1>2, <1>3

\* A failed call makes its caller release what it holds and fail.
LEMMA UnwindKeeps == IInv /\ Unwind => IInv'
<1> SUFFICES ASSUME IInv, Unwind PROVE IInv'
  OBVIOUS
<1>1. /\ mode = "fail" /\ frames # <<>> /\ frames' = Front(frames)
      /\ references' = references \ Top.held.out
      /\ ast' = ast /\ given' = given /\ mode' = mode /\ target' = target
      /\ fragment' = fragment /\ error' = error
      /\ states' = states /\ capacity' = capacity /\ start' = start
  BY DEF Unwind, Pop, input, program
<1>2. Owns(references, frames', {} \cup Top.held.out)
  BY <1>1, InvFacts, OwnsPop DEF Top
<1>3. Owns(references', frames', {})
  <2>1. {} \cup Top.held.out = Top.held.out \cup {} /\ Top.held.out \cap {} = {}
    OBVIOUS
  <2> QED
    BY <1>1, <1>2, <2>1, OwnsRelease
<1>4. frames' \in Seq(Frame)
      /\ \A i \in DOMAIN frames' : FrameOK(frames'[i], Len(states))
  BY <1>1, InvFacts, PopKeepsFrames
<1>5. TypeOK'
  BY <1>1, <1>4 DEF IInv, TypeOK
<1>6. FramesOK'
  BY <1>1, <1>4 DEF FramesOK, FrameOK
<1>7. ModeOK'
  BY <1>1 DEF IInv, ModeOK, HasCompiled
<1>8. ReferencesOK'
  BY <1>1, <1>3, InvFacts DEF ReferencesOK, Owns, Indices
<1>9. ListsAreExact' /\ LeadsInside(states)'
  BY <1>1 DEF IInv, ListsAreExact, LeadsInside, Indices
<1> QED
  BY <1>5, <1>6, <1>7, <1>8, <1>9 DEF IInv

\* The accepting state closes the program.
LEMMA FinishKeeps == IInv /\ Finish => IInv'
<1> SUFFICES ASSUME IInv, Finish PROVE IInv'
  OBVIOUS
<1>1. /\ mode = "return" /\ frames = <<>> /\ frames' = frames
      /\ references' = references \ fragment.out /\ UNCHANGED input
  BY DEF Finish
<1>2. /\ Owns(references, frames, fragment.out) /\ references = Open(states)
      /\ fragment.start \in Indices(states)
      /\ fragment.out \in SUBSET PatchReference
  BY <1>1, InvFacts
<1>3. references = fragment.out /\ references' = {}
  <2>1. DOMAIN frames = {}
    BY <1>1
  <2> QED
    BY <1>1, <1>2, <2>1 DEF Owns
<1>4. Owns(references', frames', {})
  BY <1>1, <1>3 DEF Owns
<1>5. CASE Fail("failed to allocate match state") /\ UNCHANGED program
  <2>1. references' \subseteq references
    BY <1>3
  <2> QED
    BY <1>1, <1>4, <1>5, <2>1, StayingGrows, FailIsOutcome, OutcomeKeepsIInv
    DEF Error, NoError
<1>6. CASE /\ states' = Patched(Appended("MATCH", {}), fragment.out, Index)
           /\ capacity' = Grown /\ start' = fragment.start /\ mode' = "done"
           /\ UNCHANGED <<target, fragment, error>>
  <2> DEFINE appended == Appended("MATCH", {})
  <2>1. "MATCH" \in NfaStateType /\ {} \in SUBSET Chars
    BY DEF NfaStateType, Listed
  <2>2. /\ appended \in Seq(NfaState) /\ Len(appended) = Len(states) + 1
        /\ LeadsInside(appended) /\ Open(appended) = references
        /\ Index = Len(states) /\ Len(states) \in Nat
        /\ Grown \in Nat /\ Len(states) + 1 <= Grown
    BY <1>2, <2>1, InvFacts, AppendingState, AppendedInside, AppendedOpen,
       GrownFits
  <2>3. states' = Patched(appended, fragment.out, Index)
    BY <1>6
  <2> HIDE DEF appended
  <2>4. Index \in Indices(appended)
    BY <2>2 DEF Indices
  <2>5. /\ states' \in Seq(NfaState) /\ Len(states') = Len(appended)
        /\ LeadsInside(states') /\ Open(states') = references \ fragment.out
    BY <1>2, <2>2, <2>3, <2>4, PatchedProgram, ZenonT(60)
  <2>6. start' \in Indices(states') /\ start' \in Nat
        /\ Len(states') <= capacity' /\ capacity' \in Nat
    BY <1>2, <1>6, <2>2, <2>5 DEF Indices
  <2>7. TypeOK'
    BY <1>1, <1>3, <1>6, <2>5, <2>6 DEF IInv, TypeOK, input
  <2>8. FramesOK' /\ ReferencesOK'
    BY <1>1, <1>3, <1>4, <1>6 DEF FramesOK, ReferencesOK, Owns
  <2>9. ModeOK'
    BY <1>1, <1>6, <2>6 DEF IInv, ModeOK, HasCompiled, Indices
  <2>10. OpenOutputs' = {}
    BY <1>3, <2>5, OpenIsOpenOutputs DEF OpenOutputs
  <2>11. ListsAreExact'
    BY <1>3, <2>10 DEF ListsAreExact
  <2>12. LeadsInside(states)'
    BY <2>5 DEF LeadsInside, Indices
  <2> QED
    BY <2>7, <2>8, <2>9, <2>11, <2>12 DEF IInv
<1> QED
  BY <1>5, <1>6 DEF Finish

\* A program that is not finished is released.
LEMMA FinishFailedKeeps == IInv /\ FinishFailed => IInv'
<1> SUFFICES ASSUME IInv, FinishFailed PROVE IInv'
  OBVIOUS
<1>1. /\ mode = "fail" /\ frames = <<>> /\ mode' = "done"
      /\ states' = <<>> /\ capacity' = 0 /\ start' = NFA_INVALID_STATE
      /\ ast' = ast /\ given' = given /\ target' = target
      /\ fragment' = fragment /\ frames' = frames
      /\ references' = references /\ error' = error
  BY DEF FinishFailed, input
<1>2. error # NoError /\ Owns(references, frames, {})
  BY <1>1, InvFacts DEF IInv, ModeOK
<1>3. references = {}
  BY <1>1, <1>2 DEF Owns
<1>4. states' \in Seq(NfaState) /\ Len(states') = 0 /\ DOMAIN states' = {}
  BY <1>1
<1>5. TypeOK'
  BY <1>1, <1>4 DEF IInv, TypeOK
<1>6. FramesOK' /\ ReferencesOK'
  BY <1>1, <1>2, <1>3 DEF FramesOK, ReferencesOK, Owns
<1>7. ModeOK' /\ ListsAreExact'
  BY <1>1, <1>2 DEF IInv, ModeOK, HasCompiled, ListsAreExact, HasFailed
<1>8. LeadsInside(states)'
  BY <1>4 DEF LeadsInside
<1> QED
  BY <1>5, <1>6, <1>7, <1>8 DEF IInv
-----------------------------------------------------------------------------

\* The compiler begins with the invariant.
LEMMA InitIInv == Init => IInv
<1> SUFFICES ASSUME Init PROVE IInv
  OBVIOUS
<1> USE DEF Init
<1>1. frames \in Seq(Frame) /\ DOMAIN frames = {} /\ NoFragment \in Fragment
  BY DEF NoFragment, Fragment
<1>2. ast \in Seq(AstNode) /\ NULL_NODE \in 0 .. Len(ast)
  <2>1. IsAst(ast)
    BY CompilerAssumption
  <2>2. ast \in Seq(AstNode)
    BY <2>1 DEF IsAst
  <2> QED
    BY <2>2 DEF NULL_NODE
<1>3. CASE given = "used"
  <2>1. NewState("MATCH", {}) \in NfaState
    BY DEF NewState, NfaState, NfaStateType, Listed
  <2>2. /\ states \in Seq(NfaState) /\ Len(states) = 1
        /\ DOMAIN states = {1} /\ states[1] = NewState("MATCH", {})
    <3>1. states = <<NewState("MATCH", {})>>
      BY <1>3
    <3> HIDE DEF NewState
    <3> QED
      BY <2>1, <3>1
  <2>3. TypeOK
    BY <1>1, <1>2, <1>3, <2>2, CompilerAssumption DEF TypeOK, Error
  <2>4. LeadsInside(states)
    BY <2>2 DEF LeadsInside, NewState
  <2>5. OpenOutputs = {}
    BY <2>2 DEF OpenOutputs, NewState
  <2> QED
    BY <1>1, <2>3, <2>4, <2>5
    DEF IInv, FramesOK, ModeOK, ReferencesOK, Owns, ListsAreExact, HasCompiled
<1>4. CASE given # "used"
  <2>1. states = <<>> /\ Len(states) = 0 /\ DOMAIN states = {}
        /\ states \in Seq(NfaState)
    BY <1>4
  <2>2. TypeOK
    BY <1>1, <1>2, <1>4, <2>1 DEF TypeOK, Error
  <2>3. OpenOutputs = {} /\ LeadsInside(states)
    BY <2>1 DEF OpenOutputs, LeadsInside
  <2> QED
    BY <1>1, <2>2, <2>3
    DEF IInv, FramesOK, ModeOK, ReferencesOK, Owns, ListsAreExact, HasCompiled
<1> QED
  BY <1>3, <1>4

\* Every step of the compiler keeps the invariant.
LEMMA StepIInv == IInv /\ [Next]_vars => IInv'
<1> SUFFICES ASSUME IInv, [Next]_vars PROVE IInv'
  OBVIOUS
<1>1. CASE UNCHANGED vars
  <2>1. /\ UNCHANGED <<ast, given, mode, target, fragment, frames, states>>
        /\ UNCHANGED <<capacity, start, references, error>>
    BY <1>1 DEF vars, input, control, program
  <2> QED
    BY <2>1 DEF IInv, TypeOK, FramesOK, FrameOK, ModeOK, Top, ReferencesOK, Owns,
                LeadsInside, Indices, ListsAreExact, HasFailed, HasCompiled,
                OpenOutputs
<1>2. CASE RefuseProgram \/ CallNull \/ RefuseBounds
  BY <1>2, RefuseKeeps
<1>3. CASE Begin \/ CompileLeaf \/ CallChild \/ CallRepeat
  BY <1>3, BeginKeeps, CompileLeafKeeps, CallChildKeeps, CallRepeatKeeps
<1>4. CASE ReturnLeft \/ ReturnRight \/ ReturnBranches
  BY <1>4, ReturnLeftKeeps, ReturnRightKeeps, ReturnBranchesKeeps
<1>5. CASE ReturnLoop \/ ReturnOptional
  BY <1>5, ReturnLoopKeeps, ReturnOptionalKeeps
<1>6. CASE RepeatCopy \/ RepeatRest \/ ReturnPart \/ RepeatEnds
  BY <1>6, RepeatCopyKeeps, RepeatRestKeeps, ReturnPartKeeps, RepeatEndsKeeps
<1>7. CASE Unwind \/ Finish \/ FinishFailed
  BY <1>7, UnwindKeeps, FinishKeeps, FinishFailedKeeps
<1> QED
  BY <1>1, <1>2, <1>3, <1>4, <1>5, <1>6, <1>7 DEF Next

\* The invariant says what the two properties say.
LEMMA OwnedOnce == IInv => ReferencesOwnedOnce
<1> SUFFICES ASSUME IInv PROVE ReferencesOwnedOnce
  OBVIOUS
<1> DEFINE out == IF mode = "return" THEN fragment.out ELSE {}
<1>1. Owns(references, frames, out)
  BY DEF IInv, ReferencesOK
<1>2. /\ DOMAIN frames = 1 .. Len(frames) /\ Len(frames) \in Nat
      /\ DOMAIN Owned = 0 .. Len(frames)
      /\ Owned[0] = out
      /\ \A i \in 1 .. Len(frames) : Owned[i] = frames[i].held.out
  BY DEF Owned, IInv, TypeOK
<1> HIDE DEF out
<1>3. \A i \in DOMAIN Owned : i = 0 \/ i \in DOMAIN frames
  BY <1>2
<1>4. references = UNION {Owned[i] : i \in DOMAIN Owned}
  <2>1. ASSUME NEW r \in references
        PROVE  \E i \in DOMAIN Owned : r \in Owned[i]
    BY <1>1, <1>2 DEF Owns
  <2>2. \A i \in DOMAIN Owned : Owned[i] \subseteq references
    BY <1>1, <1>2, <1>3 DEF Owns
  <2> QED
    BY <2>1, <2>2
<1>5. \A i, j \in DOMAIN Owned : i # j => Owned[i] \cap Owned[j] = {}
  BY <1>1, <1>2, <1>3 DEF Owns
<1> QED
  BY <1>4, <1>5 DEF ReferencesOwnedOnce

\* The links of a list are links of states of the program.
LEMMA Inside == IInv => StaysInside
<1> SUFFICES ASSUME IInv PROVE StaysInside
  OBVIOUS
<1>1. DOMAIN states = 1 .. Len(states) /\ Len(states) \in Nat
      /\ frames \in Seq(Frame)
  BY InvFacts
<1>2. \A i \in DOMAIN states :
         {states[i].out1, states[i].out2}
            \subseteq Indices(states) \cup {NFA_INVALID_STATE}
  BY DEF IInv, LeadsInside
<1>3. \A i \in DOMAIN frames : frames[i].index > 0 =>
         frames[i].held.start \in Indices(states)
  BY <1>1, HoldsAFragment DEF IInv, FramesOK
<1>4. /\ mode = "return" => fragment.start \in Indices(states)
      /\ HasCompiled => start \in Indices(states)
  BY DEF IInv, ModeOK
<1>5. TypeOK /\ \A r \in references : r[1] \in Indices(states)
  BY InvFacts
<1> QED
  BY <1>2, <1>3, <1>4, <1>5 DEF StaysInside, Indices
-----------------------------------------------------------------------------
(* Whatever tree is compiled, and whichever allocation fails, the compiler's *)
(* variables keep their types: the states always fit the block that holds   *)
(* them, and every patch list is a set of transitions.                      *)
THEOREM TypeCorrect == Spec => []TypeOK
<1>1. Init => IInv
  BY InitIInv
<1>2. IInv /\ [Next]_vars => IInv'
  BY StepIInv
<1>3. IInv => TypeOK
  BY DEF IInv
<1> QED
  BY <1>1, <1>2, <1>3, PTL DEF Spec

(* No PatchReference leaks and none is released twice: each block on the   *)
(* heap is in the list of exactly one waiting call or of the fragment that *)
(* is returned, on the paths where an allocation fails too.                *)
THEOREM NoReferenceLeaks == Spec => []ReferencesOwnedOnce
<1>1. Init => IInv
  BY InitIInv
<1>2. IInv /\ [Next]_vars => IInv'
  BY StepIInv
<1>3. IInv => ReferencesOwnedOnce
  BY OwnedOnce
<1> QED
  BY <1>1, <1>2, <1>3, PTL DEF Spec

(* The patch lists name exactly the transitions that lead nowhere yet, so  *)
(* that a program that was compiled leaves none unconnected.               *)
THEOREM PatchListsExact == Spec => []ListsAreExact
<1>1. Init => IInv
  BY InitIInv
<1>2. IInv /\ [Next]_vars => IInv'
  BY StepIInv
<1>3. IInv => ListsAreExact
  BY DEF IInv
<1> QED
  BY <1>1, <1>2, <1>3, PTL DEF Spec

(* No transition, no entry of a patch list and no start of a fragment ever *)
(* names a state behind the end of the program.                            *)
THEOREM NoTransitionLeaves == Spec => []StaysInside
<1>1. Init => IInv
  BY InitIInv
<1>2. IInv /\ [Next]_vars => IInv'
  BY StepIInv
<1>3. IInv => StaysInside
  BY Inside
<1> QED
  BY <1>1, <1>2, <1>3, PTL DEF Spec
-----------------------------------------------------------------------------
(* Functions on the nodes of a tree.  The library's induction theorems take *)
(* an operator; that a set of naturals has a least element is enough here. *)

LEMMA LeastNatural ==
    ASSUME NEW S \in SUBSET Nat, S # {}
    PROVE  \E n \in S : \A m \in S : n <= m
<1> DEFINE Less == {pair \in Nat \X Nat : pair[1] < pair[2]}
<1>1. IsWellFoundedOn(Less, Nat)
  BY NatLessThanWellFounded DEF OpToRel
<1>2. PICK n \in S : \A m \in S : ~ (<<m, n>> \in Less)
  <2> HIDE DEF Less
  <2> QED
    BY <1>1, WFMin
<1>3. ASSUME NEW m \in S PROVE n <= m
  <2>1. <<m, n>> \in Nat \X Nat /\ <<m, n>>[1] = m /\ <<m, n>>[2] = n
    OBVIOUS
  <2> QED
    BY <1>2, <2>1
<1> QED
  BY <1>3

\* The maximum of one number.
LEMMA MaxOfOne == ASSUME NEW a \in Nat PROVE Max({a}) = a
<1>1. \E x \in {a} : \A y \in {a} : x >= y
  OBVIOUS
<1> QED
  BY <1>1 DEF Max

\* The maximum of two numbers.
LEMMA MaxOfTwo ==
    ASSUME NEW a \in Nat, NEW b \in Nat
    PROVE  Max({a, b}) \in {a, b} /\ Max({a, b}) >= a /\ Max({a, b}) >= b
<1>1. \E x \in {a, b} : \A y \in {a, b} : x >= y
  OBVIOUS
<1> QED
  BY <1>1 DEF Max

\* Height(tree) is the value at the root of a function that exists.
HeightOf(h, tree, n) ==
    IF tree[n].type \in LeafType THEN 1
    ELSE (IF tree[n].type = "REPEAT" THEN 2 ELSE 1) +
         Max({h[c] : c \in Children(tree[n])})

Heights(tree) ==
    CHOOSE h : h = [n \in 1 .. Len(tree) |-> HeightOf(h, tree, n)]

\* Height is what Heights gives for the root.
LEMMA HeightIsRootsHeight ==
    ASSUME NEW tree PROVE Height(tree) = Heights(tree)[Len(tree)]
BY DEF Height, Heights, HeightOf

\* The children of a node come before it.
LEMMA TreeFacts ==
    ASSUME NEW tree, IsAst(tree), NEW n \in 1 .. Len(tree)
    PROVE  /\ Len(tree) \in Nat /\ DOMAIN tree = 1 .. Len(tree)
           /\ Children(tree[n]) \subseteq 1 .. n - 1
           /\ tree[n] \in AstNode
           /\ \/ tree[n].type \in LeafType /\ Children(tree[n]) = {}
              \/ tree[n].type \in BinaryType
                 /\ Children(tree[n]) = {tree[n].left, tree[n].right}
              \/ tree[n].type \in UnaryType \cup {"REPEAT"}
                 /\ Children(tree[n]) = {tree[n].left}
<1>1. tree \in Seq(AstNode) /\ n \in DOMAIN tree
  BY DEF IsAst
<1>2. /\ Len(tree) \in Nat /\ DOMAIN tree = 1 .. Len(tree)
      /\ Children(tree[n]) \subseteq 1 .. n - 1
      /\ tree[n] \in AstNode
  BY <1>1 DEF IsAst
<1>3. tree[n].type \in LeafType \cup BinaryType \cup UnaryType \cup {"REPEAT"}
  BY <1>2 DEF AstNode, AstType
<1>4. /\ LeafType \cap BinaryType = {} /\ LeafType \cap UnaryType = {}
      /\ BinaryType \cap UnaryType = {} /\ "REPEAT" \notin LeafType \cup BinaryType
  BY DEF LeafType, BinaryType, UnaryType
<1> QED
  BY <1>2, <1>3, <1>4 DEF Children

\* A height is a number.
LEMMA HeightOfNat ==
    ASSUME NEW tree, IsAst(tree), NEW n \in 1 .. Len(tree), NEW h,
           \A c \in 1 .. n - 1 : h[c] \in Nat
    PROVE  /\ HeightOf(h, tree, n) \in Nat /\ HeightOf(h, tree, n) >= 1
           /\ \A c \in Children(tree[n]) : HeightOf(h, tree, n) >= 1 + h[c]
           /\ tree[n].type = "REPEAT" =>
                 HeightOf(h, tree, n) = 2 + h[tree[n].left]
<1>1. CASE tree[n].type \in LeafType
  <2>1. Children(tree[n]) = {} /\ tree[n].type # "REPEAT"
    BY <1>1, TreeFacts DEF LeafType, UnaryType, BinaryType
  <2>2. HeightOf(h, tree, n) = 1
    BY <1>1 DEF HeightOf
  <2> QED
    BY <2>1, <2>2
<1>2. CASE tree[n].type \in BinaryType
  <2> DEFINE a == h[tree[n].left]
             b == h[tree[n].right]
  <2>1. /\ Children(tree[n]) = {tree[n].left, tree[n].right}
        /\ tree[n].type \notin LeafType /\ tree[n].type # "REPEAT"
        /\ Children(tree[n]) \subseteq 1 .. n - 1
    BY <1>2, TreeFacts DEF LeafType, UnaryType, BinaryType
  <2>2. a \in Nat /\ b \in Nat
    BY <2>1
  <2>3. {h[c] : c \in Children(tree[n])} = {a, b}
    BY <2>1
  <2>4. HeightOf(h, tree, n) = 1 + Max({a, b})
    BY <2>1, <2>3 DEF HeightOf
  <2>5. \A c \in Children(tree[n]) : h[c] \in {a, b}
    BY <2>1
  <2> HIDE DEF a, b
  <2> DEFINE m == Max({a, b})
  <2>6. m \in Nat /\ m >= a /\ m >= b
    BY <2>2, MaxOfTwo
  <2> HIDE DEF m
  <2>7. HeightOf(h, tree, n) = 1 + m
    BY <2>4 DEF m
  <2>8. \A c \in Children(tree[n]) : m >= h[c] /\ h[c] \in Nat
    BY <2>2, <2>5, <2>6
  <2> QED
    BY <2>1, <2>6, <2>7, <2>8, SMTT(30)
<1>3. CASE tree[n].type \in UnaryType \cup {"REPEAT"}
  <2> DEFINE a == h[tree[n].left]
             extra == IF tree[n].type = "REPEAT" THEN 2 ELSE 1
  <2>1. /\ Children(tree[n]) = {tree[n].left}
        /\ tree[n].type \notin LeafType
        /\ Children(tree[n]) \subseteq 1 .. n - 1
    BY <1>3, TreeFacts DEF LeafType, UnaryType, BinaryType
  <2>2. a \in Nat
    BY <2>1
  <2>3. {h[c] : c \in Children(tree[n])} = {a}
    BY <2>1
  <2>4. HeightOf(h, tree, n) = extra + Max({a})
    BY <2>1, <2>3 DEF HeightOf
  <2>5. \A c \in Children(tree[n]) : h[c] = a
    BY <2>1
  <2>6. extra \in {1, 2} /\ (tree[n].type = "REPEAT" => extra = 2)
    OBVIOUS
  <2>7. HeightOf(h, tree, n) = extra + a
    BY <2>2, <2>4, MaxOfOne
  <2> HIDE DEF extra
  <2> QED
    BY <2>2, <2>5, <2>6, <2>7
<1> QED
  BY <1>1, <1>2, <1>3, TreeFacts

\* There is a function of heights.
LEMMA HeightsExist ==
    ASSUME NEW tree, IsAst(tree)
    PROVE  \E h : h = [n \in 1 .. Len(tree) |-> HeightOf(h, tree, n)]
<1> DEFINE Good(k) == \E h \in [1 .. k -> Nat] :
                         \A n \in 1 .. k : h[n] = HeightOf(h, tree, n)
           Bad == {k \in 0 .. Len(tree) : ~ Good(k)}
<1>1. Len(tree) \in Nat
  BY DEF IsAst
<1>2. Bad = {}
  <2> SUFFICES ASSUME Bad # {} PROVE FALSE
    OBVIOUS
  <2>1. PICK k \in Bad : \A m \in Bad : k <= m
    <3>1. Bad \in SUBSET Nat
      BY <1>1
    <3> HIDE DEF Bad
    <3> QED
      BY <3>1, LeastNatural
  <2>2. k \in 0 .. Len(tree) /\ ~ Good(k)
    OBVIOUS
  <2>3. k # 0
    <3>1. [n \in 1 .. 0 |-> 0] \in [1 .. 0 -> Nat]
      OBVIOUS
    <3>2. 1 .. 0 = {}
      OBVIOUS
    <3>3. Good(0)
      BY <3>1, <3>2
    <3> QED
      BY <2>2, <3>3
  <2>4. k - 1 \in 0 .. Len(tree) /\ ~ (k <= k - 1) /\ k \in 1 .. Len(tree)
    BY <1>1, <2>2, <2>3
  <2>5. Good(k - 1)
    <3>1. k - 1 \notin Bad
      BY <2>1, <2>4
    <3> QED
      BY <2>4, <3>1
  <2>6. PICK h \in [1 .. k - 1 -> Nat] :
               \A n \in 1 .. k - 1 : h[n] = HeightOf(h, tree, n)
    BY <2>5
  <2> DEFINE g == [n \in 1 .. k |-> IF n = k THEN HeightOf(h, tree, k) ELSE h[n]]
  <2>7. \A c \in 1 .. k - 1 : g[c] = h[c] /\ h[c] \in Nat
    BY <2>4, <2>6
  <2>8. g[k] = HeightOf(h, tree, k) /\ HeightOf(h, tree, k) \in Nat
    BY <2>4, <2>7, HeightOfNat
  <2>9. g \in [1 .. k -> Nat]
    <3>1. \A n \in 1 .. k : n = k \/ n \in 1 .. k - 1
      BY <2>4
    <3> QED
      BY <2>6, <2>8, <3>1
  <2>10. ASSUME NEW n \in 1 .. k PROVE g[n] = HeightOf(g, tree, n)
    <3>1. Children(tree[n]) \subseteq 1 .. k - 1
      <4>1. n \in 1 .. Len(tree) /\ 1 .. n - 1 \subseteq 1 .. k - 1
        BY <1>1, <2>4
      <4> QED
        BY <4>1, TreeFacts
    <3> HIDE DEF g
    <3>2. {g[c] : c \in Children(tree[n])} = {h[c] : c \in Children(tree[n])}
      BY <2>7, <3>1
    <3>3. HeightOf(g, tree, n) = HeightOf(h, tree, n)
      BY <3>2 DEF HeightOf
    <3>4. n = k \/ n \in 1 .. k - 1
      BY <2>4
    <3> QED
      BY <2>6, <2>7, <2>8, <3>3, <3>4
  <2> HIDE DEF g
  <2>11. Good(k)
    BY <2>9, <2>10
  <2> QED
    BY <2>2, <2>11
<1>3. Good(Len(tree))
  <2>1. Len(tree) \in 0 .. Len(tree)
    BY <1>1
  <2> QED
    BY <1>2, <2>1
<1>4. PICK h \in [1 .. Len(tree) -> Nat] :
             \A n \in 1 .. Len(tree) : h[n] = HeightOf(h, tree, n)
  BY <1>3
<1>5. h = [n \in 1 .. Len(tree) |-> HeightOf(h, tree, n)]
  BY <1>4
<1> QED
  BY <1>5

\* A node is higher than its children.
LEMMA HeightsFacts ==
    ASSUME NEW tree, IsAst(tree), NEW n \in 1 .. Len(tree)
    PROVE  /\ Heights(tree)[n] \in Nat /\ Heights(tree)[n] >= 1
           /\ \A c \in Children(tree[n]) :
                 Heights(tree)[c] \in Nat /\ Heights(tree)[n] >= 1 + Heights(tree)[c]
           /\ tree[n].type = "REPEAT" =>
                 Heights(tree)[n] = 2 + Heights(tree)[tree[n].left]
<1> DEFINE h == Heights(tree)
<1>1. h = [m \in 1 .. Len(tree) |-> HeightOf(h, tree, m)]
  BY HeightsExist DEF Heights
<1> HIDE DEF h
<1>2. \A m \in 1 .. Len(tree) : h[m] = HeightOf(h, tree, m)
  BY <1>1
<1> DEFINE Bad == {m \in 1 .. Len(tree) : h[m] \notin Nat}
<1>3. Len(tree) \in Nat
  BY DEF IsAst
<1>4. Bad = {}
  <2> SUFFICES ASSUME Bad # {} PROVE FALSE
    OBVIOUS
  <2>1. PICK k \in Bad : \A m \in Bad : k <= m
    <3>1. Bad \in SUBSET Nat
      BY <1>3
    <3> HIDE DEF Bad
    <3> QED
      BY <3>1, LeastNatural
  <2>2. k \in 1 .. Len(tree) /\ h[k] \notin Nat
    OBVIOUS
  <2>3. \A c \in 1 .. k - 1 : h[c] \in Nat
    <3> TAKE c \in 1 .. k - 1
    <3>1. c \in 1 .. Len(tree) /\ ~ (k <= c)
      BY <1>3, <2>2
    <3> QED
      BY <2>1, <3>1
  <2>4. HeightOf(h, tree, k) \in Nat
    BY <2>2, <2>3, HeightOfNat
  <2> QED
    BY <1>2, <2>2, <2>4
<1>5. \A c \in 1 .. n - 1 : h[c] \in Nat
  <2> TAKE c \in 1 .. n - 1
  <2>1. c \in 1 .. Len(tree)
    BY <1>3
  <2> QED
    BY <1>4, <2>1
<1>6. Children(tree[n]) \subseteq 1 .. n - 1
  BY TreeFacts
<1>7. h[n] = HeightOf(h, tree, n)
  BY <1>2
<1> QED
  BY <1>5, <1>6, <1>7, HeightOfNat DEF h
-----------------------------------------------------------------------------
(* How deep the recursion is.                                              *)

\* The calls there can still be below that of frame f.
Below(f) == IF ast[f.node].type = f.fn THEN Heights(ast)[f.node] - 1
            ELSE Heights(ast)[ast[f.node].left]

DepthOK ==
    ast # <<>> =>
        /\ \A i \in DOMAIN frames : i + Below(frames[i]) <= Height(ast)
        /\ mode = "call" => /\ target \in DOMAIN ast
                            /\ Len(frames) + Heights(ast)[target] <= Height(ast)

\* No node is higher than the root.
LEMMA RootFacts ==
    ASSUME TypeOK, ast # <<>>
    PROVE  /\ Len(ast) \in DOMAIN ast /\ IsAst(ast)
           /\ DOMAIN ast = 1 .. Len(ast) /\ Len(ast) \in Nat \ {0}
           /\ Height(ast) = Heights(ast)[Len(ast)]
           /\ Height(ast) \in Nat /\ Height(ast) >= 1
<1>1. IsAst(ast)
  BY CompilerAssumption DEF TypeOK
<1>2. ast \in Seq(AstNode)
  BY <1>1 DEF IsAst
<1>3. /\ DOMAIN ast = 1 .. Len(ast) /\ Len(ast) \in Nat \ {0}
      /\ Len(ast) \in 1 .. Len(ast)
  BY <1>2
<1> QED
  BY <1>1, <1>3, HeightsFacts, HeightIsRootsHeight

\* What a frame compiles next is nearer to the leaves than its own node.
LEMMA BelowFacts ==
    ASSUME TypeOK, NEW f \in Frame, FrameOK(f, Len(states))
    PROVE  /\ Below(f) \in Nat /\ Below(f) >= 1
           /\ ast[f.node].left \in DOMAIN ast
           /\ Heights(ast)[ast[f.node].left] \in Nat
           /\ Heights(ast)[ast[f.node].left] <= Below(f)
           /\ f.fn = "REPEAT" => 1 + Heights(ast)[ast[f.node].left] <= Below(f)
           /\ f.fn \in BinaryType =>
                 /\ ast[f.node].right \in DOMAIN ast
                 /\ Heights(ast)[ast[f.node].right] \in Nat
                 /\ Heights(ast)[ast[f.node].right] <= Below(f)
<1> DEFINE n == f.node
<1>1. IsAst(ast) /\ n \in DOMAIN ast /\ n \in 1 .. Len(ast) /\ Len(ast) \in Nat
      /\ DOMAIN ast = 1 .. Len(ast)
  BY CompilerAssumption, NodeFacts, TreeFacts DEF TypeOK, FrameOK
<1>2. /\ f.fn \in BinaryType => ast[n].type = f.fn
      /\ f.fn = "REPEAT" => ast[n].type = f.fn
      /\ ast[n].type = f.fn \/ ast[n].type = "REPEAT"
      /\ f.fn \in BinaryType \cup UnaryType \cup {"REPEAT"}
  BY DEF FrameOK, Frame, BinaryType, UnaryType
<1> HIDE DEF n
<1>3. ast[n].left \in Children(ast[n])
      /\ (f.fn \in BinaryType => ast[n].right \in Children(ast[n]))
  <2>1. ast[n].type \in BinaryType \cup UnaryType \cup {"REPEAT"}
    BY <1>2
  <2>2. ast[n].type \notin LeafType
        /\ (f.fn \in BinaryType => ast[n].type \in BinaryType)
    BY <1>2, <2>1 DEF LeafType, BinaryType, UnaryType
  <2> QED
    BY <2>2 DEF Children
<1>4. ast[n].left \in 1 .. Len(ast)
      /\ (f.fn \in BinaryType => ast[n].right \in 1 .. Len(ast))
  <2>1. Children(ast[n]) \subseteq 1 .. n - 1
    BY <1>1, TreeFacts
  <2>2. 1 .. n - 1 \subseteq 1 .. Len(ast)
    BY <1>1
  <2> QED
    BY <1>3, <2>1, <2>2
<1>5. /\ Heights(ast)[n] \in Nat
      /\ \A c \in Children(ast[n]) :
            Heights(ast)[c] \in Nat /\ Heights(ast)[n] >= 1 + Heights(ast)[c]
      /\ ast[n].type = "REPEAT" =>
            Heights(ast)[n] = 2 + Heights(ast)[ast[n].left]
  BY <1>1, HeightsFacts
<1>6. Heights(ast)[ast[n].left] >= 1
  BY <1>1, <1>4, HeightsFacts
<1>7. Below(f) = IF ast[n].type = f.fn THEN Heights(ast)[n] - 1
                 ELSE Heights(ast)[ast[n].left]
  BY DEF Below, n
<1> DEFINE a == Heights(ast)[ast[n].left]
           b == Heights(ast)[ast[n].right]
           h == Heights(ast)[n]
<1>8. /\ a \in Nat /\ a >= 1 /\ h \in Nat /\ h >= 1 + a
      /\ ast[n].type = "REPEAT" => h = 2 + a
      /\ f.fn \in BinaryType => b \in Nat /\ h >= 1 + b
      /\ Below(f) = IF ast[n].type = f.fn THEN h - 1 ELSE a
  BY <1>3, <1>5, <1>6, <1>7
<1> HIDE DEF a, b, h
<1>9. /\ Below(f) \in Nat /\ Below(f) >= 1 /\ a <= Below(f)
      /\ f.fn = "REPEAT" => 1 + a <= Below(f)
      /\ f.fn \in BinaryType => b <= Below(f)
  BY <1>2, <1>8
<1> QED
  BY <1>1, <1>4, <1>8, <1>9 DEF n, a, b

\* The depth that is kept is the bound that is claimed.
LEMMA DepthSuffices == IInv /\ DepthOK => NoDeeperThanTree
<1> SUFFICES ASSUME IInv, DepthOK, ast # <<>> PROVE Len(frames) < Height(ast)
  BY DEF NoDeeperThanTree
<1>1. Height(ast) \in Nat /\ Height(ast) >= 1 /\ Len(frames) \in Nat
  BY InvFacts, RootFacts
<1>2. CASE frames = <<>>
  BY <1>1, <1>2
<1>3. CASE frames # <<>>
  <2>1. Len(frames) \in DOMAIN frames /\ frames[Len(frames)] = Top
        /\ Top \in Frame /\ FrameOK(Top, Len(states))
    BY <1>3, InvFacts, FrontLast, PopKeepsFrames DEF Top
  <2>2. Below(Top) \in Nat /\ Below(Top) >= 1
    BY <2>1, InvFacts, BelowFacts
  <2>3. Len(frames) + Below(Top) <= Height(ast)
    BY <2>1 DEF DepthOK
  <2> QED
    BY <1>1, <2>2, <2>3
<1> QED
  BY <1>2, <1>3

\* The calls that remain fit as before.
LEMMA DepthAfterLeaving ==
    ASSUME IInv, DepthOK, UNCHANGED input, mode' # "call",
           frames' = frames \/ (frames # <<>> /\ frames' = Front(frames))
    PROVE  DepthOK'
<1>1. ast' = ast
  BY DEF input
<1>2. \A i \in DOMAIN frames' : i \in DOMAIN frames /\ frames'[i] = frames[i]
  <2>1. CASE frames' = frames
    BY <2>1
  <2>2. CASE frames # <<>> /\ frames' = Front(frames)
    <3>1. frames \in Seq(Frame)
      BY InvFacts
    <3>2. PICK k \in Nat : /\ DOMAIN frames = 1 .. k
                           /\ DOMAIN Front(frames) = 1 .. k - 1
                           /\ \A i \in 1 .. k - 1 : Front(frames)[i] = frames[i]
      BY ONLY <2>2, <3>1, FrontLast, SMTT(30)
    <3> QED
      BY <2>2, <3>2
  <2> QED
    BY <2>1, <2>2
<1> QED
  BY <1>1, <1>2 DEF DepthOK, Below

\* The frame of node n is pushed; the call below it may be for its child.
LEMMA DepthAfterPush ==
    ASSUME IInv, DepthOK, NEW fn, NEW node, Push(fn, node), ast # <<>>,
           IInv', Len(frames) + 1 + Below(Last(frames')) <= Height(ast),
           mode' = "call" => target' = ast[node].left
    PROVE  DepthOK'
<1> DEFINE f == [fn |-> fn, node |-> node, held |-> NoFragment, index |-> 0]
<1>1. ast' = ast /\ frames' = Append(frames, f) /\ states' = states
  BY DEF Push, input, program
<1>2. f.node = node
  OBVIOUS
<1> HIDE DEF f
<1>3. frames' \in Seq(Frame) /\ frames' # <<>> /\ Last(frames') \in Frame
      /\ FrameOK(Last(frames'), Len(states))
  <2>1. frames' \in Seq(Frame)
    BY DEF IInv, TypeOK
  <2>2. frames' # <<>> /\ Last(frames') = frames'[Len(frames')]
        /\ Len(frames') \in DOMAIN frames' /\ Last(frames') \in Frame
    <3>1. frames' # <<>>
      BY <1>1, InvFacts
    <3> QED
      BY <2>1, <3>1, FrontLast
  <2>3. FrameOK(frames'[Len(frames')], Len(states))
    BY <1>1, <2>2 DEF IInv, FramesOK, FrameOK
  <2> QED
    BY <2>1, <2>2, <2>3
<1>4. frames \in Seq(Frame) /\ Len(frames) \in Nat
  BY InvFacts
<1>5. /\ f \in Frame /\ Last(frames') = f
      /\ DOMAIN frames' = 1 .. Len(frames) + 1 /\ DOMAIN frames = 1 .. Len(frames)
      /\ \A i \in 1 .. Len(frames) : frames'[i] = frames[i]
      /\ frames'[Len(frames) + 1] = f /\ Len(frames') = Len(frames) + 1
  <2>1. /\ DOMAIN frames' = 1 .. Len(frames) + 1
        /\ \A i \in 1 .. Len(frames) : frames'[i] = frames[i]
        /\ frames'[Len(frames) + 1] = f /\ Len(frames') = Len(frames) + 1
    BY <1>1, <1>4
  <2>2. DOMAIN frames = 1 .. Len(frames)
    BY <1>4
  <2>3. Last(frames') = f
    BY <2>1 DEF Last
  <2> QED
    BY <1>3, <2>1, <2>2, <2>3
<1>6. /\ ast[node].left \in DOMAIN ast
      /\ Heights(ast)[ast[node].left] \in Nat
      /\ Heights(ast)[ast[node].left] <= Below(f)
      /\ Below(f) \in Nat
  BY <1>2, <1>3, <1>5, InvFacts, BelowFacts
<1>7. Height(ast) \in Nat
  BY InvFacts, RootFacts
<1>8. \A i \in DOMAIN frames' : i + Below(frames'[i]) <= Height(ast)
  <2> TAKE i \in DOMAIN frames'
  <2>1. i \in DOMAIN frames \/ i = Len(frames) + 1
    BY <1>4, <1>5
  <2> QED
    BY <1>5, <2>1 DEF DepthOK
<1>9. mode' = "call" => Len(frames') + Heights(ast)[target'] <= Height(ast)
  BY <1>4, <1>5, <1>6, <1>7
<1> QED
  BY <1>1, <1>6, <1>8, <1>9 DEF DepthOK, Below

\* The topmost frame goes on with its node.
LEMMA DepthAfterAdvance ==
    ASSUME IInv, DepthOK, frames # <<>>, UNCHANGED input, NEW f,
           frames' = Append(Front(frames), f),
           f.fn = Top.fn, f.node = Top.node,
           mode' = "call" => /\ target' \in DOMAIN ast
                             /\ Heights(ast)[target'] \in Nat
                             /\ Heights(ast)[target'] <= Below(Top)
    PROVE  DepthOK'
<1>1. ast' = ast
  BY DEF input
<1>2. /\ Front(frames) \in Seq(Frame) /\ Len(Front(frames)) = Len(frames) - 1
      /\ DOMAIN frames = 1 .. Len(frames) /\ Len(frames) \in Nat \ {0}
      /\ \A i \in 1 .. Len(frames) - 1 : Front(frames)[i] = frames[i]
      /\ Top = frames[Len(frames)] /\ Top \in Frame
  BY InvFacts, FrontLast DEF Top
<1>3. /\ Len(frames') = Len(frames) /\ DOMAIN frames' = DOMAIN frames
      /\ \A i \in 1 .. Len(frames) - 1 : frames'[i] = frames[i]
      /\ frames'[Len(frames)] = f
  BY <1>2
<1>4. FrameOK(Top, Len(states))
  BY InvFacts, PopKeepsFrames
<1>5. Below(f) = Below(Top) /\ Below(Top) \in Nat
  BY <1>2, <1>4, InvFacts, BelowFacts DEF Below
<1> SUFFICES ASSUME ast # <<>>
             PROVE  /\ \A i \in DOMAIN frames' : i + Below(frames'[i]) <= Height(ast)
                    /\ mode' = "call" =>
                          /\ target' \in DOMAIN ast
                          /\ Len(frames') + Heights(ast)[target'] <= Height(ast)
  BY <1>1 DEF DepthOK, Below
<1>6. \A i \in DOMAIN frames : i + Below(frames[i]) <= Height(ast)
  BY DEF DepthOK
<1>7. \A i \in DOMAIN frames' : i + Below(frames'[i]) <= Height(ast)
  <2> TAKE i \in DOMAIN frames'
  <2>1. i \in 1 .. Len(frames) - 1 \/ i = Len(frames)
    BY <1>2, <1>3
  <2> QED
    BY <1>2, <1>3, <1>5, <1>6, <2>1
<1>8. Height(ast) \in Nat /\ Len(frames) + Below(Top) <= Height(ast)
  BY <1>2, <1>6, InvFacts, RootFacts
<1> QED
  BY <1>2, <1>3, <1>5, <1>7, <1>8

\* Every step keeps the calls within the height of the tree.
LEMMA StepDepthOK == IInv /\ IInv' /\ DepthOK /\ [Next]_vars => DepthOK'
<1> SUFFICES ASSUME IInv, IInv', DepthOK, [Next]_vars PROVE DepthOK'
  OBVIOUS
<1>1. CASE UNCHANGED vars
  BY <1>1 DEF vars, input, control, DepthOK, Below
<1>2. CASE RefuseProgram \/ CallNull \/ RefuseBounds \/ CompileLeaf
  <2>1. UNCHANGED input /\ frames' = frames /\ mode' # "call"
    BY <1>2 DEF RefuseProgram, CallNull, RefuseBounds, CompileLeaf,
                SingleOutputState, Fail, Yield
  <2> QED
    BY <2>1, DepthAfterLeaving
<1>3. CASE ReturnRight \/ ReturnBranches \/ ReturnLoop \/ ReturnOptional
  <2>1. UNCHANGED input /\ frames # <<>> /\ frames' = Front(frames)
        /\ mode' # "call"
    BY <1>3 DEF ReturnRight, ReturnBranches, ReturnLoop, ReturnOptional,
                SplitFails, IsReturn, Pop, Fail, Yield
  <2> QED
    BY <2>1, DepthAfterLeaving
<1>4. CASE RepeatEnds
  <2>1. UNCHANGED input /\ frames # <<>> /\ frames' = Front(frames)
        /\ mode' # "call"
    BY <1>4, RepeatFacts DEF RepeatEnds, SingleOutputState, Pop, Fail, Yield
  <2> QED
    BY <2>1, DepthAfterLeaving
<1>5. CASE Unwind
  <2>1. UNCHANGED input /\ frames # <<>> /\ frames' = Front(frames)
        /\ mode' # "call"
    BY <1>5 DEF Unwind, Pop
  <2> QED
    BY <2>1, DepthAfterLeaving
<1>6. CASE Finish \/ FinishFailed
  <2>1. UNCHANGED input /\ frames' = frames /\ mode' # "call"
    BY <1>6 DEF Finish, FinishFailed, Fail
  <2> QED
    BY <2>1, DepthAfterLeaving
<1>7. CASE Begin \/ RepeatCopy
  <2>1. ast' = ast /\ frames' = frames
    BY <1>7 DEF Begin, RepeatCopy, input
  <2>2. CASE ast = <<>>
    BY <2>1, <2>2 DEF DepthOK
  <2> SUFFICES ASSUME ast # <<>>
               PROVE  target' \in DOMAIN ast
                      /\ Len(frames) + Heights(ast)[target'] <= Height(ast)
    BY <2>1, <2>2 DEF DepthOK, Below
  <2>3. /\ Len(ast) \in DOMAIN ast /\ Height(ast) = Heights(ast)[Len(ast)]
        /\ Height(ast) \in Nat
    BY InvFacts, RootFacts
  <2>4. CASE Begin
    <3>1. Len(frames) = 0 /\ target' = Len(ast)
      BY <2>4 DEF Begin, IInv, ModeOK
    <3> QED
      BY <2>3, <3>1
  <2>5. CASE RepeatCopy
    <3>1. mode = "repeat" /\ target' = Repeat.left
      BY <2>5 DEF RepeatCopy, IsRepeating
    <3>2. frames # <<>> /\ Top \in Frame /\ FrameOK(Top, Len(states))
      BY <3>1, RepeatFacts
    <3>3. /\ Repeat.left \in DOMAIN ast /\ Heights(ast)[Repeat.left] \in Nat
          /\ Heights(ast)[Repeat.left] <= Below(Top) /\ Below(Top) \in Nat
      BY <3>2, InvFacts, BelowFacts DEF Repeat
    <3>4. Len(frames) \in Nat /\ Len(frames) + Below(Top) <= Height(ast)
      BY <3>2, InvFacts, FrontLast DEF DepthOK, Top
    <3> QED
      BY <2>3, <3>1, <3>3, <3>4
  <2> QED
    BY <1>7, <2>4, <2>5
<1>8. CASE CallChild
  <2>1. /\ mode = "call" /\ target # NULL_NODE /\ Push(Node.type, target)
        /\ target' = Node.left
    BY <1>8 DEF CallChild, IsCall
  <2>2. target \in DOMAIN ast /\ ast # <<>>
    BY <2>1 DEF IInv, TypeOK, NULL_NODE
  <2>3. Last(frames') = [fn |-> Node.type, node |-> target,
                         held |-> NoFragment, index |-> 0]
    BY <2>1, InvFacts DEF Push, Last
  <2>4. Below(Last(frames')) = Heights(ast)[target] - 1
    BY <2>3 DEF Below, Node
  <2>5. Heights(ast)[target] \in Nat /\ Len(frames) \in Nat
        /\ Len(frames) + Heights(ast)[target] <= Height(ast)
        /\ Height(ast) \in Nat
    BY <2>1, <2>2, InvFacts, RootFacts, HeightsFacts DEF DepthOK
  <2>6. Len(frames) + 1 + Below(Last(frames')) <= Height(ast)
    BY <2>4, <2>5
  <2> QED
    BY <2>1, <2>2, <2>6, DepthAfterPush DEF Node
<1>9. CASE CallRepeat
  <2>1. /\ mode = "call" /\ target # NULL_NODE /\ Push("REPEAT", target)
        /\ Node.type = "REPEAT" /\ mode' = "repeat"
    BY <1>9 DEF CallRepeat, IsCall, Goto
  <2>2. target \in DOMAIN ast /\ ast # <<>>
    BY <2>1 DEF IInv, TypeOK, NULL_NODE
  <2>3. Last(frames') = [fn |-> "REPEAT", node |-> target,
                         held |-> NoFragment, index |-> 0]
    BY <2>1, InvFacts DEF Push, Last
  <2>4. Below(Last(frames')) = Heights(ast)[target] - 1
    BY <2>1, <2>3 DEF Below, Node
  <2>5. Heights(ast)[target] \in Nat /\ Len(frames) \in Nat
        /\ Len(frames) + Heights(ast)[target] <= Height(ast)
        /\ Height(ast) \in Nat
    BY <2>1, <2>2, InvFacts, RootFacts, HeightsFacts DEF DepthOK
  <2>6. Len(frames) + 1 + Below(Last(frames')) <= Height(ast)
    BY <2>4, <2>5
  <2> QED
    BY <2>1, <2>2, <2>6, DepthAfterPush
<1>10. CASE RepeatRest
  <2> DEFINE fn == IF Repeat.maximum = UNBOUNDED THEN "STAR" ELSE "OPTIONAL"
  <2>1. mode = "repeat" /\ Push(fn, Top.node) /\ target' = Repeat.left
    BY <1>10 DEF RepeatRest, IsRepeating
  <2>2. /\ frames # <<>> /\ Top \in Frame /\ FrameOK(Top, Len(states))
        /\ Top.fn = "REPEAT" /\ Repeat.type = "REPEAT"
        /\ Top.node \in DOMAIN ast
    BY <2>1, RepeatFacts
  <2>3. /\ Heights(ast)[Repeat.left] \in Nat /\ Below(Top) \in Nat
        /\ 1 + Heights(ast)[Repeat.left] <= Below(Top)
    BY <2>2, InvFacts, BelowFacts DEF Repeat
  <2>4. fn \in UnaryType /\ fn # "REPEAT"
    BY DEF UnaryType
  <2> HIDE DEF fn
  <2>5. Last(frames') = [fn |-> fn, node |-> Top.node,
                         held |-> NoFragment, index |-> 0]
    BY <2>1, InvFacts DEF Push, Last
  <2>6. Below(Last(frames')) = Heights(ast)[Repeat.left]
    BY <2>2, <2>4, <2>5 DEF Below, Repeat
  <2>7. ast # <<>>
    BY <2>2
  <2>8. Len(frames) \in Nat /\ Len(frames) + Below(Top) <= Height(ast)
        /\ Height(ast) \in Nat
    BY <2>2, <2>7, InvFacts, FrontLast, RootFacts DEF DepthOK, Top
  <2>9. Len(frames) + 1 + Below(Last(frames')) <= Height(ast)
    BY <2>3, <2>6, <2>8
  <2> QED
    BY <2>1, <2>7, <2>9, DepthAfterPush DEF Repeat
<1>11. CASE ReturnLeft
  <2> DEFINE f == [Top EXCEPT !.held = fragment, !.index = 1]
  <2>1. /\ IsReturn(BinaryType) /\ UNCHANGED input
        /\ frames' = Append(Front(frames), f)
        /\ target' = ast[Top.node].right
    BY <1>11 DEF ReturnLeft
  <2>2. /\ frames # <<>> /\ Top.fn \in BinaryType
        /\ Top \in Frame /\ FrameOK(Top, Len(states))
    BY <2>1, ReturnFacts
  <2>3. f.fn = Top.fn /\ f.node = Top.node
    BY <2>2 DEF Frame
  <2> HIDE DEF f
  <2> QED
    BY <2>1, <2>2, <2>3, InvFacts, BelowFacts, DepthAfterAdvance
<1>12. CASE ReturnPart
  <2> DEFINE f == [Top EXCEPT !.held = fragment, !.index = 1]
             g == [Top EXCEPT !.held.out = fragment.out, !.index = @ + 1]
  <2>1. /\ IsReturn({"REPEAT"}) /\ UNCHANGED input /\ mode' # "call"
        /\ frames' = Append(Front(frames), f) \/ frames' = Append(Front(frames), g)
    BY <1>12 DEF ReturnPart, Goto
  <2>2. frames # <<>> /\ Top \in Frame
    BY <2>1, ReturnFacts
  <2>3. f.fn = Top.fn /\ f.node = Top.node /\ g.fn = Top.fn /\ g.node = Top.node
    BY <2>2 DEF Frame
  <2> HIDE DEF f, g
  <2> QED
    BY <2>1, <2>2, <2>3, DepthAfterAdvance
<1> QED
  BY <1>1, <1>2, <1>3, <1>4, <1>5, <1>6, <1>7, <1>8, <1>9, <1>10, <1>11, <1>12
  DEF Next

(* The recursion comes back: it is never deeper than the tree is high, for *)
(* trees of any size and counted repetitions nested in any way.            *)
THEOREM DepthBounded == Spec => []NoDeeperThanTree
<1>1. Init => IInv /\ DepthOK
  <2>1. Init => DepthOK
    BY DEF Init, DepthOK
  <2> QED
    BY <2>1, InitIInv
<1>2. IInv /\ DepthOK /\ [Next]_vars => (IInv /\ DepthOK)'
  BY StepIInv, StepDepthOK
<1>3. IInv /\ DepthOK => NoDeeperThanTree
  BY DepthSuffices
<1> QED
  BY <1>1, <1>2, <1>3, PTL DEF Spec
-----------------------------------------------------------------------------
(* How many states a tree is compiled to.  The function is shown to exist  *)
(* as that of the heights was.                                             *)

SizeOf(h, tree, n) ==
    LET node == tree[n]
        child == h[node.left]
    IN  CASE node.type \in LeafType -> 1
          [] node.type = "CONCATENATION" -> child + h[node.right]
          [] node.type = "ALTERNATION" -> child + h[node.right] + 1
          [] node.type \in UnaryType -> child + 1
          [] OTHER -> IF node.maximum = UNBOUNDED
                      THEN (node.minimum + 1) * child + 1
                      ELSE IF node.maximum = 0 THEN 1
                      ELSE node.maximum * (child + 1) - node.minimum

Sizes(tree) == CHOOSE h : h = [n \in 1 .. Len(tree) |-> SizeOf(h, tree, n)]

\* StatesOf is what Sizes gives for the root.
LEMMA StatesOfIsRootsSize ==
    ASSUME NEW tree PROVE StatesOf(tree) = Sizes(tree)[Len(tree)]
BY DEF StatesOf, Sizes, SizeOf

\* SizeOf without its CASE.
LEMMA SizeOfCases ==
    ASSUME NEW tree, IsAst(tree), NEW n \in 1 .. Len(tree), NEW h
    PROVE  /\ tree[n].type \in LeafType => SizeOf(h, tree, n) = 1
           /\ tree[n].type = "CONCATENATION" =>
                 SizeOf(h, tree, n) = h[tree[n].left] + h[tree[n].right]
           /\ tree[n].type = "ALTERNATION" =>
                 SizeOf(h, tree, n) = h[tree[n].left] + h[tree[n].right] + 1
           /\ tree[n].type \in UnaryType =>
                 SizeOf(h, tree, n) = h[tree[n].left] + 1
           /\ tree[n].type = "REPEAT" =>
                 SizeOf(h, tree, n) =
                    IF tree[n].maximum = UNBOUNDED
                    THEN (tree[n].minimum + 1) * h[tree[n].left] + 1
                    ELSE IF tree[n].maximum = 0 THEN 1
                    ELSE tree[n].maximum * (h[tree[n].left] + 1) - tree[n].minimum
<1> DEFINE type == tree[n].type
<1>1. /\ type \in LeafType => /\ type # "CONCATENATION" /\ type # "ALTERNATION"
                              /\ type \notin UnaryType /\ type # "REPEAT"
      /\ type \in UnaryType => /\ type # "CONCATENATION" /\ type # "ALTERNATION"
                               /\ type # "REPEAT" /\ type \notin LeafType
      /\ type = "CONCATENATION" => type \notin LeafType /\ type \notin UnaryType
      /\ type = "ALTERNATION" => type \notin LeafType /\ type \notin UnaryType
      /\ type = "REPEAT" => type \notin LeafType /\ type \notin UnaryType
  BY DEF LeafType, UnaryType
<1> DEFINE node == tree[n]
           child == h[node.left]
           both == child + h[node.right]
           repeated == IF node.maximum = UNBOUNDED
                       THEN (node.minimum + 1) * child + 1
                       ELSE IF node.maximum = 0 THEN 1
                       ELSE node.maximum * (child + 1) - node.minimum
<1>2. SizeOf(h, tree, n) =
         CASE type \in LeafType -> 1
           [] type = "CONCATENATION" -> both
           [] type = "ALTERNATION" -> both + 1
           [] type \in UnaryType -> child + 1
           [] OTHER -> repeated
  BY DEF SizeOf
<1> HIDE DEF type, both, repeated
<1>3. type \in LeafType => SizeOf(h, tree, n) = 1
  BY <1>1, <1>2
<1>4. type = "CONCATENATION" => SizeOf(h, tree, n) = both
  BY <1>1, <1>2
<1>5. type = "ALTERNATION" => SizeOf(h, tree, n) = both + 1
  BY <1>1, <1>2
<1>6. type \in UnaryType => SizeOf(h, tree, n) = child + 1
  BY <1>1, <1>2
<1>7. type = "REPEAT" => SizeOf(h, tree, n) = repeated
  BY <1>1, <1>2
<1> QED
  BY <1>3, <1>4, <1>5, <1>6, <1>7 DEF type, both, repeated

\* A size is a number.
LEMMA SizeOfInt ==
    ASSUME NEW tree, IsAst(tree), NEW n \in 1 .. Len(tree), NEW h,
           \A c \in 1 .. n - 1 : h[c] \in Int
    PROVE  SizeOf(h, tree, n) \in Int
<1>1. /\ tree[n].minimum \in Nat /\ tree[n].maximum \in Int
      /\ tree[n].type \in LeafType \/ h[tree[n].left] \in Int
      /\ tree[n].type \in BinaryType => h[tree[n].right] \in Int
  <2>1. tree[n] \in AstNode
    BY TreeFacts
  <2>2. tree[n].minimum \in Nat /\ tree[n].maximum \in Int
    BY <2>1 DEF AstNode, UNBOUNDED
  <2>3. /\ tree[n].type \in LeafType \/ tree[n].left \in 1 .. n - 1
        /\ tree[n].type \in BinaryType => tree[n].right \in 1 .. n - 1
    BY TreeFacts DEF Children
  <2> QED
    BY <2>2, <2>3
<1>2. /\ tree[n].type \in LeafType \cup BinaryType \cup UnaryType \cup {"REPEAT"}
      /\ tree[n].type \in BinaryType =>
            tree[n].type = "CONCATENATION" \/ tree[n].type = "ALTERNATION"
  BY TreeFacts DEF BinaryType
<1> DEFINE a == h[tree[n].left]
           b == h[tree[n].right]
           least == tree[n].minimum
           most == tree[n].maximum
<1>3. CASE tree[n].type \in LeafType
  BY <1>3, SizeOfCases
<1>4. CASE tree[n].type \in BinaryType
  <2>1. SizeOf(h, tree, n) \in {a + b, a + b + 1}
    BY <1>2, <1>4, SizeOfCases
  <2>2. a \in Int /\ b \in Int
    BY <1>1, <1>4 DEF LeafType, BinaryType
  <2> HIDE DEF a, b
  <2> QED
    BY <2>1, <2>2
<1>5. CASE tree[n].type \in UnaryType
  <2>1. SizeOf(h, tree, n) = a + 1 /\ a \in Int
    BY <1>1, <1>5, SizeOfCases DEF LeafType, UnaryType
  <2> QED
    BY <2>1
<1>6. CASE tree[n].type = "REPEAT"
  <2>1. SizeOf(h, tree, n) \in {(least + 1) * a + 1, 1, most * (a + 1) - least}
    BY <1>6, SizeOfCases
  <2>2. a \in Int /\ least \in Int /\ most \in Int
    BY <1>1, <1>6 DEF LeafType
  <2> HIDE DEF a, least, most
  <2>3. (least + 1) * a \in Int /\ most * (a + 1) \in Int
    BY <2>2
  <2> QED
    BY <2>1, <2>2, <2>3
<1> QED
  BY <1>2, <1>3, <1>4, <1>5, <1>6

\* A size depends on the children's sizes only.
LEMMA SizeOfAgrees ==
    ASSUME NEW tree, IsAst(tree), NEW n \in 1 .. Len(tree), NEW g, NEW h,
           \A c \in 1 .. n - 1 : g[c] = h[c]
    PROVE  SizeOf(g, tree, n) = SizeOf(h, tree, n)
<1>1. /\ tree[n].type \in LeafType \/ tree[n].left \in 1 .. n - 1
      /\ tree[n].type \in BinaryType => tree[n].right \in 1 .. n - 1
      /\ tree[n].type \in LeafType \cup BinaryType \cup UnaryType \cup {"REPEAT"}
  BY TreeFacts DEF Children
<1>2. /\ tree[n].type \in LeafType \/ g[tree[n].left] = h[tree[n].left]
      /\ tree[n].type \in BinaryType => g[tree[n].right] = h[tree[n].right]
  BY <1>1
<1>3. CASE tree[n].type \in LeafType
  BY <1>3, SizeOfCases
<1>4. CASE tree[n].type \in BinaryType
  <2>1. tree[n].type = "CONCATENATION" \/ tree[n].type = "ALTERNATION"
    BY <1>4 DEF BinaryType
  <2>2. g[tree[n].left] = h[tree[n].left] /\ g[tree[n].right] = h[tree[n].right]
    BY <1>2, <1>4 DEF LeafType, BinaryType
  <2> QED
    BY <2>1, <2>2, SizeOfCases
<1>5. CASE tree[n].type \in UnaryType
  <2>1. g[tree[n].left] = h[tree[n].left]
    BY <1>2, <1>5 DEF LeafType, UnaryType
  <2> QED
    BY <1>5, <2>1, SizeOfCases
<1>6. CASE tree[n].type = "REPEAT"
  <2>1. g[tree[n].left] = h[tree[n].left]
    BY <1>2, <1>6 DEF LeafType
  <2> QED
    BY <1>6, <2>1, SizeOfCases
<1> QED
  BY <1>1, <1>3, <1>4, <1>5, <1>6

\* There is a function of sizes.
LEMMA SizesExist ==
    ASSUME NEW tree, IsAst(tree)
    PROVE  \E h : h = [n \in 1 .. Len(tree) |-> SizeOf(h, tree, n)]
<1> DEFINE Good(k) == \E h \in [1 .. k -> Int] :
                         \A n \in 1 .. k : h[n] = SizeOf(h, tree, n)
           Bad == {k \in 0 .. Len(tree) : ~ Good(k)}
<1>1. Len(tree) \in Nat
  BY DEF IsAst
<1>2. Bad = {}
  <2> SUFFICES ASSUME Bad # {} PROVE FALSE
    OBVIOUS
  <2>1. PICK k \in Bad : \A m \in Bad : k <= m
    <3>1. Bad \in SUBSET Nat
      BY <1>1
    <3> HIDE DEF Bad
    <3> QED
      BY <3>1, LeastNatural
  <2>2. k \in 0 .. Len(tree) /\ ~ Good(k)
    OBVIOUS
  <2>3. k # 0
    <3>1. [n \in 1 .. 0 |-> 0] \in [1 .. 0 -> Int]
      OBVIOUS
    <3>2. 1 .. 0 = {}
      OBVIOUS
    <3>3. Good(0)
      BY <3>1, <3>2
    <3> QED
      BY <2>2, <3>3
  <2>4. k - 1 \in 0 .. Len(tree) /\ ~ (k <= k - 1) /\ k \in 1 .. Len(tree)
    BY <1>1, <2>2, <2>3
  <2>5. Good(k - 1)
    <3>1. k - 1 \notin Bad
      BY <2>1, <2>4
    <3> QED
      BY <2>4, <3>1
  <2>6. PICK h \in [1 .. k - 1 -> Int] :
               \A n \in 1 .. k - 1 : h[n] = SizeOf(h, tree, n)
    BY <2>5
  <2> DEFINE g == [n \in 1 .. k |-> IF n = k THEN SizeOf(h, tree, k) ELSE h[n]]
  <2>7. \A c \in 1 .. k - 1 : g[c] = h[c] /\ h[c] \in Int
    BY <2>4, <2>6
  <2>8. g[k] = SizeOf(h, tree, k) /\ SizeOf(h, tree, k) \in Int
    BY <2>4, <2>7, SizeOfInt
  <2>9. g \in [1 .. k -> Int]
    <3>1. \A n \in 1 .. k : n = k \/ n \in 1 .. k - 1
      BY <2>4
    <3> QED
      BY <2>6, <2>8, <3>1
  <2>10. ASSUME NEW n \in 1 .. k PROVE g[n] = SizeOf(g, tree, n)
    <3> HIDE DEF g
    <3>1. n \in 1 .. Len(tree) /\ \A c \in 1 .. n - 1 : c \in 1 .. k - 1
      BY <1>1, <2>4
    <3>2. \A c \in 1 .. n - 1 : g[c] = h[c]
      BY <2>7, <3>1
    <3>3. SizeOf(g, tree, n) = SizeOf(h, tree, n)
      BY <3>1, <3>2, SizeOfAgrees
    <3>4. n = k \/ n \in 1 .. k - 1
      BY <2>4
    <3> QED
      BY <2>6, <2>7, <2>8, <3>3, <3>4
  <2> HIDE DEF g
  <2>11. Good(k)
    BY <2>9, <2>10
  <2> QED
    BY <2>2, <2>11
<1>3. Good(Len(tree))
  <2>1. Len(tree) \in 0 .. Len(tree)
    BY <1>1
  <2> QED
    BY <1>2, <2>1
<1>4. PICK h \in [1 .. Len(tree) -> Int] :
             \A n \in 1 .. Len(tree) : h[n] = SizeOf(h, tree, n)
  BY <1>3
<1>5. h = [n \in 1 .. Len(tree) |-> SizeOf(h, tree, n)]
  BY <1>4
<1> QED
  BY <1>5

\* The size of each type of node, from those of its children.
LEMMA SizesFacts ==
    ASSUME NEW tree, IsAst(tree)
    PROVE  \A n \in 1 .. Len(tree) :
              /\ Sizes(tree)[n] \in Int
              /\ Sizes(tree)[n] = SizeOf(Sizes(tree), tree, n)
<1> DEFINE h == Sizes(tree)
<1>1. h = [m \in 1 .. Len(tree) |-> SizeOf(h, tree, m)]
  BY SizesExist DEF Sizes
<1> HIDE DEF h
<1>2. \A m \in 1 .. Len(tree) : h[m] = SizeOf(h, tree, m)
  BY <1>1
<1> DEFINE Bad == {m \in 1 .. Len(tree) : h[m] \notin Int}
<1>3. Len(tree) \in Nat
  BY DEF IsAst
<1>4. Bad = {}
  <2> SUFFICES ASSUME Bad # {} PROVE FALSE
    OBVIOUS
  <2>1. PICK k \in Bad : \A m \in Bad : k <= m
    <3>1. Bad \in SUBSET Nat
      BY <1>3
    <3> HIDE DEF Bad
    <3> QED
      BY <3>1, LeastNatural
  <2>2. k \in 1 .. Len(tree) /\ h[k] \notin Int
    OBVIOUS
  <2>3. \A c \in 1 .. k - 1 : h[c] \in Int
    <3> TAKE c \in 1 .. k - 1
    <3>1. c \in 1 .. Len(tree) /\ ~ (k <= c)
      BY <1>3, <2>2
    <3> QED
      BY <2>1, <3>1
  <2>4. SizeOf(h, tree, k) \in Int
    BY <2>2, <2>3, SizeOfInt
  <2> QED
    BY <1>2, <2>2, <2>4
<1> QED
  BY <1>2, <1>4 DEF h
-----------------------------------------------------------------------------
(* Every state there is belongs to a part of the tree that is compiled.    *)

\* The states of the children that frame f has already compiled, of the one
\* it waits for, and of the whole that it returns.
DoneParts(node, rounds, child) ==
    IF rounds <= node.minimum THEN rounds * child
    ELSE IF node.maximum = UNBOUNDED THEN node.minimum * child + child + 1
    ELSE node.minimum * child + (rounds - node.minimum) * (child + 1)

Done(f) ==
    IF f.fn = "REPEAT"
    THEN DoneParts(ast[f.node], f.index, Sizes(ast)[ast[f.node].left])
    ELSE IF f.index = 0 THEN 0 ELSE Sizes(ast)[ast[f.node].left]

Pending(f) ==
    IF f.fn = "REPEAT"
    THEN IF f.index < ast[f.node].minimum THEN Sizes(ast)[ast[f.node].left]
         ELSE Sizes(ast)[ast[f.node].left] + 1
    ELSE IF f.index = 0 THEN Sizes(ast)[ast[f.node].left]
    ELSE Sizes(ast)[ast[f.node].right]

Whole(f) == IF ast[f.node].type = f.fn THEN Sizes(ast)[f.node]
            ELSE Sizes(ast)[ast[f.node].left] + 1

\* What the frames wait for, from the root down to the call they end in.
Expected(frs) == IF frs = <<>> THEN Sizes(ast)[Len(ast)] ELSE Pending(Last(frs))

Linked(frs) == \A i \in DOMAIN frs :
                  Whole(frs[i]) = IF i = 1 THEN Sizes(ast)[Len(ast)]
                                  ELSE Pending(frs[i - 1])

\* `count` is the number of states of all that the frames have compiled.
Counts(frs, count) == \E b \in [Nat -> Int] :
                         /\ b[0] = 0 /\ count = b[Len(frs)]
                         /\ \A i \in DOMAIN frs : b[i] = b[i - 1] + Done(frs[i])

\* A repetition has parts left, but for the one that has just got its last.
RoundsLeft(frs, doing) ==
    \A i \in DOMAIN frs :
       frs[i].fn = "REPEAT" =>
          \/ frs[i].index < Parts(ast[frs[i].node])
          \/ /\ i = Len(frs) /\ doing = "repeat"
             /\ frs[i].index = Parts(ast[frs[i].node])

Counted ==
    /\ Linked(frames) /\ RoundsLeft(frames, mode)
    /\ mode = "call" => /\ target \in DOMAIN ast
                        /\ Sizes(ast)[target] = Expected(frames)
    /\ Counts(frames, IF mode = "return" THEN Len(states) - Expected(frames)
                      ELSE Len(states))

IsCounting == ast # <<>> /\ given = "empty"

SizeOK ==
    /\ HasCompiled => IsCounting /\ Len(states) = Sizes(ast)[Len(ast)] + 1
    /\ ~ IsCounting => \/ mode \in {"enter", "fail", "done"}
                       \/ mode = "call" /\ target = NULL_NODE
    /\ IsCounting /\ mode \notin {"fail", "done"} => Counted

\* The sizes that a frame's node has to do with.
LEMMA FrameSizes ==
    ASSUME TypeOK, NEW f \in Frame, FrameOK(f, Len(states))
    PROVE  /\ Sizes(ast)[f.node] \in Int
           /\ ast[f.node].left \in DOMAIN ast
           /\ Sizes(ast)[ast[f.node].left] \in Int
           /\ f.fn \in BinaryType => /\ ast[f.node].right \in DOMAIN ast
                                     /\ Sizes(ast)[ast[f.node].right] \in Int
           /\ f.index \in Nat /\ ast[f.node].minimum \in Nat
           /\ ast[f.node].maximum \in Nat \cup {UNBOUNDED}
           /\ Sizes(ast)[f.node] = SizeOf(Sizes(ast), ast, f.node)
           /\ IsAst(ast) /\ f.node \in 1 .. Len(ast)
<1>1. IsAst(ast) /\ f.node \in DOMAIN ast /\ DOMAIN ast = 1 .. Len(ast)
  <2>1. IsAst(ast) /\ f.node \in DOMAIN ast
    BY CompilerAssumption DEF TypeOK, FrameOK
  <2> QED
    BY <2>1, NodeFacts, TreeFacts
<1>2. /\ ast[f.node].left \in DOMAIN ast
      /\ f.fn \in BinaryType => ast[f.node].right \in DOMAIN ast
  BY BelowFacts
<1> QED
  BY <1>1, <1>2, SizesFacts, NodeFacts DEF Frame

\* What a frame has still to compile is a number.
LEMMA FrameCounts ==
    ASSUME TypeOK, NEW f \in Frame, FrameOK(f, Len(states))
    PROVE  Done(f) \in Int /\ Pending(f) \in Int /\ Whole(f) \in Int
<1> DEFINE a == Sizes(ast)[ast[f.node].left]
           b == Sizes(ast)[ast[f.node].right]
           k == f.index
           least == ast[f.node].minimum
<1>1. /\ a \in Int /\ k \in Nat /\ least \in Nat /\ Sizes(ast)[f.node] \in Int
      /\ f.fn \in BinaryType => b \in Int
  BY FrameSizes
<1>2. f.fn \in BinaryType \/ f.fn = "REPEAT" \/ (f.fn \in UnaryType /\ k = 0)
  BY DEF Frame, FrameOK, BinaryType, UnaryType
<1>3. /\ Done(f) = IF f.fn = "REPEAT" THEN DoneParts(ast[f.node], k, a)
                   ELSE IF k = 0 THEN 0 ELSE a
      /\ Pending(f) = IF f.fn = "REPEAT" THEN (IF k < least THEN a ELSE a + 1)
                      ELSE IF k = 0 THEN a ELSE b
      /\ Whole(f) \in {Sizes(ast)[f.node], a + 1}
  BY DEF Done, Pending, Whole
<1>4. DoneParts(ast[f.node], k, a) \in
         {k * a, least * a + a + 1, least * a + (k - least) * (a + 1)}
  BY DEF DoneParts
<1> HIDE DEF a, b, k, least
<1>5. DoneParts(ast[f.node], k, a) \in Int
  <2>1. k * a \in Int /\ least * a \in Int /\ (k - least) * (a + 1) \in Int
    BY <1>1
  <2> QED
    BY <1>1, <1>4, <2>1, SMTT(30)
<1> QED
  BY <1>1, <1>2, <1>3, <1>5 DEF BinaryType

\* One round more is one size more.
LEMMA OneMore ==
    ASSUME NEW a \in Int, NEW c \in Int
    PROVE  (a + 1) * c = a * c + c /\ a * c \in Int
OBVIOUS

\* The copies and the optional ones of a counted repetition.
LEMMA CopiesAndOptions ==
    ASSUME NEW m \in Int, NEW l \in Int, NEW c \in Int
    PROVE  /\ m * (c + 1) - l = l * c + (m - l) * (c + 1)
           /\ l * c + (m - l) * (c + 1) \in Int
OBVIOUS

\* A part of a repetition is compiled.
LEMMA NextPart ==
    ASSUME NEW node, node.minimum \in Nat, NEW most, node.maximum = most,
           most = UNBOUNDED \/ (most \in Nat /\ node.minimum <= most),
           NEW k \in Nat, k < Parts(node), NEW child \in Int
    PROVE  DoneParts(node, k + 1, child) =
              DoneParts(node, k, child) +
              (IF k < node.minimum THEN child ELSE child + 1)
<1> DEFINE least == node.minimum
<1>1. CASE k < least
  <2>1. DoneParts(node, k + 1, child) = (k + 1) * child
        /\ DoneParts(node, k, child) = k * child
    BY <1>1 DEF DoneParts
  <2>2. (k + 1) * child = k * child + child
    OBVIOUS
  <2> QED
    BY <1>1, <2>1, <2>2
<1>2. CASE k >= least /\ most = UNBOUNDED
  <2>1. k = least
    BY <1>2 DEF Parts
  <2>2. /\ DoneParts(node, k + 1, child) = least * child + child + 1
        /\ DoneParts(node, k, child) = least * child
    BY <1>2, <2>1 DEF DoneParts
  <2>3. least * child \in Int
    OBVIOUS
  <2> QED
    BY <1>2, <2>2, <2>3
<1>3. CASE k >= least /\ most # UNBOUNDED
  <2>1. DoneParts(node, k + 1, child) =
           least * child + (k + 1 - least) * (child + 1)
    <3>1. ~ (k + 1 <= least)
      BY <1>3
    <3> QED
      BY <1>3, <3>1 DEF DoneParts
  <2>2. DoneParts(node, k, child) = least * child + (k - least) * (child + 1)
    <3>1. CASE k = least
      <4>1. (k - least) * (child + 1) = 0
        BY <3>1
      <4>2. DoneParts(node, k, child) = least * child /\ least * child \in Int
        BY <3>1 DEF DoneParts
      <4> QED
        BY <4>1, <4>2
    <3>2. CASE k > least
      <4>1. ~ (k <= least)
        BY <3>2
      <4> QED
        BY <1>3, <4>1 DEF DoneParts
    <3>3. k = least \/ k > least
      BY <1>3
    <3> QED
      BY <3>1, <3>2, <3>3
  <2>3. (k + 1 - least) * (child + 1) = (k - least) * (child + 1) + (child + 1)
    OBVIOUS
  <2>4. least * child \in Int /\ (k - least) * (child + 1) \in Int
    OBVIOUS
  <2> QED
    BY <1>3, <2>1, <2>2, <2>3, <2>4
<1> QED
  BY <1>1, <1>2, <1>3

\* All of them are: what is left is the jump of a repetition without any.
LEMMA AllParts ==
    ASSUME NEW tree, IsAst(tree), NEW n \in 1 .. Len(tree), NEW h,
           tree[n].type = "REPEAT", HasBounds(tree[n]),
           h[tree[n].left] \in Int
    PROVE  /\ Parts(tree[n]) \in Nat
           /\ SizeOf(h, tree, n) =
                 DoneParts(tree[n], Parts(tree[n]), h[tree[n].left]) +
                 (IF Parts(tree[n]) = 0 THEN 1 ELSE 0)
<1> DEFINE node == tree[n]
           child == h[node.left]
           least == node.minimum
           most == node.maximum
<1>1. /\ least \in Nat /\ child \in Int
      /\ most = UNBOUNDED \/ (most \in Nat /\ least <= most)
  BY TreeFacts, CompilerAssumption DEF AstNode, HasBounds
<1>2. SizeOf(h, tree, n) =
         IF most = UNBOUNDED THEN (least + 1) * child + 1
         ELSE IF most = 0 THEN 1 ELSE most * (child + 1) - least
  BY SizeOfCases
<1>3. CASE most = UNBOUNDED
  <2>1. /\ Parts(node) = least + 1
        /\ DoneParts(node, least + 1, child) = least * child + child + 1
    BY <1>1, <1>3 DEF Parts, DoneParts
  <2> HIDE DEF child, least, most
  <2>2. (least + 1) * child = least * child + child
        /\ least * child \in Int
    BY ONLY <1>1, OneMore
  <2>3. /\ Parts(node) \in Nat /\ Parts(node) # 0
        /\ DoneParts(node, least + 1, child) = (least + 1) * child + 1
    BY ONLY <1>1, <2>1, <2>2
  <2> QED
    BY <1>2, <1>3, <2>1, <2>3 DEF least, child, most
<1>4. CASE most = 0
  <2>1. Parts(node) = 0 /\ least = 0 /\ DoneParts(node, 0, child) = 0 * child
    BY <1>1, <1>4 DEF Parts, DoneParts, UNBOUNDED
  <2>2. 0 * child = 0
    BY <1>1
  <2> QED
    BY <1>2, <1>4, <2>1, <2>2 DEF UNBOUNDED
<1>5. CASE most \in Nat \ {0}
  <2>1. Parts(node) = most /\ most # UNBOUNDED
    BY <1>5 DEF Parts, UNBOUNDED
  <2>2. DoneParts(node, most, child) =
           least * child + (most - least) * (child + 1)
    <3>1. CASE most = least
      BY <1>1, <3>1 DEF DoneParts
    <3>2. CASE most > least
      BY <1>1, <2>1, <3>2 DEF DoneParts
    <3> QED
      BY <1>1, <1>5, <2>1, <3>1, <3>2
  <2>3. most \in Int /\ least \in Int /\ child \in Int
    BY <1>1, <1>5
  <2>4. SizeOf(h, tree, n) = most * (child + 1) - least
    BY <1>2, <1>5, <2>1
  <2> HIDE DEF most, least, child
  <2>5. /\ most * (child + 1) - least =
              least * child + (most - least) * (child + 1)
        /\ least * child + (most - least) * (child + 1) \in Int
    BY <2>3, CopiesAndOptions
  <2> DEFINE total == least * child + (most - least) * (child + 1)
  <2>6. total \in Int /\ SizeOf(h, tree, n) = total
        /\ DoneParts(node, most, child) = total
    BY <2>2, <2>4, <2>5
  <2> HIDE DEF total
  <2>7. SizeOf(h, tree, n) = DoneParts(node, most, child) + 0 /\ most # 0
    BY <1>5, <2>6
  <2> QED
    BY <1>5, <2>1, <2>7 DEF child, most
<1> QED
  BY <1>1, <1>3, <1>4, <1>5

\* A call that is added brings what it has compiled so far.
LEMMA CountsPush ==
    ASSUME NEW frs \in Seq(Frame), NEW f, NEW count, Counts(frs, count),
           Done(f) \in Int
    PROVE  Counts(Append(frs, f), count + Done(f))
<1> DEFINE n == Len(frs)
           pushed == Append(frs, f)
<1>1. /\ n \in Nat /\ DOMAIN frs = 1 .. n /\ DOMAIN pushed = 1 .. n + 1
      /\ Len(pushed) = n + 1 /\ pushed[n + 1] = f
      /\ \A i \in 1 .. n : pushed[i] = frs[i]
  OBVIOUS
<1>2. PICK b \in [Nat -> Int] :
              /\ b[0] = 0 /\ count = b[n]
              /\ \A i \in DOMAIN frs : b[i] = b[i - 1] + Done(frs[i])
  BY DEF Counts
<1> DEFINE c == [b EXCEPT ![n + 1] = b[n] + Done(f)]
<1> HIDE DEF n, pushed
<1>3. c \in [Nat -> Int] /\ c[n + 1] = b[n] + Done(f)
      /\ \A i \in 0 .. n : c[i] = b[i]
  BY <1>1, <1>2
<1> HIDE DEF c
<1>4. c[0] = 0 /\ c[n + 1] = count + Done(f)
  BY <1>1, <1>2, <1>3
<1>5. \A i \in DOMAIN pushed : c[i] = c[i - 1] + Done(pushed[i])
  <2> TAKE i \in DOMAIN pushed
  <2>1. CASE i \in 1 .. n
    <3>1. c[i] = b[i] /\ c[i - 1] = b[i - 1] /\ pushed[i] = frs[i]
      <4>1. i \in 0 .. n /\ i - 1 \in 0 .. n
        BY <1>1, <2>1
      <4> QED
        BY ONLY <1>1, <1>3, <2>1, <4>1
    <3> QED
      BY <1>1, <1>2, <2>1, <3>1
  <2>2. CASE i = n + 1
    <3>1. c[i - 1] = b[n] /\ pushed[i] = f
      BY <1>1, <1>3, <2>2, SMTT(30)
    <3> QED
      BY <1>3, <2>2, <3>1
  <2> QED
    BY <1>1, <2>1, <2>2
<1> QED
  BY <1>1, <1>3, <1>4, <1>5 DEF Counts, pushed

\* A call that ends takes what it has compiled out of the count.
LEMMA CountsPop ==
    ASSUME NEW frs \in Seq(Frame), frs # <<>>, NEW count, Counts(frs, count),
           Done(Last(frs)) \in Int
    PROVE  count \in Int /\ Counts(Front(frs), count - Done(Last(frs)))
<1> DEFINE n == Len(frs)
           popped == Front(frs)
<1>1. /\ n \in Nat \ {0} /\ DOMAIN frs = 1 .. n /\ DOMAIN popped = 1 .. n - 1
      /\ Len(popped) = n - 1 /\ Last(frs) = frs[n]
      /\ \A i \in 1 .. n - 1 : popped[i] = frs[i]
  BY FrontLast
<1>2. PICK b \in [Nat -> Int] :
              /\ b[0] = 0 /\ count = b[n]
              /\ \A i \in DOMAIN frs : b[i] = b[i - 1] + Done(frs[i])
  BY DEF Counts
<1> HIDE DEF n, popped
<1>3. b[n] = b[n - 1] + Done(Last(frs)) /\ b[n - 1] \in Int /\ b[n] \in Int
  <2>1. n \in DOMAIN frs /\ n \in Nat /\ n - 1 \in Nat
    BY <1>1
  <2> QED
    BY <1>1, <1>2, <2>1
<1>4. b[n - 1] = count - Done(Last(frs))
  BY <1>2, <1>3
<1>5. \A i \in DOMAIN popped : b[i] = b[i - 1] + Done(popped[i])
  <2>1. \A i \in DOMAIN popped : i \in DOMAIN frs /\ popped[i] = frs[i]
    BY ONLY <1>1
  <2> QED
    BY ONLY <1>2, <2>1
<1> QED
  BY <1>1, <1>2, <1>3, <1>4, <1>5 DEF Counts, popped

\* A call that is added compiles what the call below it waits for.
LEMMA LinkedPush ==
    ASSUME NEW frs \in Seq(Frame), NEW f, Linked(frs), Whole(f) = Expected(frs)
    PROVE  Linked(Append(frs, f)) /\ Expected(Append(frs, f)) = Pending(f)
<1> DEFINE n == Len(frs)
           pushed == Append(frs, f)
<1>1. /\ n \in Nat /\ DOMAIN frs = 1 .. n /\ DOMAIN pushed = 1 .. n + 1
      /\ Len(pushed) = n + 1 /\ pushed[n + 1] = f /\ pushed # <<>>
      /\ (n = 0 <=> frs = <<>>) /\ Last(frs) = frs[n] /\ Last(pushed) = f
      /\ \A i \in 1 .. n : pushed[i] = frs[i]
  BY DEF Last
<1> HIDE DEF n, pushed
<1>2. Expected(pushed) = Pending(f)
  BY <1>1 DEF Expected
<1>3. ASSUME NEW i \in DOMAIN pushed
      PROVE  Whole(pushed[i]) = IF i = 1 THEN Sizes(ast)[Len(ast)]
                                ELSE Pending(pushed[i - 1])
  <2>1. CASE i \in 1 .. n
    <3>1. pushed[i] = frs[i] /\ (i # 1 => pushed[i - 1] = frs[i - 1])
      BY <1>1, <2>1
    <3> QED
      BY <1>1, <2>1, <3>1 DEF Linked
  <2>2. CASE i = n + 1
    <3>1. pushed[i] = f /\ (i # 1 => pushed[i - 1] = Last(frs) /\ frs # <<>>)
          /\ (i = 1 => frs = <<>>)
      BY <1>1, <2>2
    <3> QED
      BY <3>1 DEF Expected
  <2> QED
    BY <1>1, <2>1, <2>2
<1> QED
  BY <1>2, <1>3 DEF Linked, pushed

\* The calls that remain wait for what they waited for.
LEMMA LinkedPop ==
    ASSUME NEW frs \in Seq(Frame), frs # <<>>, Linked(frs)
    PROVE  Linked(Front(frs)) /\ Expected(Front(frs)) = Whole(Last(frs))
           /\ Expected(frs) = Pending(Last(frs))
<1> DEFINE n == Len(frs)
           popped == Front(frs)
<1>1. /\ n \in Nat \ {0} /\ DOMAIN frs = 1 .. n /\ DOMAIN popped = 1 .. n - 1
      /\ Len(popped) = n - 1 /\ Last(frs) = frs[n] /\ popped \in Seq(Frame)
      /\ \A i \in 1 .. n - 1 : popped[i] = frs[i]
  BY FrontLast
<1>2. Last(popped) = popped[n - 1] /\ (popped = <<>> <=> n = 1)
  BY <1>1 DEF Last
<1> HIDE DEF n, popped
<1>3. Linked(popped)
  <2> SUFFICES ASSUME NEW i \in DOMAIN popped
               PROVE  Whole(popped[i]) = IF i = 1 THEN Sizes(ast)[Len(ast)]
                                         ELSE Pending(popped[i - 1])
    BY DEF Linked
  <2>1. popped[i] = frs[i] /\ i \in DOMAIN frs
        /\ (i # 1 => popped[i - 1] = frs[i - 1])
    BY <1>1
  <2> QED
    BY <2>1 DEF Linked
<1>4. Expected(popped) = Whole(Last(frs))
  <2>1. n \in DOMAIN frs /\ (n # 1 => popped[n - 1] = frs[n - 1])
    BY <1>1
  <2> QED
    BY <1>1, <1>2, <2>1 DEF Expected, Linked
<1> QED
  BY <1>3, <1>4 DEF Expected, popped

\* The rounds left of a call that is added.
LEMMA RoundsPush ==
    ASSUME NEW frs \in Seq(Frame), NEW f, NEW before, NEW after,
           RoundsLeft(frs, before), before # "repeat",
           f.fn = "REPEAT" =>
              \/ f.index < Parts(ast[f.node])
              \/ after = "repeat" /\ f.index = Parts(ast[f.node])
    PROVE  RoundsLeft(Append(frs, f), after)
<1>1. /\ Len(frs) \in Nat /\ DOMAIN frs = 1 .. Len(frs)
      /\ DOMAIN Append(frs, f) = 1 .. Len(frs) + 1
      /\ Len(Append(frs, f)) = Len(frs) + 1
      /\ Append(frs, f)[Len(frs) + 1] = f
      /\ \A i \in 1 .. Len(frs) : Append(frs, f)[i] = frs[i]
  OBVIOUS
<1>2. PICK n \in Nat : n = Len(frs)
  BY ONLY <1>1
<1>3. \A i \in 1 .. n + 1 : i \in 1 .. n \/ i = n + 1
  BY ONLY n \in Nat, SMTT(30)
<1> QED
  BY <1>1, <1>2, <1>3 DEF RoundsLeft

\* The rounds left of the calls that remain.
LEMMA RoundsPop ==
    ASSUME NEW frs \in Seq(Frame), frs # <<>>, NEW before, NEW after,
           RoundsLeft(frs, before)
    PROVE  RoundsLeft(Front(frs), after)
<1> DEFINE n == Len(frs)
<1>1. /\ n \in Nat \ {0} /\ DOMAIN frs = 1 .. n
      /\ DOMAIN Front(frs) = 1 .. n - 1
      /\ \A i \in 1 .. n - 1 : Front(frs)[i] = frs[i]
  BY FrontLast
<1> HIDE DEF n
<1>2. \A i \in 1 .. n - 1 : i \in DOMAIN frs /\ i # n
  BY <1>1
<1> QED
  BY <1>1, <1>2, Zenon DEF RoundsLeft, n
-----------------------------------------------------------------------------

\* A failed compilation has no size to answer for.
LEMMA SizeAfterFailing ==
    ASSUME SizeOK, UNCHANGED input, mode' = "fail" \/ (mode' = "done" /\ error' # NoError)
    PROVE  SizeOK'
BY DEF SizeOK, HasCompiled

\* A step that adds no state and no call leaves the count as it is.
LEMMA StillCounted ==
    ASSUME SizeOK, IsCounting, UNCHANGED input,
           mode' \in {"call", "repeat", "return"},
           Linked(frames'), RoundsLeft(frames', mode'),
           mode' = "call" => /\ target' \in DOMAIN ast
                             /\ Sizes(ast)[target'] = Expected(frames'),
           Counts(frames', IF mode' = "return"
                           THEN Len(states') - Expected(frames')
                           ELSE Len(states'))
    PROVE  SizeOK'
<1>1. ast' = ast /\ given' = given
  BY DEF input
<1>2. Linked(frames)' /\ RoundsLeft(frames, mode)'
  BY <1>1, SMTT(30) DEF Linked, RoundsLeft, Whole, Pending
<1>3. /\ Expected(frames)' = Expected(frames')
      /\ \A n : Counts(frames', n) => Counts(frames, n)'
  BY <1>1 DEF Expected, Pending, Counts, Done
<1> QED
  BY <1>1, <1>2, <1>3 DEF SizeOK, IsCounting, Counted, HasCompiled

\* The topmost frame has got all its children and returns.
LEMMA SizeAfterReturn ==
    ASSUME IInv, IInv', SizeOK, IsCounting, UNCHANGED input,
           frames # <<>>, frames' = Front(frames), mode' = "return",
           \/ /\ mode = "return"
              /\ Len(states') = Len(states) + Whole(Top) - Done(Top) - Pending(Top)
           \/ /\ mode = "repeat"
              /\ Len(states') = Len(states) + Whole(Top) - Done(Top)
    PROVE  SizeOK'
<1>1. /\ frames \in Seq(Frame) /\ Top \in Frame /\ FrameOK(Top, Len(states))
      /\ Len(states) \in Nat
  BY InvFacts, PopKeepsFrames
<1>2. Done(Top) \in Int /\ Pending(Top) \in Int /\ Whole(Top) \in Int
  BY <1>1, InvFacts, FrameCounts
<1>3. Linked(frames) /\ RoundsLeft(frames, mode)
  BY DEF SizeOK, Counted
<1>4. /\ Linked(frames') /\ Expected(frames') = Whole(Top)
      /\ Expected(frames) = Pending(Top)
  BY <1>1, <1>3, LinkedPop DEF Top
<1>5. RoundsLeft(frames', mode')
  BY <1>1, <1>3, RoundsPop
<1>6. Len(states') \in Nat
  BY DEF IInv, TypeOK
<1> DEFINE count == IF mode = "return" THEN Len(states) - Pending(Top)
                    ELSE Len(states)
<1>7. Counts(frames, count)
  BY <1>4 DEF SizeOK, Counted
<1>8. Counts(frames', count - Done(Top))
  BY <1>1, <1>2, <1>7, CountsPop DEF Top
<1>9. count - Done(Top) = Len(states') - Expected(frames')
  <2> DEFINE a == Len(states')
             b == Len(states)
             p == Pending(Top)
             d == Done(Top)
             w == Whole(Top)
  <2>1. a \in Nat /\ Expected(frames') = w
    BY <1>4, <1>6
  <2> QED
    BY <1>1, <1>2, <1>4, <1>6, <2>1, SMTT(30)
<1>10. Counts(frames', Len(states') - Expected(frames'))
  BY <1>8, <1>9
<1> QED
  BY <1>3, <1>4, <1>5, <1>10, StillCounted

\* A frame is pushed for the node that the topmost one waits for.
LEMMA SizeAfterPush ==
    ASSUME IInv, SizeOK, IsCounting, mode \in {"call", "repeat"},
           NEW f \in Frame, FrameOK(f, Len(states)), f.index = 0,
           frames' = Append(frames, f), UNCHANGED <<input, states>>,
           RoundsLeft(frames, "call"), Whole(f) = Expected(frames), Done(f) = 0,
           \/ /\ mode' = "call" /\ target' \in DOMAIN ast
              /\ Sizes(ast)[target'] = Pending(f)
              /\ f.fn # "REPEAT"
           \/ mode' = "repeat" /\ 0 <= Parts(ast[f.node]) /\ Parts(ast[f.node]) \in Nat
    PROVE  SizeOK'
<1>1. frames \in Seq(Frame) /\ Len(states) \in Nat
  BY InvFacts
<1>2. Linked(frames) /\ Counts(frames, Len(states))
  BY DEF SizeOK, Counted
<1>3. Linked(frames') /\ Expected(frames') = Pending(f)
  BY <1>1, <1>2, LinkedPush
<1>4. Counts(frames', Len(states'))
  <2>1. Counts(frames', Len(states) + Done(f))
    BY <1>1, <1>2, CountsPush
  <2>2. Len(states) + Done(f) = Len(states')
    BY <1>1
  <2> QED
    BY <2>1, <2>2
<1>5. RoundsLeft(frames', mode')
  <2>1. f.fn = "REPEAT" => \/ f.index < Parts(ast[f.node])
                           \/ mode' = "repeat" /\ f.index = Parts(ast[f.node])
    OBVIOUS
  <2> QED
    BY <1>1, <2>1, RoundsPush
<1>6. mode' \in {"call", "repeat"}
  OBVIOUS
<1> QED
  BY <1>3, <1>4, <1>5, <1>6, StillCounted

\* The topmost frame takes the returned child in.
LEMMA SizeAfterTaking ==
    ASSUME IInv, IInv', SizeOK, IsCounting, mode = "return", frames # <<>>,
           UNCHANGED input, NEW f, frames' = Append(Front(frames), f),
           Len(states') = Len(states),
           Whole(f) = Whole(Top), Done(f) = Done(Top) + Pending(Top),
           f.fn = "REPEAT" =>
              \/ f.index < Parts(ast[f.node])
              \/ mode' = "repeat" /\ f.index = Parts(ast[f.node]),
           \/ /\ mode' = "call" /\ target' \in DOMAIN ast
              /\ Sizes(ast)[target'] = Pending(f)
           \/ mode' = "repeat"
    PROVE  SizeOK'
<1>1. /\ frames \in Seq(Frame) /\ Top \in Frame /\ FrameOK(Top, Len(states))
      /\ Len(states) \in Nat /\ Front(frames) \in Seq(Frame)
  BY InvFacts, PopKeepsFrames
<1>2. Done(Top) \in Int /\ Pending(Top) \in Int
  BY <1>1, InvFacts, FrameCounts
<1>3. Linked(frames) /\ RoundsLeft(frames, mode)
  BY DEF SizeOK, Counted
<1>4. /\ Linked(Front(frames)) /\ Expected(Front(frames)) = Whole(f)
      /\ Expected(frames) = Pending(Top)
  BY <1>1, <1>3, LinkedPop DEF Top
<1>5. Linked(frames') /\ Expected(frames') = Pending(f)
  BY <1>1, <1>4, LinkedPush
<1>6. RoundsLeft(frames', mode')
  <2>1. RoundsLeft(Front(frames), "call")
    BY <1>1, <1>3, RoundsPop
  <2> QED
    BY <1>1, <2>1, RoundsPush
<1>7. Counts(frames, Len(states) - Pending(Top))
  BY <1>4 DEF SizeOK, Counted
<1>8. Counts(Front(frames), Len(states) - Pending(Top) - Done(Top))
  BY <1>1, <1>2, <1>7, CountsPop DEF Top
<1>9. Done(f) \in Int
  BY <1>2
<1>10. Counts(frames', (Len(states) - Pending(Top) - Done(Top)) + Done(f))
  BY <1>1, <1>8, <1>9, CountsPush
<1>11. (Len(states) - Pending(Top) - Done(Top)) + Done(f) = Len(states')
  BY <1>1, <1>2
<1>12. Counts(frames', Len(states')) /\ mode' \in {"call", "repeat"}
  BY <1>10, <1>11
<1> QED
  BY <1>5, <1>6, <1>12, StillCounted
-----------------------------------------------------------------------------
(* The steps, one by one.                                                  *)

\* A leaf adds one state.
LEMMA CompileLeafCounts ==
    ASSUME IInv, IInv', SizeOK, CompileLeaf PROVE SizeOK'
<1>1. mode = "call" /\ target # NULL_NODE /\ Node.type \in LeafType
      /\ UNCHANGED <<input, frames>>
  BY DEF CompileLeaf, IsCall
<1>2. IsCounting
  BY <1>1 DEF SizeOK
<1>3. CASE mode' = "fail"
  BY <1>1, <1>3, SizeAfterFailing
<1>4. CASE mode' # "fail"
  <2>1. states' = Appended(StateTypeOf(Node.type), Node.chars) /\ mode' = "return"
    BY <1>4 DEF CompileLeaf, SingleOutputState, Fail, Yield
  <2>2. Len(states') = Len(states) + 1 /\ Len(states) \in Nat
    BY <2>1, InvFacts DEF Appended
  <2>3. target \in DOMAIN ast /\ Sizes(ast)[target] = Expected(frames)
        /\ Linked(frames) /\ RoundsLeft(frames, "call")
        /\ Counts(frames, Len(states))
    BY <1>1, <1>2 DEF SizeOK, Counted
  <2>4. Sizes(ast)[target] = 1
    BY <1>1, <2>3, InvFacts, RootFacts, SizesFacts, SizeOfCases
    DEF Node, IsCounting
  <2>5. Len(states') - Expected(frames') = Len(states)
    BY <1>1, <2>2, <2>3, <2>4
  <2>6. RoundsLeft(frames, "return")
    BY <2>3 DEF RoundsLeft
  <2> QED
    BY <1>1, <1>2, <2>1, <2>3, <2>5, <2>6, StillCounted
<1> QED
  BY <1>3, <1>4

\* A child is to add what the child counts.
LEMMA CallChildCounts ==
    ASSUME IInv, IInv', SizeOK, CallChild PROVE SizeOK'
<1> DEFINE f == [fn |-> Node.type, node |-> target,
                 held |-> NoFragment, index |-> 0]
<1>1. /\ mode = "call" /\ target # NULL_NODE
      /\ Node.type \in BinaryType \cup UnaryType
      /\ frames' = Append(frames, f) /\ UNCHANGED <<input, states>>
      /\ target' = Node.left /\ mode' = "call"
  BY DEF CallChild, IsCall, Push, program
<1>2. IsCounting
  BY <1>1 DEF SizeOK
<1>3. /\ target \in DOMAIN ast /\ Sizes(ast)[target] = Expected(frames)
      /\ RoundsLeft(frames, "call")
  BY <1>1, <1>2 DEF SizeOK, Counted
<1>4. f \in Frame /\ FrameOK(f, Len(states)) /\ f.index = 0 /\ f.fn # "REPEAT"
  <2>1. target \in Nat /\ NoFragment \in Fragment
    BY <1>3, InvFacts, NodeFacts DEF NoFragment, Fragment
  <2>2. f \in Frame /\ f.fn # "REPEAT"
    BY <1>1, <2>1 DEF Frame, BinaryType, UnaryType
  <2> QED
    BY <1>1, <1>3, <2>2 DEF FrameOK, Node, BinaryType, UnaryType
<1>5. Whole(f) = Expected(frames) /\ Done(f) = 0
      /\ Pending(f) = Sizes(ast)[target']
  BY <1>1, <1>3, <1>4 DEF Whole, Done, Pending, Node
<1>6. target' \in DOMAIN ast
  BY <1>1, <1>4, InvFacts, FrameSizes DEF Node
<1> HIDE DEF f
<1> QED
  BY <1>1, <1>2, <1>3, <1>4, <1>5, <1>6, SizeAfterPush

\* A counted repetition is to add what all its parts count.
LEMMA CallRepeatCounts ==
    ASSUME IInv, IInv', SizeOK, CallRepeat PROVE SizeOK'
<1> DEFINE f == [fn |-> "REPEAT", node |-> target,
                 held |-> NoFragment, index |-> 0]
<1>1. /\ mode = "call" /\ target # NULL_NODE
      /\ Node.type = "REPEAT" /\ HasBounds(Node)
      /\ frames' = Append(frames, f) /\ UNCHANGED <<input, states>>
      /\ mode' = "repeat"
  BY DEF CallRepeat, IsCall, Push, program, Goto
<1>2. IsCounting
  BY <1>1 DEF SizeOK
<1>3. /\ target \in DOMAIN ast /\ Sizes(ast)[target] = Expected(frames)
      /\ RoundsLeft(frames, "call")
  BY <1>1, <1>2 DEF SizeOK, Counted
<1>4. f \in Frame /\ FrameOK(f, Len(states)) /\ f.index = 0 /\ f.fn = "REPEAT"
      /\ f.node = target
  <2>1. target \in Nat /\ NoFragment \in Fragment
    BY <1>3, InvFacts, NodeFacts DEF NoFragment, Fragment
  <2>2. f \in Frame
    BY <1>1, <2>1 DEF Frame
  <2> QED
    BY <1>1, <1>3, <2>2 DEF FrameOK, Node, BinaryType, UnaryType
<1> HIDE DEF f
<1>5. /\ Sizes(ast)[ast[target].left] \in Int
      /\ IsAst(ast) /\ target \in 1 .. Len(ast)
  BY <1>4, InvFacts, FrameSizes
<1>6. Whole(f) = Expected(frames) /\ Done(f) = 0
  <2>1. 0 <= ast[target].minimum /\ 0 * Sizes(ast)[ast[target].left] = 0
    BY <1>3, <1>5, InvFacts, NodeFacts
  <2> QED
    BY <1>1, <1>3, <1>4, <2>1 DEF Whole, Done, DoneParts, Node
<1>7. Parts(ast[f.node]) \in Nat
  BY <1>1, <1>4, <1>5, AllParts DEF Node
<1>8. mode' = "repeat" /\ 0 <= Parts(ast[f.node]) /\ Parts(ast[f.node]) \in Nat
  BY <1>1, <1>7
<1> QED
  BY <1>1, <1>2, <1>3, <1>4, <1>6, <1>8, SizeAfterPush

\* The frame of a repetition that is compiled.
LEMMA RoundFacts ==
    ASSUME IInv, SizeOK, frames # <<>>, Top.fn = "REPEAT",
           mode \in {"repeat", "return"}
    PROVE  /\ IsCounting
           /\ frames \in Seq(Frame) /\ Top \in Frame /\ FrameOK(Top, Len(states))
           /\ Repeat.type = "REPEAT" /\ HasBounds(Repeat)
           /\ Top.node \in 1 .. Len(ast) /\ IsAst(ast)
           /\ Top.index \in Nat /\ Repeat.minimum \in Nat
           /\ \/ Repeat.maximum = UNBOUNDED
              \/ Repeat.maximum \in Nat /\ Repeat.minimum <= Repeat.maximum
           /\ Repeat.left \in DOMAIN ast
           /\ Sizes(ast)[Repeat.left] \in Int
           /\ \/ Top.index < Parts(Repeat)
              \/ mode = "repeat" /\ Top.index = Parts(Repeat)
<1>1. IsCounting
  BY DEF SizeOK
<1>2. frames \in Seq(Frame) /\ Top \in Frame /\ FrameOK(Top, Len(states))
  BY InvFacts, PopKeepsFrames
<1>3. Repeat.type = "REPEAT" /\ HasBounds(Repeat)
  BY <1>2 DEF FrameOK, Repeat, UnaryType
<1>4. /\ Top.index \in Nat /\ Repeat.minimum \in Nat
      /\ Top.node \in 1 .. Len(ast) /\ IsAst(ast)
      /\ Repeat.left \in DOMAIN ast /\ Sizes(ast)[Repeat.left] \in Int
      /\ Repeat.maximum \in Nat \cup {UNBOUNDED}
  BY <1>2, InvFacts, FrameSizes DEF Repeat
<1>5. RoundsLeft(frames, mode)
  BY <1>1 DEF SizeOK, Counted
<1>6. Len(frames) \in DOMAIN frames /\ frames[Len(frames)] = Top
  BY <1>2, FrontLast DEF Top
<1>7. \/ Top.index < Parts(Repeat)
      \/ mode = "repeat" /\ Top.index = Parts(Repeat)
  BY <1>5, <1>6 DEF RoundsLeft, Repeat
<1> QED
  BY <1>1, <1>2, <1>3, <1>4, <1>7 DEF HasBounds, UNBOUNDED

\* The repetition that mode "repeat" is about has a part left.
LEMMA IsRepeatingFacts ==
    ASSUME IInv, SizeOK, IsRepeating
    PROVE  /\ mode = "repeat" /\ frames # <<>> /\ Top.fn = "REPEAT"
           /\ Top.index < Parts(Repeat) /\ RoundsLeft(frames, "call")
           /\ Expected(frames) = Pending(Top)
           /\ Counts(frames, Len(states)) /\ Linked(frames)
<1>1. /\ mode = "repeat" /\ Top.index < Parts(Repeat)
      /\ frames # <<>> /\ Top.fn = "REPEAT"
  BY RepeatFacts DEF IsRepeating
<1>2. IsCounting /\ frames \in Seq(Frame) /\ Top.index \in Nat
      /\ (Repeat.maximum = UNBOUNDED \/ Repeat.maximum \in Nat)
      /\ Repeat.minimum \in Nat
  BY <1>1, RoundFacts
<1>3. RoundsLeft(frames, "repeat") /\ Counts(frames, Len(states)) /\ Linked(frames)
  BY <1>1, <1>2 DEF SizeOK, Counted
<1>4. RoundsLeft(frames, "call")
  <2>1. frames[Len(frames)] = Top
    BY <1>1, <1>2, FrontLast DEF Top
  <2> QED
    BY <1>1, <1>3, <2>1 DEF RoundsLeft, Repeat
<1> QED
  BY <1>1, <1>3, <1>4 DEF Expected, Top

\* A part that is required is to add what the child counts.
LEMMA RepeatCopyCounts ==
    ASSUME IInv, IInv', SizeOK, RepeatCopy PROVE SizeOK'
<1>1. /\ IsRepeating /\ Top.index < Repeat.minimum /\ mode' = "call"
      /\ target' = Repeat.left /\ UNCHANGED <<input, frames, states>>
  BY DEF RepeatCopy, Goto, program
<1>2. /\ mode = "repeat" /\ frames # <<>> /\ Top.fn = "REPEAT"
      /\ RoundsLeft(frames, "call") /\ Expected(frames) = Pending(Top)
      /\ Counts(frames, Len(states)) /\ Linked(frames)
  BY <1>1, IsRepeatingFacts
<1>3. IsCounting /\ Repeat.left \in DOMAIN ast
  BY <1>2, RoundFacts
<1>4. Pending(Top) = Sizes(ast)[target']
  BY <1>1, <1>2 DEF Pending, Repeat
<1> QED
  BY <1>1, <1>2, <1>3, <1>4, StillCounted

\* A part that is not required is to add the child's states and a split.
LEMMA RepeatRestCounts ==
    ASSUME IInv, IInv', SizeOK, RepeatRest PROVE SizeOK'
<1> DEFINE fn == IF Repeat.maximum = UNBOUNDED THEN "STAR" ELSE "OPTIONAL"
           f == [fn |-> fn, node |-> Top.node,
                 held |-> NoFragment, index |-> 0]
<1>1. /\ IsRepeating /\ Top.index >= Repeat.minimum /\ mode' = "call"
      /\ target' = Repeat.left /\ frames' = Append(frames, f)
      /\ UNCHANGED <<input, states>>
  BY DEF RepeatRest, Goto, Push, program
<1>2. /\ mode = "repeat" /\ frames # <<>> /\ Top.fn = "REPEAT"
      /\ RoundsLeft(frames, "call") /\ Expected(frames) = Pending(Top)
  BY <1>1, IsRepeatingFacts
<1>3. /\ IsCounting /\ Repeat.left \in DOMAIN ast /\ Repeat.type = "REPEAT"
      /\ Top.index \in Nat /\ Repeat.minimum \in Nat
      /\ Top.node \in 1 .. Len(ast) /\ Len(ast) \in Nat /\ DOMAIN ast = 1 .. Len(ast)
  BY <1>2, RoundFacts, TreeFacts
<1>4. fn \in UnaryType /\ fn # "REPEAT" /\ fn \in {"STAR", "OPTIONAL"}
  BY DEF UnaryType
<1> HIDE DEF fn
<1>5. f \in Frame /\ FrameOK(f, Len(states)) /\ f.index = 0 /\ f.fn # "REPEAT"
      /\ f.node = Top.node /\ f.fn = fn
  <2>1. Top.node \in Nat /\ NoFragment \in Fragment
    BY <1>3 DEF NoFragment, Fragment
  <2>2. f \in Frame
    BY <1>4, <2>1 DEF Frame
  <2> QED
    BY <1>3, <1>4, <2>2 DEF FrameOK, Repeat, BinaryType, UnaryType
<1> HIDE DEF f
<1>6. Whole(f) = Expected(frames) /\ Done(f) = 0
      /\ Pending(f) = Sizes(ast)[target']
  <2>1. ~ (Top.index < Repeat.minimum)
    BY <1>1, <1>3
  <2> QED
    BY <1>1, <1>2, <1>3, <1>4, <1>5, <2>1 DEF Whole, Done, Pending, Repeat
<1> QED
  BY <1>1, <1>2, <1>3, <1>5, <1>6, SizeAfterPush

\* The right part is to add what the right child counts.
LEMMA ReturnLeftCounts ==
    ASSUME IInv, IInv', SizeOK, ReturnLeft PROVE SizeOK'
<1> DEFINE f == [Top EXCEPT !.held = fragment, !.index = 1]
<1>1. /\ IsReturn(BinaryType) /\ Top.index = 0
      /\ frames' = Append(Front(frames), f)
      /\ target' = ast[Top.node].right /\ mode' = "call"
      /\ UNCHANGED <<input, states>>
  BY DEF ReturnLeft, Goto, program
<1>2. /\ mode = "return" /\ frames # <<>> /\ Top.fn \in BinaryType
      /\ Top \in Frame /\ FrameOK(Top, Len(states))
  BY <1>1, ReturnFacts
<1>3. IsCounting
  BY <1>2 DEF SizeOK
<1>4. Sizes(ast)[ast[Top.node].left] \in Int /\ target' \in DOMAIN ast
  BY <1>1, <1>2, InvFacts, FrameSizes
<1>5. f.fn = Top.fn /\ f.node = Top.node /\ f.index = 1 /\ f.fn # "REPEAT"
  BY <1>2 DEF Frame, BinaryType
<1> HIDE DEF f
<1>6. /\ Whole(f) = Whole(Top) /\ Pending(f) = Sizes(ast)[target']
      /\ Done(f) = Done(Top) + Pending(Top)
  BY <1>1, <1>4, <1>5 DEF Whole, Pending, Done
<1> QED
  BY <1>1, <1>2, <1>3, <1>4, <1>5, <1>6, SizeAfterTaking

\* A part that is appended has added what it was to add.
LEMMA ReturnPartCounts ==
    ASSUME IInv, IInv', SizeOK, ReturnPart PROVE SizeOK'
<1> DEFINE f == [Top EXCEPT !.held = fragment, !.index = 1]
           g == [Top EXCEPT !.held.out = fragment.out, !.index = @ + 1]
<1>1. /\ IsReturn({"REPEAT"}) /\ mode' = "repeat" /\ UNCHANGED input
      /\ \/ Top.index = 0 /\ frames' = Append(Front(frames), f) /\ states' = states
         \/ /\ Top.index > 0 /\ frames' = Append(Front(frames), g)
            /\ AppendFragment(Top.held) /\ UNCHANGED capacity
  BY DEF ReturnPart, Goto
<1>2. mode = "return" /\ frames # <<>> /\ Top.fn = "REPEAT"
      /\ Top.held \in Fragment
  BY <1>1, ReturnFacts
<1>3. /\ IsCounting /\ Top \in Frame /\ Top.index \in Nat
      /\ Repeat.minimum \in Nat
      /\ \/ Repeat.maximum = UNBOUNDED
         \/ Repeat.maximum \in Nat /\ Repeat.minimum <= Repeat.maximum
      /\ Sizes(ast)[Repeat.left] \in Int
      /\ Top.index < Parts(Repeat)
  BY <1>2, RoundFacts
<1>4. Len(states') = Len(states)
  BY <1>1, <1>2, AppendFragmentFacts
<1> DEFINE next == Top.index + 1
<1>5. PICK e : /\ e.fn = "REPEAT" /\ e.node = Top.node /\ e.index = next
               /\ frames' = Append(Front(frames), e)
  <2>1. /\ f.fn = Top.fn /\ f.node = Top.node /\ f.index = 1
        /\ g.fn = Top.fn /\ g.node = Top.node /\ g.index = next
    BY <1>3 DEF Frame
  <2> HIDE DEF f, g
  <2>2. CASE frames' = Append(Front(frames), f) /\ Top.index = 0
    BY <1>2, <2>1, <2>2
  <2>3. CASE frames' = Append(Front(frames), g)
    BY <1>2, <2>1, <2>3
  <2> QED
    BY <1>1, <2>2, <2>3
<1> HIDE DEF f, g
<1>6. Whole(e) = Whole(Top)
  BY <1>2, <1>5 DEF Whole
<1>7. Done(e) = Done(Top) + Pending(Top)
  <2>1. DoneParts(Repeat, next, Sizes(ast)[Repeat.left]) =
           DoneParts(Repeat, Top.index, Sizes(ast)[Repeat.left]) +
           (IF Top.index < Repeat.minimum THEN Sizes(ast)[Repeat.left]
            ELSE Sizes(ast)[Repeat.left] + 1)
    BY <1>3, NextPart
  <2> QED
    BY <1>2, <1>5, <2>1 DEF Done, Pending, Repeat
<1>8. next < Parts(Repeat) \/ next = Parts(Repeat)
  <2>1. Parts(Repeat) \in Int
    BY <1>3 DEF Parts
  <2> QED
    BY <1>3, <2>1
<1>9. \/ e.index < Parts(ast[e.node])
      \/ mode' = "repeat" /\ e.index = Parts(ast[e.node])
  BY <1>1, <1>5, <1>8 DEF Repeat
<1> QED
  BY <1>1, <1>2, <1>3, <1>4, <1>5, <1>6, <1>7, <1>9, SizeAfterTaking

\* A patch adds no state.
LEMMA PatchedLength ==
    ASSUME NEW T, NEW sts \in Seq(T), NEW list, NEW destination
    PROVE  \E S : /\ Patched(sts, list, destination) \in Seq(S)
                  /\ Len(Patched(sts, list, destination)) = Len(sts)
<1> DEFINE n == Len(sts)
           patched == Patched(sts, list, destination)
           S == {patched[i] : i \in 1 .. n}
<1>1. n \in Nat /\ DOMAIN sts = 1 .. n
  OBVIOUS
<1>2. patched = [i \in 1 .. n |-> patched[i]]
  BY <1>1 DEF Patched
<1> HIDE DEF patched, n
<1>3. patched \in [1 .. n -> S]
  BY <1>2
<1> HIDE DEF S
<1>4. patched \in Seq(S)
  BY <1>1, <1>3, SeqDef
<1>5. Len(patched) = n
  BY <1>1, <1>3, <1>4
<1> QED
  BY <1>4, <1>5 DEF patched, n

\* A state is appended and up to two lists are patched.
LEMMA SplitLength ==
    ASSUME IInv, NEW first, NEW to, NEW second, NEW then
    PROVE  /\ Len(Patched(Appended("SPLIT", {}), first, to)) = Len(states) + 1
           /\ Len(Patched(Patched(Appended("SPLIT", {}), first, to), second, then))
                 = Len(states) + 1
           /\ Len(Patched(Appended("MATCH", {}), first, to)) = Len(states) + 1
<1>1. /\ Appended("SPLIT", {}) \in Seq(NfaState)
      /\ Len(Appended("SPLIT", {})) = Len(states) + 1
      /\ Appended("MATCH", {}) \in Seq(NfaState)
      /\ Len(Appended("MATCH", {})) = Len(states) + 1
  BY InvFacts, AppendingState DEF NfaStateType, Listed
<1> DEFINE split == Patched(Appended("SPLIT", {}), first, to)
<1>2. PICK S : split \in Seq(S) /\ Len(split) = Len(states) + 1
  BY <1>1, PatchedLength
<1> HIDE DEF split
<1>3. Len(Patched(split, second, then)) = Len(split)
  BY <1>2, PatchedLength
<1>4. Len(Patched(Appended("MATCH", {}), first, to)) = Len(states) + 1
  BY <1>1, PatchedLength
<1> QED
  BY <1>2, <1>3, <1>4 DEF split

\* A concatenation adds nothing to its parts.
LEMMA ReturnRightCounts ==
    ASSUME IInv, IInv', SizeOK, ReturnRight PROVE SizeOK'
<1>1. /\ IsReturn({"CONCATENATION"}) /\ Top.index = 1 /\ AppendFragment(Top.held)
      /\ frames' = Front(frames) /\ UNCHANGED <<input, capacity, start>>
      /\ mode' = "return"
  BY DEF ReturnRight, Pop, Yield
<1>2. /\ mode = "return" /\ frames # <<>> /\ Top.fn = "CONCATENATION"
      /\ Top \in Frame /\ Top.held \in Fragment /\ FrameOK(Top, Len(states))
  BY <1>1, ReturnFacts
<1>3. IsCounting
  BY <1>2 DEF SizeOK
<1>4. Len(states') = Len(states) /\ Len(states) \in Nat
  BY <1>1, <1>2, InvFacts, AppendFragmentFacts
<1> DEFINE a == Sizes(ast)[ast[Top.node].left]
           b == Sizes(ast)[ast[Top.node].right]
<1>5. /\ a \in Int /\ b \in Int /\ ast[Top.node].type = "CONCATENATION"
      /\ Sizes(ast)[Top.node] = SizeOf(Sizes(ast), ast, Top.node)
      /\ IsAst(ast) /\ Top.node \in 1 .. Len(ast)
  BY <1>2, InvFacts, FrameSizes DEF FrameOK, BinaryType, UnaryType
<1>6. Whole(Top) = a + b /\ Done(Top) = a /\ Pending(Top) = b
  BY <1>1, <1>2, <1>5, SizeOfCases DEF Whole, Done, Pending
<1> HIDE DEF a, b
<1>7. Len(states') = Len(states) + Whole(Top) - Done(Top) - Pending(Top)
  BY <1>4, <1>5, <1>6
<1> QED
  BY <1>1, <1>2, <1>3, <1>7, SizeAfterReturn

\* An alternation adds a split.
LEMMA ReturnBranchesCounts ==
    ASSUME IInv, IInv', SizeOK, ReturnBranches PROVE SizeOK'
<1>1. /\ IsReturn({"ALTERNATION"}) /\ Top.index = 1
      /\ frames' = Front(frames) /\ UNCHANGED input
  BY DEF ReturnBranches, Pop
<1>2. /\ mode = "return" /\ frames # <<>> /\ Top.fn = "ALTERNATION"
      /\ Top \in Frame /\ FrameOK(Top, Len(states))
  BY <1>1, ReturnFacts
<1>3. IsCounting /\ Len(states) \in Nat
  BY <1>2, InvFacts DEF SizeOK
<1>4. CASE mode' = "fail"
  BY <1>1, <1>4, SizeAfterFailing
<1>5. CASE mode' # "fail"
  <2>1. /\ states' = Patched(Patched(Appended("SPLIT", {}), {<<Index, 1>>},
                                     Top.held.start),
                             {<<Index, 2>>}, fragment.start)
        /\ mode' = "return"
    BY <1>5 DEF ReturnBranches, Fail, Yield
  <2>2. Len(states') = Len(states) + 1
    BY <2>1, SplitLength
  <2> DEFINE a == Sizes(ast)[ast[Top.node].left]
             b == Sizes(ast)[ast[Top.node].right]
  <2>3. /\ a \in Int /\ b \in Int /\ ast[Top.node].type = "ALTERNATION"
        /\ Sizes(ast)[Top.node] = SizeOf(Sizes(ast), ast, Top.node)
        /\ IsAst(ast) /\ Top.node \in 1 .. Len(ast)
    BY <1>2, InvFacts, FrameSizes DEF FrameOK, BinaryType, UnaryType
  <2>4. Whole(Top) = a + b + 1 /\ Done(Top) = a /\ Pending(Top) = b
    BY <1>1, <1>2, <2>3, SizeOfCases DEF Whole, Done, Pending
  <2> HIDE DEF a, b
  <2>5. Len(states') = Len(states) + Whole(Top) - Done(Top) - Pending(Top)
    BY <1>3, <2>2, <2>3, <2>4
  <2> QED
    BY <1>1, <1>2, <1>3, <2>1, <2>5, SizeAfterReturn
<1> QED
  BY <1>4, <1>5

\* A star, a plus and a question mark add a split.
LEMMA ReturnUnaryCounts ==
    ASSUME IInv, IInv', SizeOK, ReturnLoop \/ ReturnOptional PROVE SizeOK'
<1>1. /\ IsReturn(UnaryType) /\ frames' = Front(frames) /\ UNCHANGED input
  BY DEF ReturnLoop, ReturnOptional, Pop, IsReturn, UnaryType
<1>2. /\ mode = "return" /\ frames # <<>> /\ Top.fn \in UnaryType
      /\ Top \in Frame /\ FrameOK(Top, Len(states))
  BY <1>1, ReturnFacts
<1>3. IsCounting /\ Len(states) \in Nat
  BY <1>2, InvFacts DEF SizeOK
<1>4. CASE mode' = "fail"
  BY <1>1, <1>4, SizeAfterFailing
<1>5. CASE mode' # "fail"
  <2>1. /\ mode' = "return"
        /\ \/ states' = Patched(Patched(Appended("SPLIT", {}), {<<Index, 1>>},
                                        fragment.start), fragment.out, Index)
           \/ states' = Patched(Appended("SPLIT", {}), {<<Index, 1>>},
                                fragment.start)
    BY <1>5 DEF ReturnLoop, ReturnOptional, SplitFails, Fail, Yield
  <2>2. Len(states') = Len(states) + 1
    BY <2>1, SplitLength
  <2> DEFINE a == Sizes(ast)[ast[Top.node].left]
  <2>3. /\ a \in Int /\ Top.index = 0 /\ Top.fn # "REPEAT"
        /\ ast[Top.node].type = Top.fn => ast[Top.node].type \in UnaryType
        /\ Sizes(ast)[Top.node] = SizeOf(Sizes(ast), ast, Top.node)
        /\ IsAst(ast) /\ Top.node \in 1 .. Len(ast)
    BY <1>2, InvFacts, FrameSizes DEF FrameOK, UnaryType
  <2>4. Whole(Top) = a + 1 /\ Done(Top) = 0 /\ Pending(Top) = a
    BY <1>2, <2>3, SizeOfCases DEF Whole, Done, Pending
  <2> HIDE DEF a
  <2>5. Len(states') = Len(states) + Whole(Top) - Done(Top) - Pending(Top)
    BY <1>3, <2>2, <2>3, <2>4
  <2> QED
    BY <1>1, <1>2, <1>3, <2>1, <2>5, SizeAfterReturn
<1> QED
  BY <1>4, <1>5

\* A counted repetition without a part adds a jump, any other nothing.
LEMMA RepeatEndsCounts ==
    ASSUME IInv, IInv', SizeOK, RepeatEnds PROVE SizeOK'
<1>1. /\ mode = "repeat" /\ Top.index = Parts(Repeat)
      /\ frames' = Front(frames) /\ UNCHANGED input
  BY DEF RepeatEnds, Pop
<1>2. frames # <<>> /\ Top.fn = "REPEAT"
  BY <1>1, RepeatFacts
<1>3. /\ IsCounting /\ Top \in Frame /\ FrameOK(Top, Len(states))
      /\ Repeat.type = "REPEAT" /\ HasBounds(Repeat)
      /\ Top.node \in 1 .. Len(ast) /\ IsAst(ast)
      /\ Sizes(ast)[Repeat.left] \in Int
  BY <1>1, <1>2, RoundFacts
<1>4. Len(states) \in Nat /\ Done(Top) \in Int
  BY <1>3, InvFacts, FrameCounts
<1>5. CASE mode' = "fail"
  BY <1>1, <1>5, SizeAfterFailing
<1>6. CASE mode' # "fail"
  <2>1. /\ mode' = "return"
        /\ \/ Top.index = 0 /\ states' = Appended("JUMP", {})
           \/ Top.index > 0 /\ states' = states
    BY <1>6 DEF RepeatEnds, SingleOutputState, Fail, Yield, program
  <2>2. Len(states') = Len(states) + (IF Top.index = 0 THEN 1 ELSE 0)
    BY <1>4, <2>1, InvFacts DEF Appended
  <2>3. Whole(Top) = Done(Top) + (IF Top.index = 0 THEN 1 ELSE 0)
    <3>1. SizeOf(Sizes(ast), ast, Top.node) =
             DoneParts(Repeat, Top.index, Sizes(ast)[Repeat.left]) +
             (IF Top.index = 0 THEN 1 ELSE 0)
      BY <1>1, <1>3, AllParts DEF Repeat
    <3>2. Sizes(ast)[Top.node] = SizeOf(Sizes(ast), ast, Top.node)
      BY <1>3, InvFacts, FrameSizes
    <3> QED
      BY <1>2, <1>3, <3>1, <3>2 DEF Whole, Done, Repeat
  <2>4. Len(states') = Len(states) + Whole(Top) - Done(Top)
    BY <1>4, <2>2, <2>3
  <2> QED
    BY <1>1, <1>2, <1>3, <2>1, <2>4, SizeAfterReturn
<1> QED
  BY <1>5, <1>6

\* The accepting state is the last one.
LEMMA FinishCounts ==
    ASSUME IInv, IInv', SizeOK, Finish PROVE SizeOK'
<1>1. mode = "return" /\ frames = <<>> /\ UNCHANGED input
  BY DEF Finish
<1>2. IsCounting
  BY <1>1 DEF SizeOK
<1>3. CASE mode' = "fail"
  BY <1>1, <1>3, SizeAfterFailing
<1>4. CASE mode' # "fail"
  <2>1. /\ states' = Patched(Appended("MATCH", {}), fragment.out, Index)
        /\ mode' = "done"
    BY <1>4 DEF Finish, Fail
  <2>2. Len(states') = Len(states) + 1 /\ Len(states) \in Nat
    BY <2>1, InvFacts, SplitLength
  <2>3. Sizes(ast)[Len(ast)] \in Int
    BY <1>2, InvFacts, RootFacts, SizesFacts DEF IsCounting
  <2>4. Counts(<<>>, Len(states) - Sizes(ast)[Len(ast)])
    BY <1>1, <1>2 DEF SizeOK, Counted, Expected
  <2>5. Len(states) - Sizes(ast)[Len(ast)] = 0
    BY <2>4 DEF Counts
  <2>6. Len(states') = Sizes(ast)[Len(ast)] + 1
    BY <2>2, <2>3, <2>5
  <2> QED
    BY <1>1, <1>2, <2>1, <2>6 DEF SizeOK, IsCounting, HasCompiled, input
<1> QED
  BY <1>3, <1>4

\* The root is to add what the whole tree counts.
LEMMA BeginCounts ==
    ASSUME IInv, IInv', SizeOK, Begin PROVE SizeOK'
<1>1. /\ mode = "enter" /\ given = "empty" /\ mode' = "call"
      /\ target' = Len(ast) /\ UNCHANGED <<input, states, frames>>
      /\ frames = <<>>
  BY DEF Begin, program, IInv, ModeOK
<1>2. CASE ast = <<>>
  BY <1>1, <1>2 DEF SizeOK, IsCounting, HasCompiled, NULL_NODE, input
<1>3. CASE ast # <<>>
  <2>1. IsCounting
    BY <1>1, <1>3 DEF IsCounting
  <2>2. Counts(frames, Len(states)) /\ Linked(frames)
    BY <1>1, <2>1 DEF SizeOK, Counted
  <2>3. RoundsLeft(frames, "call")
    BY <1>1 DEF RoundsLeft
  <2>4. target' \in DOMAIN ast /\ Sizes(ast)[target'] = Expected(frames)
    BY <1>1, <1>3, InvFacts, RootFacts DEF Expected
  <2> QED
    BY <1>1, <2>1, <2>2, <2>3, <2>4, StillCounted
<1> QED
  BY <1>2, <1>3

\* Every step keeps the count.
LEMMA StepSizeOK == IInv /\ IInv' /\ SizeOK /\ [Next]_vars => SizeOK'
<1> SUFFICES ASSUME IInv, IInv', SizeOK, [Next]_vars PROVE SizeOK'
  OBVIOUS
<1>1. CASE UNCHANGED vars
  BY <1>1
  DEF vars, input, control, program, SizeOK, HasCompiled, IsCounting, Counted,
      Linked, RoundsLeft, Counts, Expected, Whole, Pending, Done
<1>2. CASE RefuseProgram \/ CallNull \/ RefuseBounds \/ Unwind
  <2>1. UNCHANGED input /\ mode' = "fail"
    BY <1>2 DEF RefuseProgram, CallNull, RefuseBounds, Unwind, Fail
  <2> QED
    BY <2>1, SizeAfterFailing
<1>3. CASE FinishFailed
  <2>1. UNCHANGED input /\ mode' = "done" /\ error' # NoError
    BY <1>3 DEF FinishFailed, IInv, ModeOK
  <2> QED
    BY <2>1, SizeAfterFailing
<1>4. CASE Begin \/ CompileLeaf \/ CallChild \/ CallRepeat
  BY <1>4, BeginCounts, CompileLeafCounts, CallChildCounts, CallRepeatCounts
<1>5. CASE ReturnLeft \/ ReturnRight \/ ReturnBranches
  BY <1>5, ReturnLeftCounts, ReturnRightCounts, ReturnBranchesCounts
<1>6. CASE ReturnLoop \/ ReturnOptional
  BY <1>6, ReturnUnaryCounts
<1>7. CASE RepeatCopy \/ RepeatRest \/ ReturnPart \/ RepeatEnds
  BY <1>7, RepeatCopyCounts, RepeatRestCounts, ReturnPartCounts, RepeatEndsCounts
<1>8. CASE Finish
  BY <1>8, FinishCounts
<1> QED
  BY <1>1, <1>2, <1>3, <1>4, <1>5, <1>6, <1>7, <1>8, SMTT(30) DEF Next

\* The compiler begins with the count.
LEMMA InitSizeOK == Init => SizeOK
<1> SUFFICES ASSUME Init PROVE SizeOK
  OBVIOUS
<1>1. mode = "enter" /\ frames = <<>> /\ DOMAIN frames = {} /\ Len(frames) = 0
  BY DEF Init
<1>2. Linked(frames) /\ RoundsLeft(frames, mode)
  BY <1>1 DEF Linked, RoundsLeft
<1>3. given = "empty" => Counts(frames, Len(states))
  <2>1. given = "empty" => Len(states) = 0
    BY DEF Init
  <2>2. [n \in Nat |-> 0] \in [Nat -> Int] /\ [n \in Nat |-> 0][0] = 0
    OBVIOUS
  <2> QED
    BY <1>1, <2>1, <2>2 DEF Counts
<1> QED
  BY <1>1, <1>2, <1>3 DEF SizeOK, HasCompiled, IsCounting, Counted

(* What a pattern costs, for every tree: a program has one state for each  *)
(* leaf and operator, every round of a counted repetition counted again,   *)
(* and the final one.                                                      *)
THEOREM SizeCounted == Spec => []SizeIsAsCounted
<1>1. Init => IInv /\ SizeOK
  BY InitIInv, InitSizeOK
<1>2. IInv /\ SizeOK /\ [Next]_vars => (IInv /\ SizeOK)'
  BY StepIInv, StepSizeOK
<1>3. IInv /\ SizeOK => SizeIsAsCounted
  BY StatesOfIsRootsSize DEF SizeOK, SizeIsAsCounted
<1> QED
  BY <1>1, <1>2, <1>3, PTL DEF Spec
-----------------------------------------------------------------------------
(* What a part of a program does, and how the parts are put together.      *)

Offsets(t) == 0 .. Len(t)

\* The transition out1 of a state takes a run from offset q to offset r.
Takes(state, t, q, r) ==
    \/ /\ r = q
       /\ \/ state.type \in {"SPLIT", "JUMP"}
          \/ state.type = "ASSERT_START" /\ q = 0
          \/ state.type = "ASSERT_END" /\ q = Len(t)
    \/ /\ r = q + 1 /\ q < Len(t)
       /\ \/ state.type = "ANY"
          \/ state.type \in {"CHAR", "CLASS"} /\ t[q + 1] \in state.chars

\* At the exit the offset is one of X, anywhere else the run stays in C.
Passed(C, exit, X, to, r) == IF to = exit THEN r \in X ELSE <<to, r>> \in C

\* A run that is in C and in the part S of the program stays in C, unless it
\* leaves for the exit, and then at an offset of X.
Leads(sts, t, S, exit, C, X) ==
    \A s \in S, q \in Offsets(t) :
       <<s, q>> \in C =>
          /\ \A r \in Offsets(t) :
                Takes(sts[s + 1], t, q, r) =>
                   Passed(C, exit, X, sts[s + 1].out1, r)
          /\ sts[s + 1].type = "SPLIT" =>
                Passed(C, exit, X, sts[s + 1].out2, q)

\* The spans of R that begin at i end in X.
Into(R, i, X) == \A j : <<i, j>> \in R => j \in X

\* From `entry` to `exit` the part S consumes the spans of R: whatever set of
\* offsets X is, a run from offset i can only leave at an offset of X if and
\* only if the spans from i end in X.
Ends(sts, t, S, entry, exit, R, X) ==
    \A C : Leads(sts, t, S, exit, C, X) =>
              \A i \in Offsets(t) : <<entry, i>> \in C => Into(R, i, X)

Keeps(sts, t, S, entry, exit, R, X) ==
    \E C \in SUBSET (S \X Offsets(t)) :
       /\ Leads(sts, t, S, exit, C, X)
       /\ \A i \in Offsets(t) : Into(R, i, X) => <<entry, i>> \in C

Means(sts, t, S, entry, exit, R) ==
    \A X : /\ Ends(sts, t, S, entry, exit, R, X)
           /\ Keeps(sts, t, S, entry, exit, R, X)

\* No transition leaves the part S but for the exit.
Within(sts, S, exit) ==
    \A s \in S : /\ sts[s + 1].out1 \in S \cup {exit}
                 /\ sts[s + 1].type = "SPLIT" =>
                       sts[s + 1].out2 \in S \cup {exit}

\* The states of a part are the same but for transitions to `from`, which now
\* lead to `to`.
Redirects(old, new, S, from, to) ==
    \A s \in S :
       /\ new[s + 1].type = old[s + 1].type
       /\ new[s + 1].chars = old[s + 1].chars
       /\ new[s + 1].out1 = IF old[s + 1].out1 = from THEN to
                            ELSE old[s + 1].out1
       /\ old[s + 1].type = "SPLIT" =>
             new[s + 1].out2 = IF old[s + 1].out2 = from THEN to
                               ELSE old[s + 1].out2

\* Another exit is another place to go on at, and nothing else.
LEMMA RedirectedLeads ==
    ASSUME NEW old, NEW new, NEW t, NEW S, NEW from, NEW to,
           Redirects(old, new, S, from, to), Within(old, S, from), to \notin S,
           NEW C, NEW X
    PROVE  Leads(new, t, S, to, C, X) <=> Leads(old, t, S, from, C, X)
<1>1. ASSUME NEW s \in S, NEW q, NEW r
      PROVE  /\ Takes(new[s + 1], t, q, r) <=> Takes(old[s + 1], t, q, r)
             /\ Passed(C, to, X, new[s + 1].out1, r) <=>
                   Passed(C, from, X, old[s + 1].out1, r)
             /\ new[s + 1].type = "SPLIT" <=> old[s + 1].type = "SPLIT"
             /\ old[s + 1].type = "SPLIT" =>
                   (Passed(C, to, X, new[s + 1].out2, r) <=>
                       Passed(C, from, X, old[s + 1].out2, r))
  <2> DEFINE a == new[s + 1]
             b == old[s + 1]
  <2>1. /\ a.type = b.type /\ a.chars = b.chars
        /\ a.out1 = IF b.out1 = from THEN to ELSE b.out1
        /\ b.type = "SPLIT" => a.out2 = IF b.out2 = from THEN to ELSE b.out2
        /\ b.out1 \in S \cup {from}
        /\ b.type = "SPLIT" => b.out2 \in S \cup {from}
    BY DEF Redirects, Within
  <2> HIDE DEF a, b
  <2>2. Takes(a, t, q, r) <=> Takes(b, t, q, r)
    BY <2>1 DEF Takes
  <2>3. Passed(C, to, X, a.out1, r) <=> Passed(C, from, X, b.out1, r)
    BY <2>1 DEF Passed
  <2>4. b.type = "SPLIT" => (Passed(C, to, X, a.out2, r) <=>
                                Passed(C, from, X, b.out2, r))
    BY <2>1 DEF Passed
  <2> QED
    BY <2>1, <2>2, <2>3, <2>4 DEF a, b
<1> QED
  BY <1>1, Zenon DEF Leads

\* The part means what it meant.
LEMMA RedirectedMeans ==
    ASSUME NEW old, NEW new, NEW t, NEW S, NEW from, NEW to, NEW entry, NEW R,
           Redirects(old, new, S, from, to), Within(old, S, from), to \notin S,
           Means(old, t, S, entry, from, R)
    PROVE  Means(new, t, S, entry, to, R) /\ Within(new, S, to)
<1>1. \A C, X : Leads(new, t, S, to, C, X) <=> Leads(old, t, S, from, C, X)
  BY RedirectedLeads
<1>2. \A X : Ends(new, t, S, entry, to, R, X)
  BY <1>1, Zenon DEF Means, Ends
<1>3. \A X : Keeps(new, t, S, entry, to, R, X)
  BY <1>1, Zenon DEF Means, Keeps
<1>4. Within(new, S, to)
  BY DEF Within, Redirects
<1> QED
  BY <1>2, <1>3, <1>4, Zenon DEF Means

\* Sets of spans of a text.
Forward(length) == {p \in (0 .. length) \X (0 .. length) : p[1] <= p[2]}

IsSpans(R, length) == R \in SUBSET Forward(length)

\* One span after the other.
LEMMA ThenPairs ==
    ASSUME NEW length \in Nat, NEW R, NEW S,
           IsSpans(R, length), IsSpans(S, length)
    PROVE  /\ \A i, j : <<i, j>> \in Then(R, S) <=>
                           \E k : <<i, k>> \in R /\ <<k, j>> \in S
           /\ IsSpans(Then(R, S), length)
<1>1. /\ \A p \in R : p = <<p[1], p[2]>> /\ p[1] \in 0 .. length
                      /\ p[2] \in 0 .. length /\ p[1] <= p[2]
      /\ \A p \in S : p = <<p[1], p[2]>> /\ p[1] \in 0 .. length
                      /\ p[2] \in 0 .. length /\ p[1] <= p[2]
  BY DEF IsSpans, Forward
<1>2. ASSUME NEW i, NEW j
      PROVE  <<i, j>> \in Then(R, S) <=>
                \E k : <<i, k>> \in R /\ <<k, j>> \in S
  <2>1. ASSUME <<i, j>> \in Then(R, S)
        PROVE  \E k : <<i, k>> \in R /\ <<k, j>> \in S
    <3>1. PICK p \in R \X S : p[1][2] = p[2][1]
          /\ <<i, j>> = <<p[1][1], p[2][2]>>
      BY <2>1 DEF Then
    <3>2. p[1] \in R /\ p[2] \in S
      BY <3>1
    <3>3. p[1] = <<i, p[1][2]>> /\ p[2] = <<p[1][2], j>>
      BY <1>1, <3>1, <3>2
    <3> QED
      BY <3>2, <3>3
  <2>2. ASSUME NEW k, <<i, k>> \in R, <<k, j>> \in S
        PROVE  <<i, j>> \in Then(R, S)
    <3> DEFINE p == <<<<i, k>>, <<k, j>>>>
    <3>1. p \in R \X S /\ p[1][2] = p[2][1] /\ <<i, j>> = <<p[1][1], p[2][2]>>
      BY <2>2
    <3> QED
      BY <3>1 DEF Then
  <2> QED
    BY <2>1, <2>2
<1>3. ASSUME NEW x \in Then(R, S) PROVE x \in Forward(length)
  <2>1. PICK p \in R \X S : p[1][2] = p[2][1] /\ x = <<p[1][1], p[2][2]>>
    BY DEF Then
  <2>2. p[1] \in R /\ p[2] \in S
    BY <2>1
  <2>3. /\ p[1][1] \in 0 .. length /\ p[2][2] \in 0 .. length
        /\ p[1][1] <= p[1][2] /\ p[2][1] <= p[2][2] /\ p[1][2] \in 0 .. length
    BY <1>1, <2>2
  <2>4. p[1][1] <= p[2][2]
    BY <2>1, <2>3
  <2> QED
    BY <2>1, <2>3, <2>4 DEF Forward
<1> QED
  BY <1>2, <1>3 DEF IsSpans

\* Where a run can be before the second of two parts.
LEMMA IntoThen ==
    ASSUME NEW length \in Nat, NEW R, NEW S,
           IsSpans(R, length), IsSpans(S, length), NEW i, NEW X
    PROVE  Into(Then(R, S), i, X) <=>
              Into(R, i, {k \in 0 .. length : Into(S, k, X)})
<1>1. \A k : <<i, k>> \in R => k \in 0 .. length
  BY DEF IsSpans, Forward
<1>2. \A j : <<i, j>> \in Then(R, S) <=>
                \E k : <<i, k>> \in R /\ <<k, j>> \in S
  BY ThenPairs
<1> QED
  BY <1>1, <1>2, Zenon DEF Into

\* A run through two parts, the exit of one being the entry of the other.
LEMMA MeansThen ==
    ASSUME NEW sts, NEW t, NEW S1, NEW S2, NEW entry, NEW mid, NEW exit,
           NEW R1, NEW R2, Len(t) \in Nat, S1 \cap S2 = {}, mid \in S2,
           exit \notin S1, exit \notin S2,
           Within(sts, S1, mid), Within(sts, S2, exit),
           IsSpans(R1, Len(t)), IsSpans(R2, Len(t)),
           Means(sts, t, S1, entry, mid, R1), Means(sts, t, S2, mid, exit, R2)
    PROVE  /\ Means(sts, t, S1 \cup S2, entry, exit, Then(R1, R2))
           /\ Within(sts, S1 \cup S2, exit)
<1>1. ASSUME NEW X
      PROVE  Ends(sts, t, S1 \cup S2, entry, exit, Then(R1, R2), X)
  <2> SUFFICES ASSUME NEW C, Leads(sts, t, S1 \cup S2, exit, C, X),
                      NEW i \in Offsets(t), <<entry, i>> \in C
               PROVE  Into(Then(R1, R2), i, X)
    BY DEF Ends
  <2> DEFINE Y == {k \in 0 .. Len(t) : Into(R2, k, X)}
  <2>1. Leads(sts, t, S2, exit, C, X)
    BY DEF Leads
  <2>2. \A k \in Offsets(t) : <<mid, k>> \in C => k \in Y
    BY <2>1, Zenon DEF Means, Ends, Offsets
  <2> HIDE DEF Y
  <2>3. ASSUME NEW s \in S1, NEW q \in Offsets(t), <<s, q>> \in C
        PROVE  /\ \A r \in Offsets(t) :
                     Takes(sts[s + 1], t, q, r) =>
                        Passed(C, mid, Y, sts[s + 1].out1, r)
               /\ sts[s + 1].type = "SPLIT" =>
                     Passed(C, mid, Y, sts[s + 1].out2, q)
    <3>1. /\ \A r \in Offsets(t) :
                Takes(sts[s + 1], t, q, r) =>
                   Passed(C, exit, X, sts[s + 1].out1, r)
          /\ sts[s + 1].type = "SPLIT" =>
                Passed(C, exit, X, sts[s + 1].out2, q)
      BY <2>3 DEF Leads
    <3>2. /\ sts[s + 1].out1 \in S1 \cup {mid}
          /\ sts[s + 1].type = "SPLIT" => sts[s + 1].out2 \in S1 \cup {mid}
      BY DEF Within
    <3>3. ASSUME NEW to \in S1 \cup {mid}, NEW r \in Offsets(t),
                 Passed(C, exit, X, to, r)
          PROVE  Passed(C, mid, Y, to, r)
      BY <2>2, <3>3 DEF Passed
    <3> QED
      BY <3>1, <3>2, <3>3
  <2>4. Leads(sts, t, S1, mid, C, Y)
    BY <2>3 DEF Leads
  <2>5. Into(R1, i, Y)
    BY <2>4, Zenon DEF Means, Ends
  <2> QED
    BY <2>5, IntoThen DEF Y
<1>2. ASSUME NEW X
      PROVE  Keeps(sts, t, S1 \cup S2, entry, exit, Then(R1, R2), X)
  <2> DEFINE Y == {k \in 0 .. Len(t) : Into(R2, k, X)}
  <2>1. PICK D \in SUBSET (S2 \X Offsets(t)) :
               /\ Leads(sts, t, S2, exit, D, X)
               /\ \A i \in Offsets(t) : Into(R2, i, X) => <<mid, i>> \in D
    BY Zenon DEF Means, Keeps
  <2>2. PICK C \in SUBSET (S1 \X Offsets(t)) :
               /\ Leads(sts, t, S1, mid, C, Y)
               /\ \A i \in Offsets(t) : Into(R1, i, Y) => <<entry, i>> \in C
    BY Zenon DEF Means, Keeps
  <2>3. \A k \in Offsets(t) : k \in Y => <<mid, k>> \in D
    BY <2>1 DEF Offsets
  <2>4. \A i : Into(Then(R1, R2), i, X) => Into(R1, i, Y)
    BY IntoThen
  <2> HIDE DEF Y
  <2>5. ASSUME NEW s \in S1 \cup S2, NEW q \in Offsets(t), <<s,
               q>> \in C \cup D
        PROVE  /\ \A r \in Offsets(t) :
                     Takes(sts[s + 1], t, q, r) =>
                        Passed(C \cup D, exit, X, sts[s + 1].out1, r)
               /\ sts[s + 1].type = "SPLIT" =>
                     Passed(C \cup D, exit, X, sts[s + 1].out2, q)
    <3>1. CASE <<s, q>> \in C
      <4>1. s \in S1
        BY <2>2, <3>1
      <4>2. /\ \A r \in Offsets(t) :
                  Takes(sts[s + 1], t, q, r) =>
                     Passed(C, mid, Y, sts[s + 1].out1, r)
            /\ sts[s + 1].type = "SPLIT" =>
                  Passed(C, mid, Y, sts[s + 1].out2, q)
        BY <2>2, <3>1, <4>1 DEF Leads
      <4>3. /\ sts[s + 1].out1 \in S1 \cup {mid}
            /\ sts[s + 1].type = "SPLIT" => sts[s + 1].out2 \in S1 \cup {mid}
        BY <4>1 DEF Within
      <4>4. ASSUME NEW to \in S1 \cup {mid}, NEW r \in Offsets(t),
                   Passed(C, mid, Y, to, r)
            PROVE  Passed(C \cup D, exit, X, to, r)
        BY <2>3, <4>4 DEF Passed
      <4> QED
        BY <4>2, <4>3, <4>4
    <3>2. CASE <<s, q>> \in D
      <4>1. s \in S2
        BY <2>1, <3>2
      <4>2. /\ \A r \in Offsets(t) :
                  Takes(sts[s + 1], t, q, r) =>
                     Passed(D, exit, X, sts[s + 1].out1, r)
            /\ sts[s + 1].type = "SPLIT" =>
                  Passed(D, exit, X, sts[s + 1].out2, q)
        BY <2>1, <3>2, <4>1 DEF Leads
      <4> QED
        BY <4>2 DEF Passed
    <3> QED
      BY <2>5, <3>1, <3>2
  <2>6. Leads(sts, t, S1 \cup S2, exit, C \cup D, X)
    BY <2>5 DEF Leads
  <2>7. C \cup D \in SUBSET ((S1 \cup S2) \X Offsets(t))
    BY <2>1, <2>2
  <2>8. \A i \in Offsets(t) : Into(Then(R1, R2), i, X)
        => <<entry, i>> \in C \cup D
    BY <2>2, <2>4
  <2> QED
    BY <2>6, <2>7, <2>8, Zenon DEF Keeps
<1>3. Within(sts, S1 \cup S2, exit)
  BY DEF Within
<1> QED
  BY <1>1, <1>2, <1>3, Zenon DEF Means

\* A state that reads or passes what R says is a part of its own.
LEMMA MeansOne ==
    ASSUME NEW sts, NEW t, NEW s, NEW exit, NEW R, exit # s,
           IsSpans(R, Len(t)), sts[s + 1].type # "SPLIT",
           sts[s + 1].out1 = exit,
           \A q \in Offsets(t), r \in Offsets(t) :
              Takes(sts[s + 1], t, q, r) <=> <<q, r>> \in R
    PROVE  Means(sts, t, {s}, s, exit, R) /\ Within(sts, {s}, exit)
<1>1. \A q, r : <<q, r>> \in R => q \in Offsets(t) /\ r \in Offsets(t)
  BY DEF IsSpans, Forward, Offsets
<1>2. ASSUME NEW X PROVE Ends(sts, t, {s}, s, exit, R, X)
  <2> SUFFICES ASSUME NEW C, Leads(sts, t, {s}, exit, C, X),
                      NEW i \in Offsets(t), <<s, i>> \in C,
                      NEW j, <<i, j>> \in R
               PROVE  j \in X
    BY DEF Ends, Into
  <2>1. Passed(C, exit, X, sts[s + 1].out1, j)
    BY <1>1 DEF Leads
  <2> QED
    BY <2>1 DEF Passed
<1>3. ASSUME NEW X PROVE Keeps(sts, t, {s}, s, exit, R, X)
  <2> DEFINE C == {c \in {s} \X Offsets(t) : Into(R, c[2], X)}
  <2>1. \A q \in Offsets(t) : <<s, q>> \in C <=> Into(R, q, X)
    OBVIOUS
  <2>2. C \in SUBSET ({s} \X Offsets(t))
    OBVIOUS
  <2> HIDE DEF C
  <2>3. ASSUME NEW q \in Offsets(t), <<s, q>> \in C, NEW r \in Offsets(t),
               Takes(sts[s + 1], t, q, r)
        PROVE  Passed(C, exit, X, sts[s + 1].out1, r)
    <3>1. r \in X
      BY <2>1, <2>3 DEF Into
    <3> QED
      BY <3>1 DEF Passed
  <2>4. Leads(sts, t, {s}, exit, C, X)
    BY <2>3 DEF Leads
  <2> QED
    BY <2>1, <2>2, <2>4, Zenon DEF Keeps
<1> QED
  BY <1>2, <1>3, Zenon DEF Means, Within

\* A split is left at the offset it is entered at.
LEMMA SplitTakes ==
    ASSUME NEW state, state.type = "SPLIT", NEW t, NEW q, NEW r
    PROVE  Takes(state, t, q, r) <=> r = q
BY DEF Takes

\* What a run that is in C and at the split does next.
LEMMA SplitPasses ==
    ASSUME NEW sts, NEW t, NEW S, NEW h \in S, NEW exit, NEW C, NEW X,
           sts[h + 1].type = "SPLIT", Leads(sts, t, S, exit, C, X),
           NEW q \in Offsets(t), <<h, q>> \in C
    PROVE  /\ Passed(C, exit, X, sts[h + 1].out1, q)
           /\ Passed(C, exit, X, sts[h + 1].out2, q)
BY SplitTakes DEF Leads

\* A run through one of two parts.
LEMMA MeansEither ==
    ASSUME NEW sts, NEW t, NEW S1, NEW S2, NEW h, NEW e1 \in S1, NEW e2 \in S2,
           NEW exit, NEW R1, NEW R2, h \notin S1, h \notin S2, S1 \cap S2 = {},
           exit # h, exit \notin S1, exit \notin S2,
           Within(sts, S1, exit), Within(sts, S2, exit),
           Means(sts, t, S1, e1, exit, R1), Means(sts, t, S2, e2, exit, R2),
           sts[h + 1].type = "SPLIT", sts[h + 1].out1 = e1,
           sts[h + 1].out2 = e2
    PROVE  /\ Means(sts, t, S1 \cup S2 \cup {h}, h, exit, R1 \cup R2)
           /\ Within(sts, S1 \cup S2 \cup {h}, exit)
<1> DEFINE S == S1 \cup S2 \cup {h}
<1>1. ASSUME NEW X PROVE Ends(sts, t, S, h, exit, R1 \cup R2, X)
  <2> SUFFICES ASSUME NEW C, Leads(sts, t, S, exit, C, X),
                      NEW i \in Offsets(t), <<h, i>> \in C
               PROVE  Into(R1 \cup R2, i, X)
    BY DEF Ends
  <2>1. Leads(sts, t, S1, exit, C, X) /\ Leads(sts, t, S2, exit, C, X)
    BY DEF Leads
  <2>2. Passed(C, exit, X, e1, i) /\ Passed(C, exit, X, e2, i)
    BY SplitPasses
  <2>3. <<e1, i>> \in C /\ <<e2, i>> \in C
    BY <2>2 DEF Passed
  <2>4. Into(R1, i, X)
    BY <2>1, <2>3, Zenon DEF Means, Ends
  <2>5. Into(R2, i, X)
    BY <2>1, <2>3, Zenon DEF Means, Ends
  <2> QED
    BY <2>4, <2>5 DEF Into
<1>2. ASSUME NEW X PROVE Keeps(sts, t, S, h, exit, R1 \cup R2, X)
  <2>1. PICK D \in SUBSET (S1 \X Offsets(t)) :
               /\ Leads(sts, t, S1, exit, D, X)
               /\ \A i \in Offsets(t) : Into(R1, i, X) => <<e1, i>> \in D
    BY Zenon DEF Means, Keeps
  <2>2. PICK E \in SUBSET (S2 \X Offsets(t)) :
               /\ Leads(sts, t, S2, exit, E, X)
               /\ \A i \in Offsets(t) : Into(R2, i, X) => <<e2, i>> \in E
    BY Zenon DEF Means, Keeps
  <2> DEFINE H == {c \in {h} \X Offsets(t) : Into(R1 \cup R2, c[2], X)}
             C == D \cup E \cup H
  <2>3. \A q \in Offsets(t) : Into(R1 \cup R2, q, X) => <<h, q>> \in C
    OBVIOUS
  <2>4. \A s, q : <<s, q>> \in H => s = h /\ Into(R1 \cup R2, q, X)
    OBVIOUS
  <2>5. H \in SUBSET ({h} \X Offsets(t))
    OBVIOUS
  <2> HIDE DEF H
  <2>6. ASSUME NEW s \in S, NEW q \in Offsets(t), <<s, q>> \in C
        PROVE  /\ \A r \in Offsets(t) :
                     Takes(sts[s + 1], t, q, r) =>
                        Passed(C, exit, X, sts[s + 1].out1, r)
               /\ sts[s + 1].type = "SPLIT" =>
                     Passed(C, exit, X, sts[s + 1].out2, q)
    <3>1. CASE <<s, q>> \in D
      <4>1. s \in S1
        BY <2>1, <3>1
      <4>2. /\ \A r \in Offsets(t) :
                  Takes(sts[s + 1], t, q, r) =>
                     Passed(D, exit, X, sts[s + 1].out1, r)
            /\ sts[s + 1].type = "SPLIT" =>
                  Passed(D, exit, X, sts[s + 1].out2, q)
        BY <2>1, <3>1, <4>1 DEF Leads
      <4> QED
        BY <4>2 DEF Passed
    <3>2. CASE <<s, q>> \in E
      <4>1. s \in S2
        BY <2>2, <3>2
      <4>2. /\ \A r \in Offsets(t) :
                  Takes(sts[s + 1], t, q, r) =>
                     Passed(E, exit, X, sts[s + 1].out1, r)
            /\ sts[s + 1].type = "SPLIT" =>
                  Passed(E, exit, X, sts[s + 1].out2, q)
        BY <2>2, <3>2, <4>1 DEF Leads
      <4> QED
        BY <4>2 DEF Passed
    <3>3. CASE <<s, q>> \in H
      <4>1. s = h /\ Into(R1, q, X) /\ Into(R2, q, X)
        BY <2>4, <3>3 DEF Into
      <4>2. <<e1, q>> \in C /\ <<e2, q>> \in C
        BY <2>1, <2>2, <4>1
      <4>3. Passed(C, exit, X, e1, q) /\ Passed(C, exit, X, e2, q)
        BY <4>2 DEF Passed
      <4> QED
        BY <4>1, <4>3, SplitTakes
    <3> QED
      BY <2>6, <3>1, <3>2, <3>3
  <2>7. Leads(sts, t, S, exit, C, X)
    BY <2>6 DEF Leads
  <2>8. C \in SUBSET (S \X Offsets(t))
    BY <2>1, <2>2, <2>5
  <2> HIDE DEF C, S
  <2> QED
    BY <2>3, <2>7, <2>8, Zenon DEF Keeps
<1>3. Within(sts, S, exit)
  BY DEF Within
<1> HIDE DEF S
<1>4. Means(sts, t, S, h, exit, R1 \cup R2)
  BY <1>1, <1>2, Zenon DEF Means
<1> QED
  BY <1>3, <1>4 DEF S

\* A run through a part or past it.
LEMMA MeansMaybe ==
    ASSUME NEW sts, NEW t, NEW S1, NEW h, NEW e1 \in S1, NEW exit, NEW R1,
           h \notin S1, exit # h, exit \notin S1, Within(sts, S1, exit),
           Means(sts, t, S1, e1, exit, R1),
           sts[h + 1].type = "SPLIT", sts[h + 1].out1 = e1,
           sts[h + 1].out2 = exit
    PROVE  /\ Means(sts, t, S1 \cup {h}, h, exit, Identity(Len(t)) \cup R1)
           /\ Within(sts, S1 \cup {h}, exit)
<1> DEFINE S == S1 \cup {h}
           R == Identity(Len(t)) \cup R1
<1>1. ASSUME NEW i \in Offsets(t), NEW X
      PROVE  Into(R, i, X) <=> i \in X /\ Into(R1, i, X)
  BY DEF Into, Identity, Offsets
<1> HIDE DEF R
<1>2. ASSUME NEW X PROVE Ends(sts, t, S, h, exit, R, X)
  <2> SUFFICES ASSUME NEW C, Leads(sts, t, S, exit, C, X),
                      NEW i \in Offsets(t), <<h, i>> \in C
               PROVE  Into(R, i, X)
    BY DEF Ends
  <2>1. Leads(sts, t, S1, exit, C, X)
    BY DEF Leads
  <2>2. Passed(C, exit, X, e1, i) /\ Passed(C, exit, X, exit, i)
    BY SplitPasses
  <2>3. <<e1, i>> \in C /\ i \in X
    BY <2>2 DEF Passed
  <2>4. Into(R1, i, X)
    BY <2>1, <2>3, Zenon DEF Means, Ends
  <2> QED
    BY <1>1, <2>3, <2>4
<1>3. ASSUME NEW X PROVE Keeps(sts, t, S, h, exit, R, X)
  <2>1. PICK D \in SUBSET (S1 \X Offsets(t)) :
               /\ Leads(sts, t, S1, exit, D, X)
               /\ \A i \in Offsets(t) : Into(R1, i, X) => <<e1, i>> \in D
    BY Zenon DEF Means, Keeps
  <2> DEFINE H == {c \in {h} \X Offsets(t) : Into(R, c[2], X)}
             C == D \cup H
  <2>3. \A q \in Offsets(t) : Into(R, q, X) => <<h, q>> \in C
    OBVIOUS
  <2>4. \A s, q : <<s, q>> \in H => s = h /\ Into(R, q, X)
    OBVIOUS
  <2>5. H \in SUBSET ({h} \X Offsets(t))
    OBVIOUS
  <2> HIDE DEF H
  <2>6. ASSUME NEW s \in S, NEW q \in Offsets(t), <<s, q>> \in C
        PROVE  /\ \A r \in Offsets(t) :
                     Takes(sts[s + 1], t, q, r) =>
                        Passed(C, exit, X, sts[s + 1].out1, r)
               /\ sts[s + 1].type = "SPLIT" =>
                     Passed(C, exit, X, sts[s + 1].out2, q)
    <3>1. CASE <<s, q>> \in D
      <4>1. s \in S1
        BY <2>1, <3>1
      <4>2. /\ \A r \in Offsets(t) :
                  Takes(sts[s + 1], t, q, r) =>
                     Passed(D, exit, X, sts[s + 1].out1, r)
            /\ sts[s + 1].type = "SPLIT" =>
                  Passed(D, exit, X, sts[s + 1].out2, q)
        BY <2>1, <3>1, <4>1 DEF Leads
      <4> QED
        BY <4>2 DEF Passed
    <3>3. CASE <<s, q>> \in H
      <4>1. s = h /\ q \in X /\ Into(R1, q, X)
        BY <1>1, <2>4, <3>3
      <4>2. <<e1, q>> \in C
        BY <2>1, <4>1
      <4>3. Passed(C, exit, X, e1, q) /\ Passed(C, exit, X, exit, q)
        BY <4>1, <4>2 DEF Passed
      <4> QED
        BY <4>1, <4>3, SplitTakes
    <3> QED
      BY <2>6, <3>1, <3>3
  <2>7. Leads(sts, t, S, exit, C, X)
    BY <2>6 DEF Leads
  <2>8. C \in SUBSET (S \X Offsets(t))
    BY <2>1, <2>5
  <2> HIDE DEF C, S
  <2> QED
    BY <2>3, <2>7, <2>8, Zenon DEF Keeps
<1>4. Within(sts, S, exit)
  BY DEF Within
<1> HIDE DEF S
<1>5. Means(sts, t, S, h, exit, R)
  BY <1>2, <1>3, Zenon DEF Means
<1> QED
  BY <1>4, <1>5 DEF S, R

\* `star` has the chains of spans of R and no other spans.
Chains(R, star, length) ==
    /\ IsSpans(star, length)
    /\ \A i \in 0 .. length : <<i, i>> \in star
    /\ \A i, k, j : <<i, k>> \in R /\ <<k, j>> \in star => <<i, j>> \in star
    /\ \A T : (\A q \in T : Into(R, q, T)) => \A q \in T : Into(star, q, T)

\* A run around a loop, which is entered at its split or at its body.
LEMMA MeansLoop ==
    ASSUME NEW sts, NEW t, NEW S1, NEW h, NEW e1 \in S1, NEW exit, NEW R,
           NEW star, Len(t) \in Nat, h \notin S1, exit # h, exit \notin S1,
           Within(sts, S1, h), Means(sts, t, S1, e1, h, R),
           IsSpans(R, Len(t)), Chains(R, star, Len(t)),
           sts[h + 1].type = "SPLIT", sts[h + 1].out1 = e1,
           sts[h + 1].out2 = exit
    PROVE  /\ Means(sts, t, S1 \cup {h}, h, exit, star)
           /\ Means(sts, t, S1 \cup {h}, e1, exit, Then(R, star))
           /\ Within(sts, S1 \cup {h}, exit)
<1> DEFINE S == S1 \cup {h}
<1>1. IsSpans(star, Len(t)) /\ \A i \in Offsets(t) : <<i, i>> \in star
  BY DEF Chains, Offsets
<1>2. ASSUME NEW X, NEW C, Leads(sts, t, S, exit, C, X)
      PROVE  /\ \A i \in Offsets(t) : <<h, i>> \in C => Into(star, i, X)
             /\ \A i \in Offsets(t) : <<e1, i>> \in C
                => Into(Then(R, star), i, X)
  <2> DEFINE T == {q \in Offsets(t) : <<h, q>> \in C}
  <2>1. ASSUME NEW q \in T
        PROVE  q \in X /\ <<e1, q>> \in C
    <3>1. Passed(C, exit, X, e1, q) /\ Passed(C, exit, X, exit, q)
      BY <1>2, SplitPasses
    <3> QED
      BY <3>1 DEF Passed
  <2>2. Leads(sts, t, S1, h, C, T)
    <3>1. ASSUME NEW s \in S1, NEW q \in Offsets(t), <<s, q>> \in C
          PROVE  /\ \A r \in Offsets(t) :
                       Takes(sts[s + 1], t, q, r) =>
                          Passed(C, exit, X, sts[s + 1].out1, r)
                 /\ sts[s + 1].type = "SPLIT" =>
                       Passed(C, exit, X, sts[s + 1].out2, q)
      BY <1>2, <3>1 DEF Leads
    <3>2. ASSUME NEW s \in S1
          PROVE  /\ sts[s + 1].out1 \in S1 \cup {h}
                 /\ sts[s + 1].type
                    = "SPLIT" => sts[s + 1].out2 \in S1 \cup {h}
      BY DEF Within
    <3>3. ASSUME NEW to \in S1 \cup {h}, NEW r \in Offsets(t),
                 Passed(C, exit, X, to, r)
          PROVE  Passed(C, h, T, to, r)
      BY <3>3 DEF Passed
    <3> HIDE DEF T
    <3>4. ASSUME NEW s \in S1, NEW q \in Offsets(t), <<s, q>> \in C
          PROVE  /\ \A r \in Offsets(t) :
                       Takes(sts[s + 1], t, q, r) =>
                          Passed(C, h, T, sts[s + 1].out1, r)
                 /\ sts[s + 1].type = "SPLIT" =>
                       Passed(C, h, T, sts[s + 1].out2, q)
      BY <3>1, <3>2, <3>3, <3>4
    <3> QED
      BY <3>4 DEF Leads
  <2>3. \A q \in Offsets(t) : <<h, q>> \in C => q \in T
    OBVIOUS
  <2>4. \A q \in T : q \in Offsets(t)
    OBVIOUS
  <2> HIDE DEF T
  <2>5. \A q \in Offsets(t) : <<e1, q>> \in C => Into(R, q, T)
    BY <2>2, Zenon DEF Means, Ends
  <2>6. \A q \in T : Into(R, q, T)
    BY <2>1, <2>4, <2>5
  <2>7. \A q \in T : Into(star, q, T)
    BY <2>6, Zenon DEF Chains
  <2>8. \A q \in T : Into(star, q, X)
    BY <2>1, <2>7 DEF Into
  <2>9. ASSUME NEW i \in Offsets(t), <<e1, i>> \in C
        PROVE  Into(Then(R, star), i, X)
    <3>1. Into(R, i, {k \in 0 .. Len(t) : Into(star, k, X)})
      BY <2>4, <2>5, <2>8, <2>9 DEF Into, Offsets
    <3> QED
      BY <1>1, <3>1, IntoThen
  <2> QED
    BY <2>3, <2>8, <2>9
<1>3. ASSUME NEW X
      PROVE  /\ Keeps(sts, t, S, h, exit, star, X)
             /\ Keeps(sts, t, S, e1, exit, Then(R, star), X)
  <2> DEFINE T == {q \in 0 .. Len(t) : Into(star, q, X)}
  <2>1. ASSUME NEW q \in T PROVE q \in X /\ Into(R, q, T)
    <3>1. q \in X
      BY <1>1 DEF Into, Offsets
    <3>2. \A k : <<q, k>> \in R => k \in 0 .. Len(t)
      BY DEF IsSpans, Forward
    <3>3. \A k, j : <<q, k>> \in R /\ <<k, j>> \in star => <<q, j>> \in star
      BY DEF Chains
    <3> QED
      BY <3>1, <3>2, <3>3, Zenon DEF Into
  <2>2. PICK D \in SUBSET (S1 \X Offsets(t)) :
               /\ Leads(sts, t, S1, h, D, T)
               /\ \A i \in Offsets(t) : Into(R, i, T) => <<e1, i>> \in D
    BY Zenon DEF Means, Keeps
  <2> DEFINE C == D \cup ({h} \X T)
  <2>3. \A q \in Offsets(t) : Into(star, q, X) => <<h, q>> \in C
    BY DEF Offsets
  <2>4. \A i \in Offsets(t) : Into(Then(R, star), i, X) => <<e1, i>> \in C
    <3>1. \A i : Into(Then(R, star), i, X) => Into(R, i, T)
      BY <1>1, IntoThen
    <3> HIDE DEF T
    <3> QED
      BY <2>2, <3>1
  <2>5. \A q \in T : q \in Offsets(t)
    BY DEF Offsets
  <2> HIDE DEF T
  <2>6. ASSUME NEW s \in S, NEW q \in Offsets(t), <<s, q>> \in C
        PROVE  /\ \A r \in Offsets(t) :
                     Takes(sts[s + 1], t, q, r) =>
                        Passed(C, exit, X, sts[s + 1].out1, r)
               /\ sts[s + 1].type = "SPLIT" =>
                     Passed(C, exit, X, sts[s + 1].out2, q)
    <3>1. CASE <<s, q>> \in D
      <4>1. s \in S1
        BY <2>2, <3>1
      <4>2. /\ \A r \in Offsets(t) :
                  Takes(sts[s + 1], t, q, r) =>
                     Passed(D, h, T, sts[s + 1].out1, r)
            /\ sts[s + 1].type = "SPLIT" =>
                  Passed(D, h, T, sts[s + 1].out2, q)
        BY <2>2, <3>1, <4>1 DEF Leads
      <4>3. /\ sts[s + 1].out1 \in S1 \cup {h}
            /\ sts[s + 1].type = "SPLIT" => sts[s + 1].out2 \in S1 \cup {h}
        BY <4>1 DEF Within
      <4>4. ASSUME NEW to \in S1 \cup {h}, NEW r \in Offsets(t),
                   Passed(D, h, T, to, r)
            PROVE  Passed(C, exit, X, to, r)
        BY <4>4 DEF Passed
      <4> QED
        BY <4>2, <4>3, <4>4
    <3>3. CASE <<s, q>> \notin D
      <4>1. s = h /\ q \in T
        BY <2>6, <3>3
      <4>2. <<e1, q>> \in C /\ q \in X
        BY <2>1, <2>2, <2>5, <4>1
      <4>3. Passed(C, exit, X, e1, q) /\ Passed(C, exit, X, exit, q)
        BY <4>2 DEF Passed
      <4> QED
        BY <4>1, <4>3, SplitTakes
    <3> QED
      BY <3>1, <3>3
  <2>7. Leads(sts, t, S, exit, C, X)
    BY <2>6 DEF Leads
  <2>8. C \in SUBSET (S \X Offsets(t))
    BY <2>2, <2>5
  <2> HIDE DEF C, S
  <2> QED
    BY <2>3, <2>4, <2>7, <2>8, Zenon DEF Keeps
<1>4. Within(sts, S, exit)
  BY DEF Within
<1> HIDE DEF S
<1>5. Means(sts, t, S, h, exit, star)
      /\ Means(sts, t, S, e1, exit, Then(R, star))
  BY <1>2, <1>3, Zenon DEF Means, Ends
<1> QED
  BY <1>4, <1>5 DEF S
-----------------------------------------------------------------------------
(* The spans of a pattern: powers and closures.                            *)

\* The powers that Power is defined by.
IsPowers(f, R, k, length) ==
    f = [n \in 0 .. k |-> IF n = 0 THEN Identity(length)
                          ELSE Then(f[n - 1], R)]

\* Power is the last of its powers.
LEMMA PowerIs ==
    ASSUME NEW R, NEW k, NEW length
    PROVE  Power(R, k, length) = (CHOOSE f : IsPowers(f, R, k, length))[k]
BY DEF Power, IsPowers

\* There are powers up to every k.
LEMMA PowersExist ==
    ASSUME NEW R, NEW k \in Nat, NEW length
    PROVE  \E f : IsPowers(f, R, k, length)
<1> DEFINE Good(n) == \E f : IsPowers(f, R, n, length)
           Bad == {n \in 0 .. k : ~ Good(n)}
<1>1. Bad = {}
  <2> SUFFICES ASSUME Bad # {} PROVE FALSE
    OBVIOUS
  <2>1. PICK m \in Bad : \A n \in Bad : m <= n
    <3>1. Bad \in SUBSET Nat
      OBVIOUS
    <3> HIDE DEF Bad
    <3> QED
      BY <3>1, LeastNatural
  <2>2. m \in 0 .. k /\ ~ Good(m)
    OBVIOUS
  <2>3. m # 0
    <3> DEFINE f == [n \in 0 .. 0 |-> Identity(length)]
    <3>1. \A n \in 0 .. 0 : n = 0
      OBVIOUS
    <3>2. f = [n \in 0 .. 0 |-> IF n = 0 THEN Identity(length)
                                ELSE Then(f[n - 1], R)]
      BY <3>1
    <3>3. Good(0)
      BY <3>2 DEF IsPowers
    <3> QED
      BY <2>2, <3>3
  <2>4. m - 1 \in 0 .. k /\ ~ (m <= m - 1)
    BY <2>2, <2>3
  <2>5. PICK f : IsPowers(f, R, m - 1, length)
    <3>1. m - 1 \notin Bad
      BY <2>1, <2>4
    <3> QED
      BY <2>4, <3>1
  <2> DEFINE g == [n \in 0 .. m |-> IF n = m THEN Then(f[m - 1], R) ELSE f[n]]
  <2>6. \A n \in 0 .. m - 1 : f[n] = IF n = 0 THEN Identity(length)
                                     ELSE Then(f[n - 1], R)
    BY <2>5 DEF IsPowers
  <2>7. ASSUME NEW n \in 0 .. m
        PROVE  g[n] = IF n = 0 THEN Identity(length) ELSE Then(g[n - 1], R)
    <3>1. CASE n = m
      BY <2>2, <2>3, <3>1
    <3>2. CASE n # m
      <4>1. n \in 0 .. m - 1 /\ (n # 0 => n - 1 \in 0 .. m /\ n - 1 # m)
        BY <2>2, <3>2
      <4> QED
        BY <2>6, <3>2, <4>1
    <3> QED
      BY <3>1, <3>2
  <2>8. g = [n \in 0 .. m |-> g[n]]
    OBVIOUS
  <2> HIDE DEF g
  <2>9. IsPowers(g, R, m, length)
    BY <2>7, <2>8 DEF IsPowers
  <2> QED
    BY <2>2, <2>9
<1>2. k \in 0 .. k
  OBVIOUS
<1> QED
  BY <1>1, <1>2

\* The powers up to one bound are those up to another one.
LEMMA PowersAgree ==
    ASSUME NEW R, NEW length, NEW k \in Nat, NEW m \in Nat, NEW f, NEW g,
           IsPowers(f, R, k, length), IsPowers(g, R, m, length), k <= m
    PROVE  \A n \in 0 .. k : f[n] = g[n]
<1> DEFINE Bad == {n \in 0 .. k : f[n] # g[n]}
<1>1. /\ \A n \in 0 .. k : f[n] = IF n = 0 THEN Identity(length)
                                  ELSE Then(f[n - 1], R)
      /\ \A n \in 0 .. m : g[n] = IF n = 0 THEN Identity(length)
                                  ELSE Then(g[n - 1], R)
  BY DEF IsPowers
<1>2. Bad = {}
  <2> SUFFICES ASSUME Bad # {} PROVE FALSE
    OBVIOUS
  <2>1. PICK b \in Bad : \A n \in Bad : b <= n
    <3>1. Bad \in SUBSET Nat
      OBVIOUS
    <3> HIDE DEF Bad
    <3> QED
      BY <3>1, LeastNatural
  <2>2. b \in 0 .. k /\ f[b] # g[b] /\ b \in 0 .. m
    OBVIOUS
  <2>3. b # 0
    BY <1>1, <2>2
  <2>4. b - 1 \in 0 .. k /\ ~ (b <= b - 1)
    BY <2>2, <2>3
  <2>5. f[b - 1] = g[b - 1]
    BY <2>1, <2>4
  <2> QED
    BY <1>1, <2>2, <2>3, <2>5
<1> QED
  BY <1>2

\* R taken no times, and once more.
LEMMA PowerFacts ==
    ASSUME NEW R, NEW length
    PROVE  /\ Power(R, 0, length) = Identity(length)
           /\ \A k \in Nat : Power(R, k + 1, length) =
                                Then(Power(R, k, length), R)
<1> DEFINE P(k) == CHOOSE f : IsPowers(f, R, k, length)
<1>1. \A k \in Nat : /\ IsPowers(P(k), R, k, length)
                     /\ Power(R, k, length) = P(k)[k]
  BY PowersExist, PowerIs
<1> HIDE DEF P
<1>2. Power(R, 0, length) = Identity(length)
  BY <1>1 DEF IsPowers
<1>3. ASSUME NEW k \in Nat
      PROVE  Power(R, k + 1, length) = Then(Power(R, k, length), R)
  <2>1. P(k + 1)[k + 1] = Then(P(k + 1)[k], R)
    BY <1>1 DEF IsPowers
  <2>2. P(k)[k] = P(k + 1)[k]
    BY <1>1, PowersAgree
  <2> QED
    BY <1>1, <2>1, <2>2
<1> QED
  BY <1>2, <1>3

\* Induction, as a fact about a set.
LEMMA AllNaturals ==
    ASSUME NEW G \in SUBSET Nat, 0 \in G, \A k \in G : k + 1 \in G
    PROVE  \A k \in Nat : k \in G
<1> DEFINE Bad == Nat \ G
<1> SUFFICES ASSUME Bad # {} PROVE FALSE
  OBVIOUS
<1>1. PICK m \in Bad : \A n \in Bad : m <= n
  <2>1. Bad \in SUBSET Nat
    OBVIOUS
  <2> HIDE DEF Bad
  <2> QED
    BY <2>1, LeastNatural
<1>2. m \in Nat /\ m \notin G /\ m # 0
  OBVIOUS
<1>3. m - 1 \in Nat /\ ~ (m <= m - 1) /\ (m - 1) + 1 = m
  BY <1>2
<1>4. m - 1 \in G
  BY <1>1, <1>3
<1> QED
  BY <1>2, <1>3, <1>4

\* The identity is made of spans.
LEMMA IdentitySpans ==
    ASSUME NEW length \in Nat
    PROVE  /\ IsSpans(Identity(length), length)
           /\ \A i, j : <<i, j>> \in Identity(length) <=>
                           i = j /\ i \in 0 .. length
BY DEF IsSpans, Identity, Forward

\* Doing nothing before or after a span changes nothing.
LEMMA ThenIdentity ==
    ASSUME NEW length \in Nat, NEW R, IsSpans(R, length)
    PROVE  Then(Identity(length), R) = R
<1>1. IsSpans(Identity(length), length)
  BY IdentitySpans
<1>2. /\ \A i, j : <<i, j>> \in Then(Identity(length), R) <=>
                      \E k : <<i, k>> \in Identity(length) /\ <<k, j>> \in R
      /\ IsSpans(Then(Identity(length), R), length)
  BY <1>1, ThenPairs
<1>3. \A i, j : <<i, j>> \in R => i \in 0 .. length
  BY DEF IsSpans, Forward
<1>4. \A i, j : <<i, j>> \in Then(Identity(length), R) <=> <<i, j>> \in R
  BY <1>2, <1>3, IdentitySpans
<1>5. \A p : p \in R \/ p \in Then(Identity(length), R) => p = <<p[1], p[2]>>
  BY <1>2 DEF IsSpans, Forward
<1> QED
  BY <1>4, <1>5

\* A power of spans is spans of the text.
LEMMA PowerSpans ==
    ASSUME NEW length \in Nat, NEW R, IsSpans(R, length)
    PROVE  \A k \in Nat : IsSpans(Power(R, k, length), length)
<1> DEFINE G == {k \in Nat : IsSpans(Power(R, k, length), length)}
<1>1. 0 \in G
  <2>1. Power(R, 0, length) = Identity(length)
    BY PowerFacts
  <2> QED
    BY <2>1, IdentitySpans
<1>2. ASSUME NEW k \in G PROVE k + 1 \in G
  <2>1. Power(R, k + 1, length) = Then(Power(R, k, length), R)
    BY PowerFacts
  <2>2. IsSpans(Then(Power(R, k, length), R), length)
    BY ThenPairs
  <2> QED
    BY <2>1, <2>2
<1>3. G \in SUBSET Nat
  OBVIOUS
<1>4. \A k \in Nat : k \in G
  <2> HIDE DEF G
  <2> QED
    BY <1>1, <1>2, <1>3, AllNaturals
<1> QED
  BY <1>4

\* The pairs of the next power, from its last span.
LEMMA PowerPairs ==
    ASSUME NEW length \in Nat, NEW R, IsSpans(R, length), NEW k \in Nat
    PROVE  \A i, j : <<i, j>> \in Power(R, k + 1, length) <=>
              \E m : <<i, m>> \in Power(R, k, length) /\ <<m, j>> \in R
<1>1. Power(R, k + 1, length) = Then(Power(R, k, length), R)
  BY PowerFacts
<1>2. IsSpans(Power(R, k, length), length)
  BY PowerSpans
<1> QED
  BY ONLY <1>1, <1>2, length \in Nat, IsSpans(R, length), ThenPairs,
          ZenonT(60)

\* The pairs of the power that is nothing.
LEMMA PowerZero ==
    ASSUME NEW length \in Nat, NEW R
    PROVE  \A i, j : <<i, j>> \in Power(R, 0, length) <=>
                        i = j /\ i \in 0 .. length
<1>1. Power(R, 0, length) = Identity(length)
  BY PowerFacts
<1>2. \A i, j : <<i, j>> \in Identity(length) <=> i = j /\ i \in 0 .. length
  BY IdentitySpans
<1> DEFINE I == Identity(length)
           P == Power(R, 0, length)
<1> HIDE DEF I, P
<1>3. P = I /\ \A i, j : <<i, j>> \in I <=> i = j /\ i \in 0 .. length
  BY <1>1, <1>2 DEF I, P
<1>4. \A i, j : <<i, j>> \in P <=> i = j /\ i \in 0 .. length
  BY ONLY <1>3
<1> QED
  BY <1>4 DEF P

\* The pairs of the next power, from its first span.
LEMMA PowerFirst ==
    ASSUME NEW length \in Nat, NEW R, IsSpans(R, length)
    PROVE  \A k \in Nat : \A i, m, j :
              <<i, m>> \in R /\ <<m, j>> \in Power(R, k, length) =>
                 <<i, j>> \in Power(R, k + 1, length)
<1> DEFINE P(k) == Power(R, k, length)
           Good(k) == \A i, m, j : <<i, m>> \in R /\ <<m, j>> \in P(k) =>
                                      <<i, j>> \in P(k + 1)
           G == {k \in Nat : Good(k)}
<1>1. \A k \in Nat : \A i, j : <<i, j>> \in P(k + 1) <=>
                        \E m : <<i, m>> \in P(k) /\ <<m, j>> \in R
  BY PowerPairs
<1>2. \A i, j : <<i, j>> \in P(0) <=> i = j /\ i \in 0 .. length
  BY PowerZero
<1>3. \A i, j : <<i, j>> \in R => i \in 0 .. length
  BY DEF IsSpans, Forward
<1> HIDE DEF P
<1>4. Good(0)
  <2>1. \A i, j : <<i, j>> \in P(0 + 1) <=>
           \E m : <<i, m>> \in P(0) /\ <<m, j>> \in R
    BY <1>1
  <2>2. \A i, m, j : <<i, m>> \in R /\ <<m, j>> \in P(0) =>
                        m = j /\ <<i, i>> \in P(0)
    BY <1>2, <1>3
  <2> QED
    BY <2>1, <2>2
<1>5. ASSUME NEW k \in Nat, Good(k) PROVE Good(k + 1)
  <2>1. k + 1 \in Nat
    OBVIOUS
  <2>2. /\ \A i, j : <<i, j>> \in P(k + 1) <=>
              \E m : <<i, m>> \in P(k) /\ <<m, j>> \in R
        /\ \A i, j : <<i, j>> \in P((k + 1) + 1) <=>
              \E m : <<i, m>> \in P(k + 1) /\ <<m, j>> \in R
    BY <1>1, <2>1
  <2> QED
    BY <1>5, <2>2, Zenon
<1>6. G \in SUBSET Nat /\ 0 \in G /\ \A k \in G : k + 1 \in G
  BY <1>4, <1>5
<1>7. \A k \in Nat : k \in G
  <2> HIDE DEF G
  <2> QED
    BY <1>6, AllNaturals
<1> QED
  BY <1>7 DEF P

\* A chain can be made as short as it is wide.
LEMMA PowerShort ==
    ASSUME NEW length \in Nat, NEW R, IsSpans(R, length)
    PROVE  \A k \in Nat : \A i, j :
              <<i, j>> \in Power(R, k, length) =>
                 \E m \in 0 .. j - i : <<i, j>> \in Power(R, m, length)
<1> DEFINE P(k) == Power(R, k, length)
           Good(k) == \A i, j : <<i, j>> \in P(k) =>
                         \E m \in 0 .. j - i : <<i, j>> \in P(m)
           G == {k \in Nat : Good(k)}
<1>1. \A k \in Nat : \A i, j : <<i, j>> \in P(k + 1) <=>
                        \E m : <<i, m>> \in P(k) /\ <<m, j>> \in R
  BY PowerPairs
<1>2. \A i, j : <<i, j>> \in P(0) <=> i = j /\ i \in 0 .. length
  BY PowerZero
<1>3. \A i, j : <<i, j>> \in R => /\ i \in 0 .. length /\ j \in 0 .. length
                                  /\ i <= j
  BY DEF IsSpans, Forward
<1>8. \A k \in Nat : \A i, j : <<i, j>> \in P(k) =>
         i \in 0 .. length /\ j \in 0 .. length /\ i <= j
  BY PowerSpans DEF IsSpans, Forward
<1> HIDE DEF P
<1>4. Good(0)
  <2>1. ASSUME NEW i, NEW j, <<i, j>> \in P(0) PROVE 0 \in 0 .. j - i
    BY <1>2, <2>1
  <2> QED
    BY <2>1
<1>5. ASSUME NEW k \in Nat, Good(k) PROVE Good(k + 1)
  <2> SUFFICES ASSUME NEW i, NEW j, <<i, j>> \in P(k + 1)
               PROVE  \E m \in 0 .. j - i : <<i, j>> \in P(m)
    OBVIOUS
  <2>1. PICK x : <<i, x>> \in P(k) /\ <<x, j>> \in R
    BY <1>1
  <2>2. PICK m \in 0 .. x - i : <<i, x>> \in P(m)
    BY <1>5, <2>1
  <2>3. /\ i \in Int /\ x \in Int /\ j \in Int /\ i <= x /\ x <= j
    BY <1>3, <1>8, <2>1
  <2>4. CASE x = j
    BY <2>2, <2>4
  <2>5. CASE x # j
    <3>1. m \in Nat /\ m + 1 \in 0 .. j - i
      BY <2>2, <2>3, <2>5
    <3>2. <<i, j>> \in P(m + 1)
      BY <1>1, <2>1, <2>2, <3>1
    <3> QED
      BY <3>1, <3>2
  <2> QED
    BY <2>4, <2>5
<1>6. G \in SUBSET Nat /\ 0 \in G /\ \A k \in G : k + 1 \in G
  BY <1>4, <1>5
<1>7. \A k \in Nat : k \in G
  <2> HIDE DEF G
  <2> QED
    BY <1>6, AllNaturals
<1> QED
  BY <1>7 DEF P

\* What no span leaves, no chain leaves.
LEMMA PowerStays ==
    ASSUME NEW length \in Nat, NEW R, IsSpans(R, length), NEW T,
           \A q \in T : Into(R, q, T)
    PROVE  \A k \in Nat : \A q \in T : Into(Power(R, k, length), q, T)
<1> DEFINE P(k) == Power(R, k, length)
           Good(k) == \A q \in T : Into(P(k), q, T)
           G == {k \in Nat : Good(k)}
<1>1. \A k \in Nat : \A i, j : <<i, j>> \in P(k + 1) <=>
                        \E m : <<i, m>> \in P(k) /\ <<m, j>> \in R
  BY PowerPairs
<1>2. \A i, j : <<i, j>> \in P(0) <=> i = j /\ i \in 0 .. length
  BY PowerZero
<1> HIDE DEF P
<1>4. Good(0)
  BY <1>2 DEF Into
<1>5. ASSUME NEW k \in Nat, Good(k) PROVE Good(k + 1)
  BY <1>1, <1>5 DEF Into
<1>6. G \in SUBSET Nat /\ 0 \in G /\ \A k \in G : k + 1 \in G
  BY <1>4, <1>5
<1>7. \A k \in Nat : k \in G
  <2> HIDE DEF G
  <2> QED
    BY <1>6, AllNaturals
<1> QED
  BY <1>7 DEF P

\* Closure has the chains, although it only has those up to a length.
LEMMA ClosureChains ==
    ASSUME NEW length \in Nat, NEW R, IsSpans(R, length)
    PROVE  Chains(R, Closure(R, length), length)
<1> DEFINE P(k) == Power(R, k, length)
           star == Closure(R, length)
<1>1. \A p : p \in star <=> \E k \in 0 .. length + 1 : p \in P(k)
  BY DEF Closure
<1>2. \A k \in Nat : IsSpans(P(k), length)
  BY PowerSpans
<1>3. \A i, j : <<i, j>> \in P(0) <=> i = j /\ i \in 0 .. length
  BY PowerZero
<1>4. \A k \in Nat : \A i, m, j : <<i, m>> \in R /\ <<m, j>> \in P(k) =>
                                     <<i, j>> \in P(k + 1)
  BY PowerFirst
<1>5. \A k \in Nat : \A i, j :
         <<i, j>> \in P(k) => \E m \in 0 .. j - i : <<i, j>> \in P(m)
  BY PowerShort
<1>6. \A T : (\A q \in T : Into(R, q, T)) =>
                \A k \in Nat : \A q \in T : Into(P(k), q, T)
  BY PowerStays
<1> HIDE DEF P, star
<1>7. IsSpans(star, length)
  BY <1>1, <1>2 DEF IsSpans
<1>8. \A i \in 0 .. length : <<i, i>> \in star
  <2>1. 0 \in 0 .. length + 1
    OBVIOUS
  <2> QED
    BY <1>1, <1>3, <2>1
<1>9. ASSUME NEW i, NEW x, NEW j, <<i, x>> \in R, <<x, j>> \in star
      PROVE  <<i, j>> \in star
  <2>1. PICK k \in 0 .. length + 1 : <<x, j>> \in P(k)
    BY <1>1, <1>9
  <2>2. PICK m \in 0 .. j - x : <<x, j>> \in P(m)
    BY <1>5, <2>1
  <2>3. x \in 0 .. length /\ j \in 0 .. length
    BY <1>7, <1>9 DEF IsSpans, Forward
  <2>4. m \in Nat /\ m + 1 \in 0 .. length + 1
    BY <2>2, <2>3
  <2> QED
    BY <1>1, <1>4, <1>9, <2>2, <2>4
<1>10. ASSUME NEW T, \A q \in T : Into(R, q, T), NEW q \in T
       PROVE  Into(star, q, T)
  <2>1. \A k \in 0 .. length + 1 : Into(P(k), q, T)
    BY <1>6, <1>10
  <2> QED
    BY <1>1, <2>1 DEF Into
<1>11. Chains(R, star, length)
  BY <1>7, <1>8, <1>9, <1>10 DEF Chains
<1> QED
  BY <1>11 DEF star
-----------------------------------------------------------------------------
(* The spans of every node.                                                *)

\* All powers are spans of the text.
LEMMA PowersSpans ==
    ASSUME NEW length \in Nat, NEW R, IsSpans(R, length),
           NEW minimum \in Nat, NEW maximum \in Nat \cup {UNBOUNDED}
    PROVE  IsSpans(Powers(R, minimum, maximum, length), length)
<1>1. \A k \in Nat : IsSpans(Power(R, k, length), length)
  BY PowerSpans
<1>2. CASE maximum = UNBOUNDED
  <2>1. IsSpans(Closure(R, length), length)
    BY ClosureChains DEF Chains
  <2>2. IsSpans(Then(Power(R, minimum, length), Closure(R, length)), length)
    BY <1>1, <2>1, ThenPairs
  <2> QED
    BY <1>2, <2>2 DEF Powers
<1>3. CASE maximum # UNBOUNDED
  <2>1. \A k \in minimum .. maximum : k \in Nat
    BY <1>3
  <2>2. Powers(R, minimum, maximum, length) =
           UNION {Power(R, k, length) : k \in minimum .. maximum}
    BY <1>3 DEF Powers
  <2> QED
    BY <1>1, <2>1, <2>2 DEF IsSpans
<1> QED
  BY <1>2, <1>3

Singles(t, chars) ==
    {<<i, i + 1>> : i \in {i \in 0 .. Len(t) - 1 : t[i + 1] \in chars}}

AnyOne(t) == {<<i, i + 1>> : i \in 0 .. Len(t) - 1}

SpansOf(h, tree, t, n) ==
    LET length == Len(t)
        node == tree[n]
    IN  CASE node.type = "EMPTY" -> Identity(length)
          [] node.type \in {"LITERAL", "CHARACTER_CLASS"} ->
                 {<<i, i + 1>> : i \in {i \in 0 .. length - 1 :
                                           t[i + 1] \in node.chars}}
          [] node.type = "DOT" -> {<<i, i + 1>> : i \in 0 .. length - 1}
          [] node.type = "ASSERT_START" -> {<<0, 0>>}
          [] node.type = "ASSERT_END" -> {<<length, length>>}
          [] node.type = "CONCATENATION" -> Then(h[node.left], h[node.right])
          [] node.type = "ALTERNATION" -> h[node.left] \cup h[node.right]
          [] node.type = "STAR" -> Powers(h[node.left], 0, UNBOUNDED, length)
          [] node.type = "PLUS" -> Powers(h[node.left], 1, UNBOUNDED, length)
          [] node.type = "OPTIONAL" -> Powers(h[node.left], 0, 1, length)
          [] OTHER ->
                 Powers(h[node.left], node.minimum, node.maximum, length)

Meanings(tree, t) ==
    CHOOSE h : h = [n \in 1 .. Len(tree) |-> SpansOf(h, tree, t, n)]

\* Spans is what Meanings gives for the root.
LEMMA SpansIsRootsMeaning ==
    ASSUME NEW tree, NEW t PROVE Spans(tree, t) = Meanings(tree, t)[Len(tree)]
BY DEF Spans, Meanings, SpansOf

\* The spans of a node by its type.
LEMMA SpansOfCases ==
    ASSUME NEW tree, NEW n, NEW t, NEW h
    PROVE  /\ tree[n].type = "EMPTY" => SpansOf(h, tree, t, n)
              = Identity(Len(t))
           /\ tree[n].type \in {"LITERAL", "CHARACTER_CLASS"} =>
                 SpansOf(h, tree, t, n) = Singles(t, tree[n].chars)
           /\ tree[n].type = "DOT" => SpansOf(h, tree, t, n) = AnyOne(t)
           /\ tree[n].type = "ASSERT_START" => SpansOf(h, tree, t, n)
              = {<<0, 0>>}
           /\ tree[n].type = "ASSERT_END" =>
                 SpansOf(h, tree, t, n) = {<<Len(t), Len(t)>>}
           /\ tree[n].type = "CONCATENATION" =>
                 SpansOf(h, tree, t, n)
                 = Then(h[tree[n].left], h[tree[n].right])
           /\ tree[n].type = "ALTERNATION" =>
                 SpansOf(h, tree, t, n) = h[tree[n].left] \cup h[tree[n].right]
           /\ tree[n].type = "STAR" => SpansOf(h, tree, t, n) =
                 Powers(h[tree[n].left], 0, UNBOUNDED, Len(t))
           /\ tree[n].type = "PLUS" => SpansOf(h, tree, t, n) =
                 Powers(h[tree[n].left], 1, UNBOUNDED, Len(t))
           /\ tree[n].type = "OPTIONAL" => SpansOf(h, tree, t, n) =
                 Powers(h[tree[n].left], 0, 1, Len(t))
           /\ tree[n].type = "REPEAT" => SpansOf(h, tree, t, n) =
                 Powers(h[tree[n].left], tree[n].minimum, tree[n].maximum,
                 Len(t))
<1> DEFINE node == tree[n]
           type == node.type
           a == Identity(Len(t))
           b == Singles(t, node.chars)
           c == AnyOne(t)
           d == {<<0, 0>>}
           e == {<<Len(t), Len(t)>>}
           f == Then(h[node.left], h[node.right])
           g == h[node.left] \cup h[node.right]
           i == Powers(h[node.left], 0, UNBOUNDED, Len(t))
           j == Powers(h[node.left], 1, UNBOUNDED, Len(t))
           k == Powers(h[node.left], 0, 1, Len(t))
           l == Powers(h[node.left], node.minimum, node.maximum, Len(t))
           it == SpansOf(h, tree, t, n)
<1>1. it = CASE type = "EMPTY" -> a
             [] type \in {"LITERAL", "CHARACTER_CLASS"} -> b
             [] type = "DOT" -> c
             [] type = "ASSERT_START" -> d
             [] type = "ASSERT_END" -> e
             [] type = "CONCATENATION" -> f
             [] type = "ALTERNATION" -> g
             [] type = "STAR" -> i
             [] type = "PLUS" -> j
             [] type = "OPTIONAL" -> k
             [] OTHER -> l
  BY DEF SpansOf, Singles, AnyOne
<1> HIDE DEF type, a, b, c, d, e, f, g, i, j, k, l, it
<1>2. /\ type = "EMPTY" => it = a
      /\ type \in {"LITERAL", "CHARACTER_CLASS"} => it = b
      /\ type = "DOT" => it = c
      /\ type = "ASSERT_START" => it = d
      /\ type = "ASSERT_END" => it = e
      /\ type = "CONCATENATION" => it = f
      /\ type = "ALTERNATION" => it = g
      /\ type = "STAR" => it = i
      /\ type = "PLUS" => it = j
      /\ type = "OPTIONAL" => it = k
      /\ type = "REPEAT" => it = l
  BY ONLY <1>1
<1> QED
  BY <1>2 DEF type, a, b, c, d, e, f, g, i, j, k, l, it

\* The spans of the leaves.
LEMMA LeafSpans ==
    ASSUME NEW t, Len(t) \in Nat, NEW chars
    PROVE  /\ IsSpans(Singles(t, chars), Len(t)) /\ IsSpans(AnyOne(t), Len(t))
           /\ IsSpans({<<0, 0>>}, Len(t))
           /\ IsSpans({<<Len(t), Len(t)>>}, Len(t))
<1>1. PICK L \in Nat : L = Len(t)
  OBVIOUS
<1>2. \A i \in 0 .. L - 1 : <<i, i + 1>> \in Forward(L)
  BY DEF Forward
<1>3. <<0, 0>> \in Forward(L) /\ <<L, L>> \in Forward(L)
  BY DEF Forward
<1> QED
  BY <1>1, <1>2, <1>3 DEF IsSpans, Singles, AnyOne

\* A node has spans of the text when its children have.
LEMMA SpansOfSpans ==
    ASSUME NEW tree, IsAst(tree), NEW n \in 1 .. Len(tree), NEW h, NEW t,
           Len(t) \in Nat, \A c \in 1 .. n - 1 : IsSpans(h[c], Len(t))
    PROVE  IsSpans(SpansOf(h, tree, t, n), Len(t))
<1> DEFINE node == tree[n]
<1>1. /\ node.minimum \in Nat /\ node.maximum \in Nat \cup {UNBOUNDED}
      /\ node.type \in LeafType \/ IsSpans(h[node.left], Len(t))
      /\ node.type \in BinaryType => IsSpans(h[node.right], Len(t))
      /\ node.type \in LeafType \cup BinaryType \cup UnaryType \cup {"REPEAT"}
  <2>1. node \in AstNode
    BY TreeFacts
  <2>2. /\ node.minimum \in Nat /\ node.maximum \in Nat \cup {UNBOUNDED}
        /\ node.type
           \in LeafType \cup BinaryType \cup UnaryType \cup {"REPEAT"}
    BY <2>1 DEF AstNode, AstType
  <2>3. /\ node.type \in LeafType \/ node.left \in 1 .. n - 1
        /\ node.type \in BinaryType => node.right \in 1 .. n - 1
    BY TreeFacts DEF Children
  <2> QED
    BY <2>2, <2>3
<1> HIDE DEF node
<1>2. CASE node.type \in LeafType
  <2>1. SpansOf(h, tree, t, n) \in {Identity(Len(t)), Singles(t, node.chars),
           AnyOne(t), {<<0, 0>>}, {<<Len(t), Len(t)>>}}
    BY <1>2, SpansOfCases DEF LeafType, node
  <2>2. IsSpans(Identity(Len(t)), Len(t))
    BY IdentitySpans
  <2> QED
    BY <2>1, <2>2, LeafSpans
<1>3. CASE node.type = "CONCATENATION"
  <2>1. SpansOf(h, tree, t, n) = Then(h[node.left], h[node.right])
    BY <1>3, SpansOfCases DEF node
  <2>2. IsSpans(h[node.left], Len(t)) /\ IsSpans(h[node.right], Len(t))
    BY <1>1, <1>3 DEF LeafType, BinaryType
  <2> QED
    BY <2>1, <2>2, ThenPairs
<1>4. CASE node.type = "ALTERNATION"
  <2>1. SpansOf(h, tree, t, n) = h[node.left] \cup h[node.right]
    BY <1>4, SpansOfCases DEF node
  <2>2. IsSpans(h[node.left], Len(t)) /\ IsSpans(h[node.right], Len(t))
    BY <1>1, <1>4 DEF LeafType, BinaryType
  <2> QED
    BY <2>1, <2>2 DEF IsSpans
<1>5. CASE node.type \in UnaryType \cup {"REPEAT"}
  <2>1. PICK low \in Nat, high \in Nat \cup {UNBOUNDED} :
           SpansOf(h, tree, t, n) = Powers(h[node.left], low, high, Len(t))
    <3> DEFINE it == SpansOf(h, tree, t, n)
    <3>1. /\ node.type = "STAR" => it
             = Powers(h[node.left], 0, UNBOUNDED, Len(t))
          /\ node.type = "PLUS" => it
             = Powers(h[node.left], 1, UNBOUNDED, Len(t))
          /\ node.type = "OPTIONAL" => it = Powers(h[node.left], 0, 1, Len(t))
          /\ node.type = "REPEAT" =>
                it = Powers(h[node.left], node.minimum, node.maximum, Len(t))
      BY SpansOfCases DEF node
    <3> HIDE DEF it
    <3>2. 0 \in Nat /\ 1 \in Nat
      OBVIOUS
    <3>3. node.type \in {"STAR", "PLUS", "OPTIONAL", "REPEAT"}
      BY <1>5 DEF UnaryType
    <3>4. \E low \in Nat, high \in Nat \cup {UNBOUNDED} :
             it = Powers(h[node.left], low, high, Len(t))
      BY ONLY <1>1, <3>1, <3>2, <3>3, Zenon
    <3> QED
      BY <3>4 DEF it
  <2>2. IsSpans(h[node.left], Len(t))
    BY <1>1, <1>5 DEF LeafType, UnaryType
  <2> QED
    BY <2>1, <2>2, PowersSpans
<1> QED
  BY <1>1, <1>2, <1>3, <1>4, <1>5 DEF BinaryType

\* The spans of a node depend on the children's only.
LEMMA SpansOfAgrees ==
    ASSUME NEW tree, IsAst(tree), NEW n \in 1 .. Len(tree), NEW g, NEW h,
           NEW t, \A c \in 1 .. n - 1 : g[c] = h[c]
    PROVE  SpansOf(g, tree, t, n) = SpansOf(h, tree, t, n)
<1> DEFINE node == tree[n]
<1>1. /\ node.type \in LeafType \/ node.left \in 1 .. n - 1
      /\ node.type \in BinaryType => node.right \in 1 .. n - 1
      /\ node.type \in LeafType \cup BinaryType \cup UnaryType \cup {"REPEAT"}
  BY TreeFacts DEF Children
<1>2. /\ node.type \in LeafType \/ g[node.left] = h[node.left]
      /\ node.type \in BinaryType => g[node.right] = h[node.right]
  BY <1>1
<1> HIDE DEF node
<1> DEFINE new == SpansOf(g, tree, t, n)
           old == SpansOf(h, tree, t, n)
<1>6. /\ node.type = "EMPTY" => old = Identity(Len(t))
      /\ node.type \in {"LITERAL", "CHARACTER_CLASS"} =>
            old = Singles(t, node.chars)
      /\ node.type = "DOT" => old = AnyOne(t)
      /\ node.type = "ASSERT_START" => old = {<<0, 0>>}
      /\ node.type = "ASSERT_END" => old = {<<Len(t), Len(t)>>}
      /\ node.type = "CONCATENATION" =>
            old = Then(h[node.left], h[node.right])
      /\ node.type = "ALTERNATION" => old = h[node.left] \cup h[node.right]
      /\ node.type = "STAR" => old = Powers(h[node.left], 0, UNBOUNDED, Len(t))
      /\ node.type = "PLUS" => old = Powers(h[node.left], 1, UNBOUNDED, Len(t))
      /\ node.type = "OPTIONAL" => old = Powers(h[node.left], 0, 1, Len(t))
      /\ node.type = "REPEAT" =>
            old = Powers(h[node.left], node.minimum, node.maximum, Len(t))
  BY SpansOfCases DEF node
<1>7. /\ node.type = "EMPTY" => new = Identity(Len(t))
      /\ node.type \in {"LITERAL", "CHARACTER_CLASS"} =>
            new = Singles(t, node.chars)
      /\ node.type = "DOT" => new = AnyOne(t)
      /\ node.type = "ASSERT_START" => new = {<<0, 0>>}
      /\ node.type = "ASSERT_END" => new = {<<Len(t), Len(t)>>}
      /\ node.type = "CONCATENATION" =>
            new = Then(g[node.left], g[node.right])
      /\ node.type = "ALTERNATION" => new = g[node.left] \cup g[node.right]
      /\ node.type = "STAR" => new = Powers(g[node.left], 0, UNBOUNDED, Len(t))
      /\ node.type = "PLUS" => new = Powers(g[node.left], 1, UNBOUNDED, Len(t))
      /\ node.type = "OPTIONAL" => new = Powers(g[node.left], 0, 1, Len(t))
      /\ node.type = "REPEAT" =>
            new = Powers(g[node.left], node.minimum, node.maximum, Len(t))
  BY SpansOfCases DEF node
<1> SUFFICES new = old
  OBVIOUS
<1> HIDE DEF new, old
<1>3. CASE node.type \in LeafType
  BY ONLY <1>3, <1>6, <1>7 DEF LeafType
<1>4. CASE node.type \in BinaryType
  <2>1. g[node.left] = h[node.left] /\ g[node.right] = h[node.right]
    BY <1>2, <1>4 DEF LeafType, BinaryType
  <2> QED
    <3>1. node.type = "CONCATENATION" \/ node.type = "ALTERNATION"
      BY <1>4 DEF BinaryType
    <3>2. CASE node.type = "CONCATENATION"
      BY ONLY <1>6, <1>7, <2>1, <3>2
    <3>3. CASE node.type = "ALTERNATION"
      BY ONLY <1>6, <1>7, <2>1, <3>3, Zenon
    <3> QED
      BY <3>1, <3>2, <3>3
<1>5. CASE node.type \in UnaryType \cup {"REPEAT"}
  <2>1. g[node.left] = h[node.left]
    BY <1>2, <1>5 DEF LeafType, UnaryType
  <2> QED
    BY ONLY <1>5, <1>6, <1>7, <2>1 DEF UnaryType
<1> QED
  BY <1>1, <1>3, <1>4, <1>5

\* There is a function of spans.
LEMMA MeaningsExist ==
    ASSUME NEW tree, IsAst(tree), NEW t
    PROVE  \E h : h = [n \in 1 .. Len(tree) |-> SpansOf(h, tree, t, n)]
<1> DEFINE IsUpTo(h, k) == h = [n \in 1 .. k |-> h[n]]
           Good(k) == \E h : /\ IsUpTo(h, k)
                             /\ \A n \in 1 .. k : h[n] = SpansOf(h, tree, t, n)
           G == {k \in Nat : k <= Len(tree) => Good(k)}
<1>1. Len(tree) \in Nat
  BY DEF IsAst
<1>2. 0 \in G
  <2> DEFINE f == [n \in 1 .. 0 |-> 0]
  <2>1. IsUpTo(f, 0) /\ \A n \in 1 .. 0 : FALSE
    OBVIOUS
  <2> HIDE DEF f
  <2>2. Good(0)
    BY <2>1, Zenon
  <2> QED
    BY <2>2
<1>3. ASSUME NEW k \in G PROVE k + 1 \in G
  <2> SUFFICES ASSUME k + 1 <= Len(tree) PROVE Good(k + 1)
    OBVIOUS
  <2>1. k \in Nat /\ k <= Len(tree) /\ k + 1 \in 1 .. Len(tree)
    BY <1>1
  <2>2. PICK h : IsUpTo(h, k)
        /\ \A n \in 1 .. k : h[n] = SpansOf(h, tree, t, n)
    BY <2>1
  <2> DEFINE g == [n \in 1 .. k + 1 |->
                      IF n = k + 1 THEN SpansOf(h, tree, t, k + 1) ELSE h[n]]
  <2>3. \A c \in 1 .. k : g[c] = h[c]
    BY <2>1
  <2>4. g[k + 1] = SpansOf(h, tree, t, k + 1)
    BY <2>1
  <2>5. IsUpTo(g, k + 1)
    OBVIOUS
  <2> HIDE DEF g
  <2>6. ASSUME NEW n \in 1 .. k + 1 PROVE g[n] = SpansOf(g, tree, t, n)
    <3>1. n \in 1 .. Len(tree) /\ \A c \in 1 .. n - 1 : c \in 1 .. k
      BY <1>1, <2>1
    <3>2. \A c \in 1 .. n - 1 : g[c] = h[c]
      BY <2>3, <3>1
    <3>3. SpansOf(g, tree, t, n) = SpansOf(h, tree, t, n)
      BY <3>1, <3>2, SpansOfAgrees
    <3>4. n = k + 1 \/ n \in 1 .. k
      BY <2>1
    <3> QED
      BY <2>2, <2>3, <2>4, <3>3, <3>4
  <2> HIDE DEF IsUpTo
  <2> QED
    BY <2>5, <2>6
<1> HIDE DEF Good
<1>4. \A k \in Nat : k \in G
  <2>1. G \in SUBSET Nat
    OBVIOUS
  <2> HIDE DEF G
  <2> QED
    BY <1>2, <1>3, <2>1, AllNaturals
<1>5. Good(Len(tree))
  BY <1>1, <1>4
<1>6. PICK h : IsUpTo(h, Len(tree))
      /\ \A n \in 1 .. Len(tree) : h[n] = SpansOf(h, tree, t, n)
  BY <1>5 DEF Good
<1>7. h = [n \in 1 .. Len(tree) |-> SpansOf(h, tree, t, n)]
  BY <1>6
<1> QED
  BY <1>7

\* The spans of each node, from those of its children.
LEMMA MeaningsFacts ==
    ASSUME NEW tree, IsAst(tree), NEW t, Len(t) \in Nat
    PROVE  \A n \in 1 .. Len(tree) :
              /\ IsSpans(Meanings(tree, t)[n], Len(t))
              /\ Meanings(tree, t)[n] = SpansOf(Meanings(tree, t), tree, t, n)
<1> DEFINE h == Meanings(tree, t)
<1>1. h = [m \in 1 .. Len(tree) |-> SpansOf(h, tree, t, m)]
  BY MeaningsExist, SMTT(30) DEF Meanings
<1> HIDE DEF h
<1>2. \A m \in 1 .. Len(tree) : h[m] = SpansOf(h, tree, t, m)
  BY <1>1
<1> DEFINE Good(k) == \A n \in 1 .. k : IsSpans(h[n], Len(t))
           G == {k \in Nat : k <= Len(tree) => Good(k)}
<1>3. Len(tree) \in Nat
  BY DEF IsAst
<1>4. 0 \in G
  OBVIOUS
<1>5. ASSUME NEW k \in G PROVE k + 1 \in G
  <2> SUFFICES ASSUME k + 1 <= Len(tree) PROVE Good(k + 1)
    OBVIOUS
  <2>1. k \in Nat /\ k <= Len(tree) /\ k + 1 \in 1 .. Len(tree)
        /\ (k + 1) - 1 = k
    BY <1>3
  <2>2. Good(k)
    BY <2>1
  <2>3. IsSpans(SpansOf(h, tree, t, k + 1), Len(t))
    BY <2>1, <2>2, SpansOfSpans
  <2>4. \A n \in 1 .. k + 1 : n = k + 1 \/ n \in 1 .. k
    BY <2>1
  <2> QED
    BY <1>2, <2>1, <2>2, <2>3, <2>4
<1> HIDE DEF Good
<1>6. \A k \in Nat : k \in G
  <2>1. G \in SUBSET Nat
    OBVIOUS
  <2> HIDE DEF G
  <2> QED
    BY <1>4, <1>5, <2>1, AllNaturals
<1>7. Good(Len(tree))
  BY <1>3, <1>6
<1> QED
  BY <1>2, <1>7 DEF h, Good
-----------------------------------------------------------------------------
(* The rounds of a counted repetition, taken one after the other.          *)

\* Sets of spans with the same pairs are the same.
LEMMA SameSpans ==
    ASSUME NEW length, NEW R, NEW S, IsSpans(R, length), IsSpans(S, length),
           \A i, j : <<i, j>> \in R <=> <<i, j>> \in S
    PROVE  R = S
<1>1. \A p : p \in R \/ p \in S => p = <<p[1], p[2]>>
  BY DEF IsSpans, Forward
<1> QED
  BY <1>1

\* The powers that the operators stand for.
LEMMA PowersFacts ==
    ASSUME NEW length \in Nat, NEW R, IsSpans(R, length)
    PROVE  /\ Power(R, 1, length) = R
           /\ Powers(R, 0, UNBOUNDED, length) = Closure(R, length)
           /\ Powers(R, 1, UNBOUNDED, length) = Then(R, Closure(R, length))
           /\ Powers(R, 0, 1, length) = Identity(length) \cup R
           /\ Powers(R, 0, 0, length) = Identity(length)
<1>1. Power(R, 0, length) = Identity(length)
  BY PowerFacts
<1>2. Power(R, 1, length) = R
  <2>1. Power(R, 0 + 1, length) = Then(Power(R, 0, length), R)
    BY PowerFacts
  <2>2. 0 + 1 = 1
    OBVIOUS
  <2>3. Power(R, 1, length) = Then(Identity(length), R)
    BY <1>1, <2>1, <2>2
  <2> QED
    BY <2>3, ThenIdentity
<1>3. IsSpans(Closure(R, length), length)
  BY ClosureChains DEF Chains
<1>4. Powers(R, 0, UNBOUNDED, length) = Closure(R, length)
  <2>1. Then(Identity(length), Closure(R, length)) = Closure(R, length)
    BY <1>3, ThenIdentity
  <2> QED
    BY <1>1, <2>1 DEF Powers
<1>5. Powers(R, 1, UNBOUNDED, length) = Then(R, Closure(R, length))
  BY <1>2 DEF Powers
<1>6. 1 # UNBOUNDED /\ 0 # UNBOUNDED
  BY DEF UNBOUNDED
<1>7. Powers(R, 0, 1, length) = Power(R, 0, length) \cup Power(R, 1, length)
  <2>1. 0 .. 1 = {0, 1}
    OBVIOUS
  <2> QED
    BY <1>6, <2>1 DEF Powers
<1>8. Powers(R, 0, 0, length) = Power(R, 0, length)
  <2>1. 0 .. 0 = {0}
    OBVIOUS
  <2> QED
    BY <1>6, <2>1 DEF Powers
<1> QED
  BY <1>1, <1>2, <1>4, <1>5, <1>7, <1>8

\* The part that a repetition of R has for its round k.
PartSpans(R, node, k, length) ==
    IF k < node.minimum THEN R
    ELSE IF node.maximum = UNBOUNDED THEN Powers(R, 0, UNBOUNDED, length)
    ELSE Powers(R, 0, 1, length)

\* What its first k parts are together.
Rounds(R, node, k, length) ==
    IF k <= node.minimum THEN Power(R, k, length)
    ELSE IF node.maximum = UNBOUNDED
    THEN Powers(R, node.minimum, UNBOUNDED, length)
    ELSE Powers(R, node.minimum, k, length)

\* One optional round more is one power more.
LEMMA OneMorePower ==
    ASSUME NEW length \in Nat, NEW R, IsSpans(R, length),
           NEW low \in Nat, NEW k \in Nat, low <= k
    PROVE  Then(Powers(R, low, k, length), Powers(R, 0, 1, length)) =
              Powers(R, low, k + 1, length)
<1>1. k # UNBOUNDED /\ k + 1 # UNBOUNDED /\ 1 # UNBOUNDED
  BY DEF UNBOUNDED
<1> DEFINE P(n) == Power(R, n, length)
           A == Powers(R, low, k, length)
           B == Powers(R, low, k + 1, length)
           M == Powers(R, 0, 1, length)
<1>2. IsSpans(A, length) /\ IsSpans(B, length) /\ IsSpans(M, length)
  BY PowersSpans
<1>3. IsSpans(Then(A, M), length)
      /\ \A i, j : <<i, j>> \in Then(A, M) <=>
                      \E x : <<i, x>> \in A /\ <<x, j>> \in M
  BY <1>2, ThenPairs
<1>4. /\ \A p : p \in A <=> \E n \in low .. k : p \in P(n)
      /\ \A p : p \in B <=> \E n \in low .. k + 1 : p \in P(n)
  BY <1>1 DEF Powers
<1>5. \A i, j : <<i, j>> \in M <=> (i = j /\ i \in 0 .. length) \/ <<i,
      j>> \in R
  <2>1. M = Identity(length) \cup R
    BY PowersFacts
  <2>2. \A i, j : <<i, j>> \in Identity(length) <=> i = j /\ i \in 0 .. length
    BY IdentitySpans
  <2> DEFINE I == Identity(length)
  <2> HIDE DEF I, M
  <2> QED
    BY <2>1, <2>2 DEF I
<1>6. \A n \in Nat : \A i, j : <<i, j>> \in P(n + 1) <=>
                        \E x : <<i, x>> \in P(n) /\ <<x, j>> \in R
  BY PowerPairs
<1>7. \A i, j : <<i, j>> \in A => j \in 0 .. length
  BY <1>2 DEF IsSpans, Forward
<1> HIDE DEF P, A, B, M
<1>8. ASSUME NEW i, NEW j, <<i, j>> \in Then(A, M) PROVE <<i, j>> \in B
  <2>1. PICK x : <<i, x>> \in A /\ <<x, j>> \in M
    BY <1>3, <1>8
  <2>2. PICK n \in low .. k : <<i, x>> \in P(n)
    BY <1>4, <2>1
  <2>3. n \in Nat /\ n \in low .. k + 1 /\ n + 1 \in low .. k + 1
    BY <2>2
  <2>4. CASE x = j
    BY <1>4, <2>2, <2>3, <2>4
  <2>5. CASE <<x, j>> \in R
    BY <1>4, <1>6, <2>2, <2>3, <2>5
  <2> QED
    BY <1>5, <2>1, <2>4, <2>5
<1>9. ASSUME NEW i, NEW j, <<i, j>> \in B PROVE <<i, j>> \in Then(A, M)
  <2>1. PICK n \in low .. k + 1 : <<i, j>> \in P(n)
    BY <1>4, <1>9
  <2>2. CASE n \in low .. k
    <3>1. <<i, j>> \in A /\ j \in 0 .. length
      BY <1>4, <1>7, <2>1, <2>2
    <3> QED
      BY <1>3, <1>5, <3>1
  <2>3. CASE n = k + 1
    <3>1. PICK x : <<i, x>> \in P(k) /\ <<x, j>> \in R
      BY <1>6, <2>1, <2>3
    <3>2. k \in low .. k
      OBVIOUS
    <3>3. <<i, x>> \in A /\ <<x, j>> \in M
      BY <1>4, <1>5, <3>1, <3>2
    <3> QED
      BY <1>3, <3>3
  <2> QED
    BY <2>1, <2>2, <2>3
<1>10. Then(A, M) = B
  BY <1>2, <1>3, <1>8, <1>9, SameSpans
<1> QED
  BY <1>10 DEF A, B, M

\* The first part, and one part more.
LEMMA RoundsFacts ==
    ASSUME NEW length \in Nat, NEW R, IsSpans(R, length), NEW node,
           NEW low \in Nat, low = node.minimum,
           NEW high \in Nat \cup {UNBOUNDED}, high = node.maximum,
           high = UNBOUNDED \/ low <= high
    PROVE  /\ 0 < Parts(node) =>
                 Rounds(R, node, 1, length) = PartSpans(R, node, 0, length)
           /\ \A k \in Nat \ {0} : k < Parts(node) =>
                 Rounds(R, node, k + 1, length) =
                    Then(Rounds(R, node, k, length),
                         PartSpans(R, node, k, length))
           /\ Rounds(R, node, Parts(node), length) =
                 Powers(R, low, high, length)
           /\ \A k \in Nat : /\ IsSpans(Rounds(R, node, k, length), length)
                             /\ IsSpans(PartSpans(R, node, k, length), length)
<1> DEFINE P(n) == Power(R, n, length)
<1>1. \A k : Rounds(R, node, k, length) =
                IF k <= low THEN P(k)
                ELSE IF high = UNBOUNDED THEN Powers(R, low, UNBOUNDED, length)
                ELSE Powers(R, low, k, length)
  BY DEF Rounds
<1>2. \A k : PartSpans(R, node, k, length) =
                IF k < low THEN R
                ELSE IF high = UNBOUNDED THEN Powers(R, 0, UNBOUNDED, length)
                ELSE Powers(R, 0, 1, length)
  BY DEF PartSpans
<1>3. Parts(node) = IF high = UNBOUNDED THEN low + 1 ELSE high
  BY DEF Parts
<1>4. /\ P(1) = R /\ P(0) = Identity(length)
      /\ \A k \in Nat : P(k + 1) = Then(P(k), R)
      /\ Powers(R, 0, UNBOUNDED, length) = Closure(R, length)
      /\ Powers(R, low, UNBOUNDED, length) = Then(P(low), Closure(R, length))
      /\ Powers(R, 0, 0, length) = P(0)
  BY PowerFacts, PowersFacts DEF Powers
<1>5. ASSUME NEW k \in Nat PROVE Powers(R, k, k, length) = P(k)
  <2>1. k .. k = {k} /\ k # UNBOUNDED
    BY DEF UNBOUNDED
  <2> QED
    BY <2>1 DEF Powers
<1>6. \A k \in Nat : low <= k =>
         Then(Powers(R, low, k, length), Powers(R, 0, 1, length)) =
            Powers(R, low, k + 1, length)
  BY OneMorePower
<1>7. \A k \in Nat : IsSpans(P(k), length)
  BY PowerSpans
<1>8. \A a \in Nat, b \in Nat \cup {UNBOUNDED} : IsSpans(Powers(R, a, b,
      length), length)
  BY PowersSpans
<1> DEFINE Q(a, b) == Powers(R, a, b, length)
           F(k) == Rounds(R, node, k, length)
           G(k) == PartSpans(R, node, k, length)
           n == Parts(node)
<1> HIDE DEF P, Q, F, G, n
<1>9. 0 < n => F(1) = G(0)
  <2> SUFFICES ASSUME 0 < n PROVE F(1) = G(0)
    OBVIOUS
  <2>1. CASE low = 0
    BY <1>1, <1>2, <1>3, <2>1 DEF F, G, Q, n
  <2>2. CASE low # 0
    BY <1>1, <1>2, <1>4, <2>2 DEF F, G
  <2> QED
    BY <2>1, <2>2
<1>10. ASSUME NEW k \in Nat \ {0}, k < n
       PROVE  F(k + 1) = Then(F(k), G(k))
  <2>1. CASE k < low
    <3>1. k + 1 <= low /\ k <= low
      BY <2>1
    <3>2. F(k + 1) = P(k + 1) /\ F(k) = P(k) /\ G(k) = R
      BY <1>1, <1>2, <2>1, <3>1 DEF F, G
    <3> QED
      BY <1>4, <3>2
  <2>2. CASE low <= k /\ high = UNBOUNDED
    <3>1. k = low /\ ~ (k + 1 <= low)
      BY <1>3, <1>10, <2>2 DEF n
    <3>2. F(k + 1) = Q(low, UNBOUNDED) /\ F(k) = P(low)
          /\ G(k) = Closure(R, length)
      BY <1>1, <1>2, <1>4, <2>2, <3>1 DEF F, G, Q
    <3> QED
      BY <1>4, <3>2 DEF Q
  <2>3. CASE low <= k /\ high # UNBOUNDED
    <3>1. ~ (k + 1 <= low)
      BY <2>3
    <3>2. F(k + 1) = Q(low, k + 1) /\ G(k) = Q(0, 1)
      BY <1>1, <1>2, <2>3, <3>1 DEF F, G, Q
    <3>3. F(k) = Q(low, k)
      <4>1. CASE k = low
        BY <1>1, <1>5, <4>1 DEF F, Q
      <4>2. CASE k # low
        BY <1>1, <2>3, <4>2 DEF F, Q
      <4> QED
        BY <4>1, <4>2
    <3> QED
      BY <1>6, <2>3, <3>2, <3>3 DEF Q
  <2> QED
    BY <2>1, <2>2, <2>3
<1>11. F(n) = Q(low, high)
  <2>1. CASE high = UNBOUNDED
    <3>1. n = low + 1 /\ ~ (n <= low)
      BY <1>3, <2>1 DEF n
    <3> QED
      BY <1>1, <2>1, <3>1 DEF F, Q
  <2>2. CASE high # UNBOUNDED
    <3>1. n = high /\ low <= high /\ high \in Nat
      BY <1>3, <2>2 DEF n
    <3>2. CASE high = low
      BY <1>1, <1>5, <3>1, <3>2 DEF F, Q
    <3>3. CASE high # low
      BY <1>1, <2>2, <3>1, <3>3 DEF F, Q
    <3> QED
      BY <3>2, <3>3
  <2> QED
    BY <2>1, <2>2
<1>12. ASSUME NEW k \in Nat PROVE IsSpans(F(k), length)
              /\ IsSpans(G(k), length)
  <2>1. F(k) \in {P(k), Q(low, UNBOUNDED), Q(low, k)}
    BY <1>1 DEF F, Q
  <2>2. G(k) \in {R, Q(0, UNBOUNDED), Q(0, 1)}
    BY <1>2 DEF G, Q
  <2>3. IsSpans(Q(low, UNBOUNDED), length) /\ IsSpans(Q(low, k), length)
        /\ IsSpans(Q(0, UNBOUNDED), length) /\ IsSpans(Q(0, 1), length)
    BY <1>8 DEF Q
  <2> QED
    BY <1>7, <2>1, <2>2, <2>3
<1> QED
  BY <1>9, <1>10, <1>11, <1>12 DEF F, G, Q, n
-----------------------------------------------------------------------------
(* Fragments, and what is made of them.                                    *)

Part(low, high) == low .. high - 1

\* The transitions of a part of the program that lead nowhere yet.
OpenIn(sts, S) ==
    {r \in S \X {1, 2} :
        \/ r[2] = 1 /\ sts[r[1] + 1].out1 = NFA_INVALID_STATE
        \/ /\ r[2] = 2
           /\ sts[r[1] + 1].type = "SPLIT"
           /\ sts[r[1] + 1].out2 = NFA_INVALID_STATE}

NoMatch(sts, S) == \A s \in S : sts[s + 1].type # "MATCH"

\* A fragment is a part of the program that is entered at its start, that
\* only its open transitions leave, and that consumes the spans of R.
Stands(f, sts, t, low, high, R) ==
    LET S == Part(low, high)
    IN  /\ f.start \in S
        /\ f.out = OpenIn(sts, S)
        /\ Within(sts, S, NFA_INVALID_STATE)
        /\ NoMatch(sts, S)
        /\ Means(sts, t, S, f.start, NFA_INVALID_STATE, R)

\* Two programs have the same states in a part.
SameStates(old, new, S) ==
    \A s \in S : /\ new[s + 1].type = old[s + 1].type
                 /\ new[s + 1].chars = old[s + 1].chars
                 /\ new[s + 1].out1 = old[s + 1].out1
                 /\ new[s + 1].out2 = old[s + 1].out2

\* A program of n states in which the transitions of a list lead to `to`.
IsPatched(old, new, list, to, n) ==
    /\ new \in Seq(NfaState) /\ n = Len(new)
    /\ \A s \in 0 .. n - 1 :
          /\ new[s + 1].type = old[s + 1].type
          /\ new[s + 1].chars = old[s + 1].chars
          /\ new[s + 1].out1 = IF <<s, 1>> \in list THEN to
                               ELSE old[s + 1].out1
          /\ new[s + 1].out2 = IF <<s, 2>> \in list THEN to
                               ELSE old[s + 1].out2

\* Patching does that.
LEMMA PatchedStates ==
    ASSUME NEW sts \in Seq(NfaState), NEW list, NEW to \in Nat,
           NEW n \in Nat, n = Len(sts),
           NEW new, new = Patched(sts, list, to)
    PROVE  IsPatched(sts, new, list, to, n)
<1>1. /\ new \in Seq(NfaState) /\ Len(new) = Len(sts)
      /\ \A i \in 1 .. Len(sts) :
            /\ new[i].type = sts[i].type
            /\ new[i].out1 = IF <<i - 1, 1>> \in list THEN to ELSE sts[i].out1
            /\ new[i].out2 = IF <<i - 1, 2>> \in list THEN to ELSE sts[i].out2
  <2> DEFINE p == Patched(sts, list, to)
  <2>1. /\ p \in Seq(NfaState) /\ Len(p) = Len(sts)
        /\ \A i \in 1 .. Len(sts) :
              /\ p[i].type = sts[i].type
              /\ p[i].out1 = IF <<i - 1, 1>> \in list THEN to ELSE sts[i].out1
              /\ p[i].out2 = IF <<i - 1, 2>> \in list THEN to ELSE sts[i].out2
    BY ONLY sts \in Seq(NfaState), to \in Nat, Patching
  <2>2. new = p
    OBVIOUS
  <2> HIDE DEF p
  <2> QED
    BY <2>1, <2>2
<1>2. ASSUME NEW i \in 1 .. Len(sts) PROVE new[i].chars = sts[i].chars
  <2>1. i \in DOMAIN sts /\ sts[i] \in NfaState
    OBVIOUS
  <2> DEFINE a == IF <<i - 1, 1>> \in list THEN to ELSE sts[i].out1
             b == IF <<i - 1, 2>> \in list THEN to ELSE sts[i].out2
  <2>2. new[i] = [sts[i] EXCEPT !.out1 = a, !.out2 = b]
    BY <2>1 DEF Patched
  <2> HIDE DEF a, b
  <2> QED
    BY <2>1, <2>2 DEF NfaState
<1>3. ASSUME NEW s \in 0 .. n - 1
      PROVE  /\ new[s + 1].type = sts[s + 1].type
             /\ new[s + 1].chars = sts[s + 1].chars
             /\ new[s + 1].out1 = IF <<s, 1>> \in list THEN to
                                  ELSE sts[s + 1].out1
             /\ new[s + 1].out2 = IF <<s, 2>> \in list THEN to
                                  ELSE sts[s + 1].out2
  <2>1. s + 1 \in 1 .. Len(sts) /\ (s + 1) - 1 = s
    OBVIOUS
  <2> DEFINE i == s + 1
  <2>2. i \in 1 .. Len(sts) /\ i - 1 = s
    BY <2>1
  <2> HIDE DEF i
  <2>3. /\ new[i].type = sts[i].type /\ new[i].chars = sts[i].chars
        /\ new[i].out1 = IF <<i - 1, 1>> \in list THEN to ELSE sts[i].out1
        /\ new[i].out2 = IF <<i - 1, 2>> \in list THEN to ELSE sts[i].out2
    BY <1>1, <1>2, <2>2
  <2> QED
    BY ONLY <2>2, <2>3 DEF i
<1> QED
  BY <1>1, <1>3 DEF IsPatched

Grow(sts, type, chars) == Append(sts, NewState(type, chars))

\* The states of a program that one more state is added to.
LEMMA GrownStates ==
    ASSUME NEW sts \in Seq(NfaState), NEW type \in NfaStateType,
           NEW chars \in SUBSET Chars, NEW n \in Nat, n = Len(sts)
    PROVE  LET new == Grow(sts, type, chars)
           IN  /\ new \in Seq(NfaState) /\ n + 1 = Len(new)
               /\ SameStates(sts, new, 0 .. n - 1)
               /\ new[n + 1].type = type /\ new[n + 1].chars = chars
               /\ new[n + 1].out1 = NFA_INVALID_STATE
               /\ new[n + 1].out2 = NFA_INVALID_STATE
<1> DEFINE e == NewState(type, chars)
<1>1. e \in NfaState
  BY DEF NewState, NfaState
<1>2. /\ e.type = type /\ e.chars = chars /\ e.out1 = NFA_INVALID_STATE
      /\ e.out2 = NFA_INVALID_STATE
  BY DEF NewState
<1> HIDE DEF e
<1> DEFINE new == Append(sts, e)
<1>3. /\ new \in Seq(NfaState) /\ Len(new) = Len(sts) + 1
      /\ \A i \in 1 .. Len(sts) : new[i] = sts[i]
      /\ new[Len(sts) + 1] = e
  BY <1>1, Appending
<1> HIDE DEF new
<1>4. \A s \in 0 .. n - 1 : s + 1 \in 1 .. n
  OBVIOUS
<1>5. SameStates(sts, new, 0 .. n - 1)
  BY <1>3, <1>4 DEF SameStates
<1> QED
  BY <1>2, <1>3, <1>5 DEF Grow, new, e

\* The same states are the same fragment.
LEMMA SameStands ==
    ASSUME NEW old, NEW new, NEW low \in Nat, NEW high \in Nat, NEW f, NEW t,
           NEW R, SameStates(old, new, Part(low, high)),
           Stands(f, old, t, low, high, R)
    PROVE  Stands(f, new, t, low, high, R)
<1> DEFINE S == Part(low, high)
<1>1. NFA_INVALID_STATE \notin S
  BY DEF Part, NFA_INVALID_STATE
<1> HIDE DEF S
<1>2. /\ f.start \in S /\ f.out = OpenIn(old, S)
      /\ Within(old, S, NFA_INVALID_STATE) /\ NoMatch(old, S)
      /\ Means(old, t, S, f.start, NFA_INVALID_STATE, R)
      /\ SameStates(old, new, S)
  BY DEF Stands, S
<1>3. Redirects(old, new, S, NFA_INVALID_STATE, NFA_INVALID_STATE)
  BY <1>2 DEF Redirects, SameStates
<1>4. /\ Means(new, t, S, f.start, NFA_INVALID_STATE, R)
      /\ Within(new, S, NFA_INVALID_STATE)
  BY <1>1, <1>2, <1>3, RedirectedMeans
<1>5. OpenIn(new, S) = OpenIn(old, S) /\ NoMatch(new, S)
  BY <1>2 DEF OpenIn, NoMatch, SameStates
<1> QED
  BY <1>2, <1>4, <1>5 DEF Stands, S

\* A list that leaves a part alone.
LEMMA PatchedSame ==
    ASSUME NEW sts \in Seq(NfaState), NEW list, NEW to \in Nat,
           NEW n \in Nat, n = Len(sts), NEW S \in SUBSET (0 .. n - 1),
           \A s \in S : <<s, 1>> \notin list /\ <<s, 2>> \notin list,
           NEW new, new = Patched(sts, list, to)
    PROVE  SameStates(sts, new, S)
<1>1. IsPatched(sts, new, list, to, n)
  BY ONLY sts \in Seq(NfaState), to \in Nat, n \in Nat, n = Len(sts),
          new = Patched(sts, list, to), PatchedStates
<1> QED
  BY <1>1 DEF SameStates, IsPatched

\* A fragment whose open transitions have been patched.
LEMMA PatchedStands ==
    ASSUME NEW sts \in Seq(NfaState), NEW f, NEW t, NEW low \in Nat,
           NEW high \in Nat, NEW n \in Nat, n = Len(sts), high <= n, NEW R,
           Stands(f, sts, t, low, high, R),
           NEW to \in Nat, to \notin Part(low, high),
           NEW new, new = Patched(sts, f.out, to)
    PROVE  LET S == Part(low, high)
           IN  /\ Means(new, t, S, f.start, to, R)
               /\ Within(new, S, to) /\ NoMatch(new, S)
<1> DEFINE S == Part(low, high)
           list == f.out
<1>1. S \in SUBSET (0 .. n - 1)
  BY DEF Part
<1>2. IsPatched(sts, new, list, to, n)
  BY ONLY sts \in Seq(NfaState), to \in Nat, n \in Nat, n = Len(sts),
          new = Patched(sts, f.out, to), PatchedStates DEF list
<1> HIDE DEF S, list
<1>3. /\ f.out = OpenIn(sts, S) /\ Within(sts, S, NFA_INVALID_STATE)
      /\ NoMatch(sts, S)
      /\ Means(sts, t, S, f.start, NFA_INVALID_STATE, R)
  BY DEF Stands, S
<1>4. \A s \in S :
         /\ <<s, 1>> \in f.out <=> sts[s + 1].out1 = NFA_INVALID_STATE
         /\ <<s, 2>> \in f.out <=> /\ sts[s + 1].type = "SPLIT"
                                   /\ sts[s + 1].out2 = NFA_INVALID_STATE
  BY <1>3 DEF OpenIn
<1>5. Redirects(sts, new, S, NFA_INVALID_STATE, to)
  BY <1>1, <1>2, <1>4 DEF Redirects, IsPatched, list
<1>6. to \notin S
  BY DEF S
<1>7. Means(new, t, S, f.start, to, R) /\ Within(new, S, to)
  BY <1>3, <1>5, <1>6, RedirectedMeans
<1>8. NoMatch(new, S)
  BY <1>1, <1>2, <1>3 DEF NoMatch, IsPatched
<1> QED
  BY <1>7, <1>8 DEF S

\* What the parts of a part are.
LEMMA SplitParts ==
    ASSUME NEW low \in Nat, NEW mid \in Nat, NEW high \in Nat,
           low <= mid, mid <= high
    PROVE  /\ Part(low, high) = Part(low, mid) \cup Part(mid, high)
           /\ Part(low, mid) \cap Part(mid, high) = {}
           /\ Part(mid, mid + 1) = {mid} /\ mid \notin Part(low, mid)
           /\ Part(low, mid + 1) = Part(low, mid) \cup {mid}
           /\ NFA_INVALID_STATE \notin Part(low, high)
           /\ NFA_INVALID_STATE \notin Part(low, mid)
           /\ NFA_INVALID_STATE \notin Part(mid, high)
           /\ NFA_INVALID_STATE # mid
BY DEF Part, NFA_INVALID_STATE

\* What two parts leave open together.
LEMMA OpenInBoth ==
    ASSUME NEW sts, NEW S1, NEW S2
    PROVE  /\ OpenIn(sts, S1 \cup S2) = OpenIn(sts, S1) \cup OpenIn(sts, S2)
           /\ NoMatch(sts, S1) /\ NoMatch(sts, S2) => NoMatch(sts, S1 \cup S2)
<1>1. \A r : r \in OpenIn(sts, S1 \cup S2) <=>
                r \in OpenIn(sts, S1) \/ r \in OpenIn(sts, S2)
  BY DEF OpenIn
<1> QED
  BY <1>1 DEF NoMatch

\* A part that has another exit leaves nothing open.
LEMMA OpenInNone ==
    ASSUME NEW sts, NEW S, NEW exit, Within(sts, S, exit),
           NFA_INVALID_STATE \notin S, exit # NFA_INVALID_STATE
    PROVE  OpenIn(sts, S) = {}
BY DEF OpenIn, Within

\* What a fragment is, without its name.
LEMMA StandsFacts ==
    ASSUME NEW f, NEW sts, NEW t, NEW low \in Nat, NEW high \in Nat, NEW R,
           Stands(f, sts, t, low, high, R)
    PROVE  /\ f.start \in Part(low, high) /\ f.start \in Nat
           /\ low <= f.start /\ f.start < high
           /\ f.out = OpenIn(sts, Part(low, high))
           /\ Within(sts, Part(low, high), NFA_INVALID_STATE)
           /\ NoMatch(sts, Part(low, high))
           /\ Means(sts, t, Part(low, high), f.start, NFA_INVALID_STATE, R)
           /\ \A s : s \notin Part(low, high) =>
                        <<s, 1>> \notin f.out /\ <<s, 2>> \notin f.out
<1>1. f.start \in Part(low, high) /\ f.out = OpenIn(sts, Part(low, high))
  BY DEF Stands
<1>2. f.start \in Nat /\ low <= f.start /\ f.start < high
  BY <1>1 DEF Part
<1>3. \A s, k : <<s, k>> \in f.out => s \in Part(low, high)
  BY <1>1 DEF OpenIn
<1> QED
  BY <1>1, <1>2, <1>3 DEF Stands

\* The states that are the same in a part are so in all of its parts, and
\* after another change.
LEMMA SameThrough ==
    ASSUME NEW a, NEW b, NEW c, NEW S, NEW T \in SUBSET S,
           SameStates(a, b, S), SameStates(b, c, T)
    PROVE  SameStates(a, c, T) /\ SameStates(a, b, T)
BY DEF SameStates

\* Two fragments, one after the other.
LEMMA JoinStands ==
    ASSUME NEW sts \in Seq(NfaState), NEW n \in Nat, n = Len(sts), NEW t,
           Len(t) \in Nat, NEW low \in Nat, NEW mid \in Nat,
           NEW high \in Nat, low <= mid, high <= n, NEW R1, NEW R2,
           IsSpans(R1, Len(t)), IsSpans(R2, Len(t)), NEW a, NEW b,
           Stands(a, sts, t, low, mid, R1), Stands(b, sts, t, mid, high, R2),
           NEW new, new = Patched(sts, a.out, b.start),
           NEW f, f.start = a.start, f.out = b.out
    PROVE  Stands(f, new, t, low, high, Then(R1, R2))
<1> DEFINE S1 == Part(low, mid)
           S2 == Part(mid, high)
<1>1. /\ a.start \in S1 /\ NoMatch(sts, S1)
      /\ \A s : s \notin S1 => <<s, 1>> \notin a.out /\ <<s, 2>> \notin a.out
  BY StandsFacts
<1>2. b.start \in S2 /\ b.start \in Nat /\ mid <= b.start /\ b.start < high
  BY StandsFacts
<1>3. /\ Part(low, high) = S1 \cup S2 /\ S1 \cap S2 = {}
      /\ NFA_INVALID_STATE \notin S1 /\ NFA_INVALID_STATE \notin S2
  <2>1. mid <= high
    BY <1>2
  <2> QED
    BY ONLY low \in Nat, mid \in Nat, high \in Nat, low <= mid, <2>1,
            SplitParts, SMTT(30)
<1>4. S2 \in SUBSET (0 .. n - 1) /\ mid <= n
  BY <1>2 DEF Part
<1>5. /\ Means(new, t, S1, a.start, b.start, R1)
      /\ Within(new, S1, b.start) /\ NoMatch(new, S1)
  <2>1. b.start \notin S1
    BY <1>2, <1>3
  <2> QED
    BY ONLY sts \in Seq(NfaState), n \in Nat, n = Len(sts), low \in Nat,
            mid \in Nat, <1>4, Stands(a, sts, t, low, mid, R1), <1>2, <2>1,
            new = Patched(sts, a.out, b.start), PatchedStands
<1>6. SameStates(sts, new, S2)
  <2>1. \A s \in S2 : <<s, 1>> \notin a.out /\ <<s, 2>> \notin a.out
    BY <1>1, <1>3
  <2> HIDE DEF S2
  <2> QED
    BY ONLY sts \in Seq(NfaState), n \in Nat, n = Len(sts), <1>2, <1>4, <2>1,
            new = Patched(sts, a.out, b.start), PatchedSame
<1>7. Stands(b, new, t, mid, high, R2)
  BY <1>6, SameStands
<1>8. /\ Means(new, t, S2, b.start, NFA_INVALID_STATE, R2)
      /\ Within(new, S2, NFA_INVALID_STATE) /\ NoMatch(new, S2)
      /\ b.out = OpenIn(new, S2)
  BY <1>7 DEF Stands
<1> HIDE DEF S1, S2
<1>9. /\ Means(new, t, S1 \cup S2, a.start, NFA_INVALID_STATE, Then(R1, R2))
      /\ Within(new, S1 \cup S2, NFA_INVALID_STATE)
  BY <1>2, <1>3, <1>5, <1>8, MeansThen
<1>10. OpenIn(new, S1) = {}
  <2>1. b.start # NFA_INVALID_STATE
    BY <1>2 DEF NFA_INVALID_STATE
  <2> QED
    BY <1>3, <1>5, <2>1, OpenInNone
<1>11. f.out = OpenIn(new, S1 \cup S2) /\ NoMatch(new, S1 \cup S2)
  <2>1. OpenIn(new, S1 \cup S2) = OpenIn(new, S1) \cup OpenIn(new, S2)
    BY OpenInBoth
  <2>2. NoMatch(new, S1 \cup S2)
    BY <1>5, <1>8, OpenInBoth
  <2> QED
    BY <1>8, <1>10, <2>1, <2>2
<1>12. f.start \in S1 \cup S2
  BY <1>1
<1> QED
  BY <1>3, <1>9, <1>11, <1>12 DEF Stands

\* A program that is one split longer.
IsSplit(old, new, n, to) ==
    /\ new \in Seq(NfaState) /\ n + 1 = Len(new)
    /\ SameStates(old, new, 0 .. n - 1)
    /\ new[n + 1].type = "SPLIT" /\ new[n + 1].out1 = to
    /\ new[n + 1].out2 = NFA_INVALID_STATE

\* Appending a SPLIT state gives a split, and keeps what was there.
LEMMA GrownSplit ==
    ASSUME NEW sts \in Seq(NfaState), NEW n \in Nat, n = Len(sts),
           NEW to \in Nat,
           NEW new, new = Patched(Grow(sts, "SPLIT", {}), {<<n, 1>>}, to)
    PROVE  IsSplit(sts, new, n, to)
<1> DEFINE g == Grow(sts, "SPLIT", {})
<1>1. /\ g \in Seq(NfaState) /\ n + 1 = Len(g)
      /\ SameStates(sts, g, 0 .. n - 1)
      /\ g[n + 1].type = "SPLIT" /\ g[n + 1].out1 = NFA_INVALID_STATE
      /\ g[n + 1].out2 = NFA_INVALID_STATE
  <2>1. "SPLIT" \in NfaStateType /\ {} \in SUBSET Chars
    BY DEF NfaStateType, Listed
  <2> QED
    BY <2>1, GrownStates
<1> HIDE DEF g
<1> DEFINE m == n + 1
           list == {<<n, 1>>}
<1>2. m \in Nat /\ m = Len(g) /\ new = Patched(g, list, to)
  BY <1>1 DEF g
<1>3. n \in 0 .. m - 1 /\ \A s \in 0 .. n - 1 : s \in 0 .. m - 1
  OBVIOUS
<1>4. /\ <<n, 1>> \in list /\ <<n, 2>> \notin list
      /\ \A s \in 0 .. n - 1 : <<s, 1>> \notin list /\ <<s, 2>> \notin list
  OBVIOUS
<1> HIDE DEF m, list
<1>5. IsPatched(g, new, list, to, m)
  BY ONLY to \in Nat, <1>1, <1>2, PatchedStates
<1>6. SameStates(g, new, 0 .. n - 1)
  BY <1>3, <1>4, <1>5 DEF IsPatched, SameStates
<1>7. SameStates(sts, new, 0 .. n - 1)
  BY <1>1, <1>6, SameThrough
<1>8. new[n + 1].type = "SPLIT" /\ new[n + 1].out1 = to
      /\ new[n + 1].out2 = NFA_INVALID_STATE
  BY <1>1, <1>3, <1>4, <1>5 DEF IsPatched
<1> QED
  BY <1>5, <1>7, <1>8 DEF IsSplit, IsPatched, m

\* A choice between two fragments.
LEMMA ChooseStands ==
    ASSUME NEW sts \in Seq(NfaState), NEW n \in Nat, n = Len(sts), NEW t,
           NEW low \in Nat, NEW mid \in Nat, low <= mid, NEW R1, NEW R2,
           NEW a, NEW b,
           Stands(a, sts, t, low, mid, R1), Stands(b, sts, t, mid, n, R2),
           NEW new, new = Patched(Patched(Grow(sts, "SPLIT", {}), {<<n, 1>>},
                                          a.start),
                                  {<<n, 2>>}, b.start),
           NEW f, f.start = n, f.out = a.out \cup b.out
    PROVE  Stands(f, new, t, low, n + 1, R1 \cup R2)
<1> DEFINE S1 == Part(low, mid)
           S2 == Part(mid, n)
           e1 == a.start
           e2 == b.start
           one == Patched(Grow(sts, "SPLIT", {}), {<<n, 1>>}, e1)
           list == {<<n, 2>>}
           m == n + 1
<1>1. e1 \in S1 /\ e1 \in Nat /\ e1 < mid
  BY StandsFacts
<1>2. e2 \in S2 /\ e2 \in Nat /\ mid <= e2 /\ e2 < n
  BY StandsFacts
<1>3. /\ Part(low, n) = S1 \cup S2 /\ S1 \cap S2 = {}
      /\ Part(low, m) = S1 \cup S2 \cup {n} /\ n \notin S1 /\ n \notin S2
      /\ NFA_INVALID_STATE \notin S1 /\ NFA_INVALID_STATE \notin S2
      /\ NFA_INVALID_STATE # n
      /\ S1 \in SUBSET (0 .. n - 1) /\ S2 \in SUBSET (0 .. n - 1)
  BY <1>2 DEF Part, NFA_INVALID_STATE
<1>4. IsSplit(sts, one, n, e1)
  BY <1>1, GrownSplit
<1>5. new = Patched(one, list, e2) /\ m \in Nat
  OBVIOUS
<1>6. /\ n \in 0 .. m - 1 /\ \A s \in 0 .. n - 1 : s \in 0 .. m - 1
      /\ <<n, 1>> \notin list /\ <<n, 2>> \in list
      /\ \A s \in 0 .. n - 1 : <<s, 1>> \notin list /\ <<s, 2>> \notin list
  OBVIOUS
<1>7. one \in Seq(NfaState) /\ m = Len(one)
  BY <1>4 DEF IsSplit
<1> HIDE DEF one, list, S1, S2, e1, e2
<1>8. IsPatched(one, new, list, e2, m)
  BY ONLY <1>2, <1>5, <1>7, PatchedStates
<1>9. SameStates(one, new, 0 .. n - 1)
  BY <1>6, <1>8 DEF IsPatched, SameStates
<1>10. SameStates(sts, new, S1) /\ SameStates(sts, new, S2)
  <2>1. SameStates(sts, new, 0 .. n - 1)
    BY <1>4, <1>9, ZenonT(60) DEF IsSplit, SameStates
  <2> QED
    BY <1>3, <2>1 DEF SameStates
<1>11. /\ new[n + 1].type = "SPLIT" /\ new[n + 1].out1 = e1
       /\ new[n + 1].out2 = e2
  BY <1>4, <1>6, <1>8 DEF IsPatched, IsSplit
<1>12. Stands(a, new, t, low, mid, R1) /\ Stands(b, new, t, mid, n, R2)
  BY <1>10, SameStands DEF S1, S2
<1>13. /\ Means(new, t, S1, e1, NFA_INVALID_STATE, R1)
       /\ Within(new, S1, NFA_INVALID_STATE) /\ NoMatch(new, S1)
       /\ a.out = OpenIn(new, S1)
  BY <1>12 DEF Stands, S1, e1
<1>14. /\ Means(new, t, S2, e2, NFA_INVALID_STATE, R2)
       /\ Within(new, S2, NFA_INVALID_STATE) /\ NoMatch(new, S2)
       /\ b.out = OpenIn(new, S2)
  BY <1>12 DEF Stands, S2, e2
<1> DEFINE S == S1 \cup S2 \cup {n}
<1>15. /\ Means(new, t, S, n, NFA_INVALID_STATE, R1 \cup R2)
       /\ Within(new, S, NFA_INVALID_STATE)
  BY <1>1, <1>2, <1>3, <1>11, <1>13, <1>14, MeansEither, ZenonT(60)
<1>16. OpenIn(new, {n}) = {} /\ NoMatch(new, {n})
  <2>1. e1 # NFA_INVALID_STATE /\ e2 # NFA_INVALID_STATE
    BY <1>1, <1>2 DEF NFA_INVALID_STATE
  <2>2. OpenIn(new, {n}) = {}
    BY <1>11, <2>1 DEF OpenIn
  <2> QED
    BY <1>11, <2>2 DEF NoMatch
<1>17. f.out = OpenIn(new, S)
  <2>1. OpenIn(new, S) = OpenIn(new, S1 \cup S2) \cup OpenIn(new, {n})
    BY OpenInBoth
  <2>2. OpenIn(new, S1 \cup S2) = OpenIn(new, S1) \cup OpenIn(new, S2)
    BY OpenInBoth
  <2> QED
    BY <1>13, <1>14, <1>16, <2>1, <2>2
<1>18. NoMatch(new, S)
  BY <1>13, <1>14, <1>16 DEF NoMatch
<1>19. f.start \in S
  OBVIOUS
<1> HIDE DEF S
<1>20. Part(low, m) = S
  BY <1>3 DEF S
<1> QED
  BY <1>15, <1>17, <1>18, <1>19, <1>20 DEF Stands

\* A fragment that may be run through any number of times: entered at the
\* split that is added, or at the fragment itself.
LEMMA LoopStands ==
    ASSUME NEW sts \in Seq(NfaState), NEW n \in Nat, n = Len(sts), NEW t,
           Len(t) \in Nat, NEW low \in Nat, NEW R, IsSpans(R, Len(t)), NEW b,
           Stands(b, sts, t, low, n, R),
           NEW new, new = Patched(Patched(Grow(sts, "SPLIT", {}), {<<n, 1>>},
                                          b.start),
                                  b.out, n),
           NEW f, f.out = {<<n, 2>>}
    PROVE  /\ f.start = n =>
                 Stands(f, new, t, low, n + 1, Closure(R, Len(t)))
           /\ f.start = b.start =>
                 Stands(f, new, t, low, n + 1, Then(R, Closure(R, Len(t))))
<1> DEFINE S1 == Part(low, n)
           e1 == b.start
           one == Patched(Grow(sts, "SPLIT", {}), {<<n, 1>>}, e1)
           list == b.out
           m == n + 1
<1>1. e1 \in S1 /\ e1 \in Nat /\ low <= e1 /\ e1 < n
      /\ \A s : s \notin S1 => <<s, 1>> \notin list /\ <<s, 2>> \notin list
  BY StandsFacts
<1>2. /\ Part(low, m) = S1 \cup {n} /\ n \notin S1
      /\ NFA_INVALID_STATE \notin S1 /\ NFA_INVALID_STATE # n
      /\ S1 \in SUBSET (0 .. n - 1)
  BY <1>1 DEF Part, NFA_INVALID_STATE
<1>3. IsSplit(sts, one, n, e1)
  BY <1>1, GrownSplit
<1>4. new = Patched(one, list, n) /\ m \in Nat /\ n <= m
  OBVIOUS
<1>5. one \in Seq(NfaState) /\ m = Len(one)
  BY <1>3 DEF IsSplit
<1> HIDE DEF one
<1>6. Stands(b, one, t, low, n, R)
  <2>1. SameStates(sts, one, S1)
    BY <1>2, <1>3 DEF IsSplit, SameStates
  <2> QED
    BY <2>1, SameStands
<1>7. /\ Means(new, t, S1, e1, n, R) /\ Within(new, S1, n)
      /\ NoMatch(new, S1)
  BY ONLY n \in Nat, low \in Nat, <1>2, <1>4, <1>5, <1>6, PatchedStands
<1> HIDE DEF list
<1>8. IsPatched(one, new, list, n, m)
  BY ONLY n \in Nat, <1>4, <1>5, PatchedStates
<1>9. /\ new[n + 1].type = "SPLIT" /\ new[n + 1].out1 = e1
      /\ new[n + 1].out2 = NFA_INVALID_STATE
  <2>1. n \in 0 .. m - 1
    OBVIOUS
  <2> HIDE DEF m
  <2> QED
    BY <1>1, <1>2, <1>3, <1>8, <2>1 DEF IsPatched, IsSplit
<1> HIDE DEF S1, e1
<1> DEFINE S == S1 \cup {n}
           star == Closure(R, Len(t))
<1>10. Chains(R, star, Len(t))
  BY ClosureChains
<1> HIDE DEF star
<1>11. /\ Means(new, t, S, n, NFA_INVALID_STATE, star)
       /\ Means(new, t, S, e1, NFA_INVALID_STATE, Then(R, star))
       /\ Within(new, S, NFA_INVALID_STATE)
  BY <1>1, <1>2, <1>7, <1>9, <1>10, MeansLoop, ZenonT(60)
<1>12. f.out = OpenIn(new, S)
  <2>1. OpenIn(new, S) = OpenIn(new, S1) \cup OpenIn(new, {n})
    BY OpenInBoth
  <2>2. OpenIn(new, S1) = {}
    BY <1>2, <1>7, OpenInNone
  <2>3. OpenIn(new, {n}) = {<<n, 2>>}
    BY <1>1, <1>9 DEF OpenIn, NFA_INVALID_STATE
  <2> QED
    BY <2>1, <2>2, <2>3
<1>13. NoMatch(new, S)
  BY <1>7, <1>9 DEF NoMatch
<1>14. n \in S /\ e1 \in S
  BY <1>1
<1> HIDE DEF S
<1>15. Part(low, m) = S
  BY <1>2 DEF S
<1>16. f.start = n => Stands(f, new, t, low, m, star)
  BY <1>11, <1>12, <1>13, <1>14, <1>15 DEF Stands
<1>17. f.start = e1 => Stands(f, new, t, low, m, Then(R, star))
  BY <1>11, <1>12, <1>13, <1>14, <1>15 DEF Stands
<1> QED
  BY <1>16, <1>17 DEF e1, star

\* A fragment that may be left out.
LEMMA MaybeStands ==
    ASSUME NEW sts \in Seq(NfaState), NEW n \in Nat, n = Len(sts), NEW t,
           NEW low \in Nat, NEW R, NEW b, Stands(b, sts, t, low, n, R),
           NEW new, new = Patched(Grow(sts, "SPLIT", {}), {<<n, 1>>}, b.start),
           NEW f, f.start = n, f.out = b.out \cup {<<n, 2>>}
    PROVE  Stands(f, new, t, low, n + 1, Identity(Len(t)) \cup R)
<1> DEFINE S1 == Part(low, n)
           e1 == b.start
           m == n + 1
<1>1. e1 \in S1 /\ e1 \in Nat /\ low <= e1 /\ e1 < n
  BY StandsFacts
<1>2. /\ Part(low, m) = S1 \cup {n} /\ n \notin S1
      /\ NFA_INVALID_STATE \notin S1 /\ NFA_INVALID_STATE # n
      /\ S1 \in SUBSET (0 .. n - 1)
  BY <1>1 DEF Part, NFA_INVALID_STATE
<1>3. IsSplit(sts, new, n, e1)
  BY <1>1, GrownSplit
<1>4. Stands(b, new, t, low, n, R)
  <2>1. SameStates(sts, new, S1)
    BY <1>2, <1>3 DEF IsSplit, SameStates
  <2> QED
    BY <2>1, SameStands
<1>5. /\ Means(new, t, S1, e1, NFA_INVALID_STATE, R)
      /\ Within(new, S1, NFA_INVALID_STATE) /\ NoMatch(new, S1)
      /\ b.out = OpenIn(new, S1)
  BY <1>4 DEF Stands
<1>6. /\ new[n + 1].type = "SPLIT" /\ new[n + 1].out1 = e1
      /\ new[n + 1].out2 = NFA_INVALID_STATE
  BY <1>3 DEF IsSplit
<1> HIDE DEF S1, e1
<1> DEFINE S == S1 \cup {n}
           all == Identity(Len(t)) \cup R
<1>7. /\ Means(new, t, S, n, NFA_INVALID_STATE, all)
      /\ Within(new, S, NFA_INVALID_STATE)
  BY <1>1, <1>2, <1>5, <1>6, MeansMaybe
<1>8. f.out = OpenIn(new, S)
  <2>1. OpenIn(new, S) = OpenIn(new, S1) \cup OpenIn(new, {n})
    BY OpenInBoth
  <2>2. OpenIn(new, {n}) = {<<n, 2>>}
    BY <1>1, <1>6 DEF OpenIn, NFA_INVALID_STATE
  <2> QED
    BY <1>5, <2>1, <2>2
<1>9. NoMatch(new, S)
  BY <1>5, <1>6 DEF NoMatch
<1>10. n \in S
  OBVIOUS
<1> HIDE DEF S, all
<1>11. Part(low, m) = S
  BY <1>2 DEF S
<1>12. Stands(f, new, t, low, m, all)
  BY <1>7, <1>8, <1>9, <1>10, <1>11 DEF Stands
<1> QED
  BY <1>12 DEF all

\* The spans a state without a second transition consumes by itself.
Reads(type, chars, t, R) ==
    \A state : state.type = type /\ state.chars = chars =>
       \A q \in Offsets(t), r \in Offsets(t) :
          Takes(state, t, q, r) <=> <<q, r>> \in R

\* Such a state is a fragment.
LEMMA OneStands ==
    ASSUME NEW sts \in Seq(NfaState), NEW n \in Nat, n = Len(sts), NEW t,
           NEW type \in NfaStateType \ {"SPLIT", "MATCH"},
           NEW chars \in SUBSET Chars, NEW R, IsSpans(R, Len(t)),
           Reads(type, chars, t, R),
           NEW new, new = Grow(sts, type, chars),
           NEW f, f.start = n, f.out = {<<n, 1>>}
    PROVE  Stands(f, new, t, n, n + 1, R)
<1>1. /\ new[n + 1].type = type /\ new[n + 1].chars = chars
      /\ new[n + 1].out1 = NFA_INVALID_STATE
  BY GrownStates
<1>2. Part(n, n + 1) = {n} /\ NFA_INVALID_STATE # n
  BY DEF Part, NFA_INVALID_STATE
<1>3. new[n + 1].type # "SPLIT" /\ new[n + 1].type # "MATCH"
  BY <1>1
<1>4. \A q \in Offsets(t), r \in Offsets(t) :
         Takes(new[n + 1], t, q, r) <=> <<q, r>> \in R
  BY <1>1 DEF Reads
<1>5. /\ Means(new, t, {n}, n, NFA_INVALID_STATE, R)
      /\ Within(new, {n}, NFA_INVALID_STATE)
  BY <1>1, <1>2, <1>3, <1>4, MeansOne
<1>6. f.out = OpenIn(new, {n})
  BY <1>1, <1>3 DEF OpenIn
<1>7. NoMatch(new, {n})
  BY <1>3 DEF NoMatch
<1> QED
  BY <1>2, <1>5, <1>6, <1>7 DEF Stands

\* The leaves of a tree, and the repetition of nothing, are such states.
LEMMA LeavesRead ==
    ASSUME NEW t, Len(t) \in Nat, NEW chars
    PROVE  /\ Reads("JUMP", chars, t, Identity(Len(t)))
           /\ Reads("CHAR", chars, t, Singles(t, chars))
           /\ Reads("CLASS", chars, t, Singles(t, chars))
           /\ Reads("ANY", chars, t, AnyOne(t))
           /\ Reads("ASSERT_START", chars, t, {<<0, 0>>})
           /\ Reads("ASSERT_END", chars, t, {<<Len(t), Len(t)>>})
<1> DEFINE length == Len(t)
<1>1. \A q, r : <<q, r>> \in Identity(length) <=> q = r /\ q \in 0 .. length
  BY IdentitySpans
<1>2. \A q, r : <<q, r>> \in AnyOne(t) <=> q \in 0 .. length - 1 /\ r = q + 1
  BY DEF AnyOne
<1>3. \A q, r : <<q, r>> \in Singles(t, chars) <=>
                   q \in 0 .. length - 1 /\ r = q + 1 /\ t[q + 1] \in chars
  BY DEF Singles
<1>4. Offsets(t) = 0 .. length /\ length \in Nat
  BY DEF Offsets
<1> HIDE DEF length
<1>5. \A q \in 0 .. length : q < length <=> q \in 0 .. length - 1
  BY <1>4
<1>6. Reads("JUMP", chars, t, Identity(length))
  BY <1>1, <1>4 DEF Reads, Takes
<1>7. Reads("CHAR", chars, t, Singles(t, chars))
      /\ Reads("CLASS", chars, t, Singles(t, chars))
  BY <1>3, <1>4, <1>5 DEF Reads, Takes, length
<1>8. Reads("ANY", chars, t, AnyOne(t))
  BY <1>2, <1>4, <1>5 DEF Reads, Takes, length
<1>9. Reads("ASSERT_START", chars, t, {<<0, 0>>})
  BY <1>4 DEF Reads, Takes
<1>10. Reads("ASSERT_END", chars, t, {<<length, length>>})
  BY <1>4 DEF Reads, Takes, length
<1> QED
  BY <1>6, <1>7, <1>8, <1>9, <1>10 DEF length

\* A whole program: its one MATCH state is the last one.
IsProgramFor(sts, start0, t, R) ==
    \E n \in Nat :
       /\ Len(sts) = n + 1 /\ sts[n + 1].type = "MATCH"
       /\ start0 \in Part(0, n)
       /\ Means(sts, t, Part(0, n), start0, n, R)
       /\ Within(sts, Part(0, n), n) /\ NoMatch(sts, Part(0, n))

\* With the final state appended, a fragment of everything is a program.
LEMMA MatchStands ==
    ASSUME NEW sts \in Seq(NfaState), NEW n \in Nat, n = Len(sts), NEW t,
           NEW R, NEW f, Stands(f, sts, t, 0, n, R),
           NEW new, new = Patched(Grow(sts, "MATCH", {}), f.out, n)
    PROVE  IsProgramFor(new, f.start, t, R)
<1> DEFINE g == Grow(sts, "MATCH", {})
           list == f.out
           m == n + 1
           S == Part(0, n)
<1>1. /\ g \in Seq(NfaState) /\ m = Len(g)
      /\ SameStates(sts, g, 0 .. n - 1) /\ g[n + 1].type = "MATCH"
  <2>1. "MATCH" \in NfaStateType /\ {} \in SUBSET Chars
    BY DEF NfaStateType, Listed
  <2> QED
    BY <2>1, GrownStates
<1>2. new = Patched(g, list, n) /\ m \in Nat /\ n <= m /\ 0 \in Nat
  OBVIOUS
<1> HIDE DEF g
<1>3. S = 0 .. n - 1 /\ n \notin S
  BY DEF Part
<1>4. Stands(f, g, t, 0, n, R)
  BY <1>1, <1>3, SameStands
<1>5. f.start \in S
  BY <1>4 DEF Stands
<1>6. Means(new, t, S, f.start, n, R) /\ Within(new, S, n) /\ NoMatch(new, S)
  BY ONLY n \in Nat, <1>1, <1>2, <1>3, <1>4, PatchedStands
<1> HIDE DEF list
<1>7. IsPatched(g, new, list, n, m)
  BY ONLY n \in Nat, <1>1, <1>2, PatchedStates
<1>8. n \in 0 .. m - 1
  OBVIOUS
<1>9. Len(new) = n + 1 /\ new[n + 1].type = "MATCH"
  <2>1. m = Len(new) /\ m = n + 1
    BY <1>7 DEF IsPatched
  <2>2. new[n + 1].type = g[n + 1].type
    BY <1>7, <1>8 DEF IsPatched
  <2> QED
    BY <1>1, <2>1, <2>2
<1> QED
  BY <1>5, <1>6, <1>9 DEF IsProgramFor
-----------------------------------------------------------------------------
(* What the calls that wait have compiled.                                 *)

NodeSpans(n, t) == Meanings(ast, t)[n]

\* The spans of the parts that frame f holds, of the part it waits for, and
\* of the whole that it returns.
SpansDone(f, t) ==
    IF f.fn = "REPEAT"
    THEN Rounds(NodeSpans(ast[f.node].left, t), ast[f.node], f.index, Len(t))
    ELSE NodeSpans(ast[f.node].left, t)

SpansPending(f, t) ==
    IF f.fn = "REPEAT"
    THEN PartSpans(NodeSpans(ast[f.node].left, t), ast[f.node], f.index,
    Len(t))
    ELSE IF f.index = 0 THEN NodeSpans(ast[f.node].left, t)
    ELSE NodeSpans(ast[f.node].right, t)

SpansWhole(f, t) ==
    IF ast[f.node].type = f.fn THEN NodeSpans(f.node, t)
    ELSE IF f.fn = "STAR"
    THEN Powers(NodeSpans(ast[f.node].left, t), 0, UNBOUNDED, Len(t))
    ELSE IF f.fn = "PLUS"
    THEN Powers(NodeSpans(ast[f.node].left, t), 1, UNBOUNDED, Len(t))
    ELSE Powers(NodeSpans(ast[f.node].left, t), 0, 1, Len(t))

\* What the frames wait for, from the root down to the call they end in.
SpansExpected(frs, t) == IF frs = <<>> THEN NodeSpans(Len(ast), t)
                         ELSE SpansPending(Last(frs), t)

SpansLinked(frs, t) ==
    \A i \in DOMAIN frs :
       SpansWhole(frs[i], t) = IF i = 1 THEN NodeSpans(Len(ast), t)
                               ELSE SpansPending(frs[i - 1], t)

\* The part of the program that frame f holds.
Holds(f, sts, t, low, high) ==
    /\ low <= high
    /\ f.index = 0 => high = low
    /\ f.index # 0 => Stands(f.held, sts, t, low, high, SpansDone(f, t))

\* The frames hold the program up to `end`, one part after the other.
Regions(frs, sts, t, end) ==
    \E b \in [Nat -> Nat] :
       /\ b[0] = 0 /\ end = b[Len(frs)]
       /\ \A i, j \in 0 .. Len(frs) : i <= j => b[i] <= b[j]
       /\ \A i \in DOMAIN frs : Holds(frs[i], sts, t, b[i - 1], b[i])

\* Before the first call nothing is held.
LEMMA RegionsNone ==
    ASSUME NEW sts, NEW t, NEW end
    PROVE  Regions(<<>>, sts, t, end) <=> end = 0
<1>1. ASSUME Regions(<<>>, sts, t, end) PROVE end = 0
  BY <1>1 DEF Regions
<1>2. ASSUME end = 0 PROVE Regions(<<>>, sts, t, end)
  <2> DEFINE b == [n \in Nat |-> 0]
  <2>1. b \in [Nat -> Nat] /\ b[0] = 0 /\ \A i \in Nat : b[i] = 0
    OBVIOUS
  <2>2. Len(<<>>) = 0 /\ DOMAIN <<>> = {} /\ \A i \in 0 .. 0 : i \in Nat
    OBVIOUS
  <2> HIDE DEF b
  <2> QED
    BY <1>2, <2>1, <2>2, SMTT(30) DEF Regions
<1> QED
  BY <1>1, <1>2

\* What a frame holds does not depend on the rest of the program.
LEMMA HoldsSame ==
    ASSUME NEW f, NEW old, NEW new, NEW t, NEW low \in Nat, NEW high \in Nat,
           NEW end \in Nat, high <= end, Holds(f, old, t, low, high),
           SameStates(old, new, Part(0, end))
    PROVE  Holds(f, new, t, low, high)
<1>1. SameStates(old, new, Part(low, high))
  BY DEF SameStates, Part
<1>2. ASSUME f.index # 0
      PROVE  Stands(f.held, new, t, low, high, SpansDone(f, t))
  <2> DEFINE R == SpansDone(f, t)
             g == f.held
  <2>1. Stands(g, old, t, low, high, R)
    BY <1>2 DEF Holds
  <2> HIDE DEF R, g
  <2>2. Stands(g, new, t, low, high, R)
    BY <1>1, <2>1, SameStands
  <2> QED
    BY <2>2 DEF R, g
<1> QED
  BY <1>2 DEF Holds

\* The frames' parts stay where the states they need stay.
LEMMA RegionsSame ==
    ASSUME NEW frs \in Seq(Frame), NEW old, NEW new, NEW t, NEW end \in Nat,
           Regions(frs, old, t, end), SameStates(old, new, Part(0, end))
    PROVE  Regions(frs, new, t, end)
<1>1. PICK n \in Nat : n = Len(frs) /\ DOMAIN frs = 1 .. n
  OBVIOUS
<1>2. PICK b \in [Nat -> Nat] :
              /\ b[0] = 0 /\ end = b[n]
              /\ \A i, j \in 0 .. n : i <= j => b[i] <= b[j]
              /\ \A i \in 1 .. n : Holds(frs[i], old, t, b[i - 1], b[i])
  BY <1>1 DEF Regions
<1>3. ASSUME NEW i \in 1 .. n PROVE Holds(frs[i], new, t, b[i - 1], b[i])
  <2>1. i \in 0 .. n /\ n \in 0 .. n /\ i <= n /\ i - 1 \in Nat /\ i \in Nat
    OBVIOUS
  <2>2. b[i] <= end /\ b[i - 1] \in Nat /\ b[i] \in Nat
    BY <1>2, <2>1
  <2>3. Holds(frs[i], old, t, b[i - 1], b[i])
    BY <1>2
  <2> DEFINE low == b[i - 1]
             high == b[i]
             f == frs[i]
  <2>4. low \in Nat /\ high \in Nat /\ high <= end
        /\ Holds(f, old, t, low, high)
    BY <2>2, <2>3
  <2> HIDE DEF low, high, f
  <2>5. Holds(f, new, t, low, high)
    BY <2>4, HoldsSame
  <2> QED
    BY <2>5 DEF low, high, f
<1> QED
  BY <1>1, <1>2, <1>3 DEF Regions

\* Places of a sequence.
LEMMA PlaceBefore ==
    ASSUME NEW n \in Nat, NEW i \in 1 .. n
    PROVE  i \in 0 .. n /\ i - 1 \in 0 .. n
OBVIOUS

\* The last place, or one before it.
LEMMA LastPlace ==
    ASSUME NEW n \in Nat, NEW i \in 1 .. n + 1
    PROVE  i \in 1 .. n \/ i = n + 1
OBVIOUS

\* A call that is added holds the part behind the others.
LEMMA RegionsPush ==
    ASSUME NEW frs \in Seq(Frame), NEW f, NEW sts, NEW t, NEW low \in Nat,
           NEW high \in Nat, Regions(frs, sts, t, low),
           Holds(f, sts, t, low, high)
    PROVE  Regions(Append(frs, f), sts, t, high)
<1> DEFINE n == Len(frs)
           pushed == Append(frs, f)
<1>1. /\ n \in Nat /\ DOMAIN frs = 1 .. n /\ DOMAIN pushed = 1 .. n + 1
      /\ Len(pushed) = n + 1 /\ pushed[n + 1] = f
      /\ \A i \in 1 .. n : pushed[i] = frs[i]
  OBVIOUS
<1>2. PICK b \in [Nat -> Nat] :
              /\ b[0] = 0 /\ low = b[n]
              /\ \A i, j \in 0 .. n : i <= j => b[i] <= b[j]
              /\ \A i \in DOMAIN frs : Holds(frs[i], sts, t, b[i - 1], b[i])
  BY DEF Regions
<1>3. low <= high
  BY DEF Holds
<1> DEFINE c == [b EXCEPT ![n + 1] = high]
<1> HIDE DEF n, pushed
<1>4. c \in [Nat -> Nat] /\ c[n + 1] = high /\ \A i \in 0 .. n : c[i] = b[i]
  <2>1. n \in Nat /\ n + 1 \in Nat /\ \A i \in 0 .. n : i \in Nat /\ i # n + 1
    BY ONLY <1>1, SMTT(30)
  <2>2. c \in [Nat -> Nat]
    OBVIOUS
  <2>3. c[n + 1] = high /\ \A i \in Nat : i # n + 1 => c[i] = b[i]
    BY <2>1
  <2> HIDE DEF c
  <2> QED
    BY ONLY <2>1, <2>2, <2>3
<1> HIDE DEF c
<1>5. c[0] = 0 /\ c[n] = low
  BY <1>1, <1>2, <1>4
<1>6. ASSUME NEW i \in 0 .. n + 1, NEW j \in 0 .. n + 1, i <= j
      PROVE  c[i] <= c[j]
  <2>1. CASE j \in 0 .. n
    <3>1. i \in 0 .. n
      BY <1>1, <1>6, <2>1
    <3> QED
      BY <1>2, <1>4, <1>6, <2>1, <3>1
  <2>2. CASE j = n + 1 /\ i \in 0 .. n
    <3>1. n \in 0 .. n /\ i <= n
      BY <1>1, <2>2
    <3>2. b[i] <= low /\ b[i] \in Nat
      BY <1>2, <2>2, <3>1
    <3> QED
      BY <1>3, <1>4, <2>2, <3>2
  <2>3. CASE i = n + 1 /\ j = n + 1
    BY <1>4, <2>3
  <2> QED
    BY <1>1, <1>6, <2>1, <2>2, <2>3
<1>7. ASSUME NEW i \in DOMAIN pushed
      PROVE  Holds(pushed[i], sts, t, c[i - 1], c[i])
  <2>1. CASE i \in 1 .. n
    <3>1. c[i] = b[i] /\ c[i - 1] = b[i - 1] /\ pushed[i] = frs[i]
      <4>1. n \in Nat
        BY <1>1
      <4>2. i \in 0 .. n /\ i - 1 \in 0 .. n
        BY ONLY <2>1, <4>1, PlaceBefore
      <4> QED
        BY ONLY <1>1, <1>4, <2>1, <4>2
    <3> QED
      BY <1>1, <1>2, <2>1, <3>1
  <2>2. CASE i = n + 1
    <3>1. c[i - 1] = low /\ pushed[i] = f
      BY <1>1, <1>5, <2>2, SMTT(30)
    <3> QED
      BY <1>4, <2>2, <3>1
  <2>3. i \in 1 .. n \/ i = n + 1
    <3>1. i \in 1 .. n + 1 /\ n \in Nat
      BY <1>1
    <3> QED
      BY ONLY <3>1, LastPlace
  <2> QED
    BY <2>1, <2>2, <2>3
<1> QED
  BY <1>1, <1>4, <1>5, <1>6, <1>7 DEF Regions, pushed

\* The calls that remain hold what is before the part of the one that ends.
LEMMA RegionsPop ==
    ASSUME NEW frs \in Seq(Frame), frs # <<>>, NEW sts, NEW t, NEW end,
           Regions(frs, sts, t, end)
    PROVE  \E low \in Nat : /\ Regions(Front(frs), sts, t, low)
                            /\ Holds(Last(frs), sts, t, low, end)
                            /\ end \in Nat
<1> DEFINE n == Len(frs)
           popped == Front(frs)
<1>1. /\ n \in Nat \ {0} /\ DOMAIN frs = 1 .. n /\ DOMAIN popped = 1 .. n - 1
      /\ Len(popped) = n - 1 /\ Last(frs) = frs[n]
      /\ \A i \in 1 .. n - 1 : popped[i] = frs[i]
  BY FrontLast
<1>2. PICK b \in [Nat -> Nat] :
              /\ b[0] = 0 /\ end = b[n]
              /\ \A i, j \in 0 .. n : i <= j => b[i] <= b[j]
              /\ \A i \in DOMAIN frs : Holds(frs[i], sts, t, b[i - 1], b[i])
  BY DEF Regions
<1> HIDE DEF n, popped
<1>3. n \in DOMAIN frs /\ n - 1 \in Nat /\ n \in Nat
  BY <1>1
<1>4. Holds(Last(frs), sts, t, b[n - 1], end) /\ b[n - 1] \in Nat
      /\ end \in Nat
  BY <1>1, <1>2, <1>3
<1>5. \A i, j \in 0 .. n - 1 : i <= j => b[i] <= b[j]
  <2>1. \A i \in 0 .. n - 1 : i \in 0 .. n
    BY <1>1
  <2> QED
    BY <1>2, <2>1
<1>6. \A i \in DOMAIN popped : Holds(popped[i], sts, t, b[i - 1], b[i])
  <2>1. \A i \in DOMAIN popped : i \in DOMAIN frs /\ popped[i] = frs[i]
    BY ONLY <1>1
  <2> QED
    BY ONLY <1>2, <2>1
<1>7. Regions(popped, sts, t, b[n - 1])
  BY <1>1, <1>2, <1>5, <1>6 DEF Regions
<1> QED
  BY <1>4, <1>7 DEF popped

\* A call that is added compiles what the call below it waits for.
LEMMA SpansPush ==
    ASSUME NEW frs \in Seq(Frame), NEW f, NEW t, SpansLinked(frs, t),
           SpansWhole(f, t) = SpansExpected(frs, t)
    PROVE  /\ SpansLinked(Append(frs, f), t)
           /\ SpansExpected(Append(frs, f), t) = SpansPending(f, t)
<1> DEFINE n == Len(frs)
           pushed == Append(frs, f)
<1>1. /\ n \in Nat /\ DOMAIN frs = 1 .. n /\ DOMAIN pushed = 1 .. n + 1
      /\ Len(pushed) = n + 1 /\ pushed[n + 1] = f /\ pushed # <<>>
      /\ (n = 0 <=> frs = <<>>) /\ Last(frs) = frs[n] /\ Last(pushed) = f
      /\ \A i \in 1 .. n : pushed[i] = frs[i]
  BY DEF Last
<1> HIDE DEF n, pushed
<1>2. SpansExpected(pushed, t) = SpansPending(f, t)
  BY <1>1 DEF SpansExpected
<1>3. ASSUME NEW i \in DOMAIN pushed
      PROVE  SpansWhole(pushed[i], t) =
                IF i = 1 THEN NodeSpans(Len(ast), t)
                ELSE SpansPending(pushed[i - 1], t)
  <2>1. CASE i \in 1 .. n
    <3>1. pushed[i] = frs[i] /\ (i # 1 => pushed[i - 1] = frs[i - 1])
      BY <1>1, <2>1
    <3> QED
      BY <1>1, <2>1, <3>1 DEF SpansLinked
  <2>2. CASE i = n + 1
    <3>1. pushed[i] = f /\ (i # 1 => pushed[i - 1] = Last(frs) /\ frs # <<>>)
          /\ (i = 1 => frs = <<>>)
      BY <1>1, <2>2
    <3> QED
      BY <3>1 DEF SpansExpected
  <2> QED
    BY <1>1, <2>1, <2>2
<1> QED
  BY <1>2, <1>3 DEF SpansLinked, pushed

\* The calls that remain wait for what they waited for.
LEMMA SpansPop ==
    ASSUME NEW frs \in Seq(Frame), frs # <<>>, NEW t, SpansLinked(frs, t)
    PROVE  /\ SpansLinked(Front(frs), t)
           /\ SpansExpected(Front(frs), t) = SpansWhole(Last(frs), t)
           /\ SpansExpected(frs, t) = SpansPending(Last(frs), t)
<1> DEFINE n == Len(frs)
           popped == Front(frs)
<1>1. /\ n \in Nat \ {0} /\ DOMAIN frs = 1 .. n /\ DOMAIN popped = 1 .. n - 1
      /\ Len(popped) = n - 1 /\ Last(frs) = frs[n] /\ popped \in Seq(Frame)
      /\ \A i \in 1 .. n - 1 : popped[i] = frs[i]
  BY FrontLast
<1>2. Last(popped) = popped[n - 1] /\ (popped = <<>> <=> n = 1)
  BY <1>1 DEF Last
<1> HIDE DEF n, popped
<1>3. SpansLinked(popped, t)
  <2> SUFFICES ASSUME NEW i \in DOMAIN popped
               PROVE  SpansWhole(popped[i], t) =
                         IF i = 1 THEN NodeSpans(Len(ast), t)
                         ELSE SpansPending(popped[i - 1], t)
    BY DEF SpansLinked
  <2>1. popped[i] = frs[i] /\ i \in DOMAIN frs
        /\ (i # 1 => popped[i - 1] = frs[i - 1])
    BY <1>1
  <2> QED
    BY <2>1 DEF SpansLinked
<1>4. SpansExpected(popped, t) = SpansWhole(Last(frs), t)
  <2>1. n \in DOMAIN frs /\ (n # 1 => popped[n - 1] = frs[n - 1])
    BY <1>1
  <2> QED
    BY <1>1, <1>2, <2>1 DEF SpansExpected, SpansLinked
<1> QED
  BY <1>3, <1>4 DEF SpansExpected, popped
-----------------------------------------------------------------------------
(* Every fragment means what its part of the tree means.                   *)

Meant(t) ==
    /\ SpansLinked(frames, t)
    /\ mode = "call" => NodeSpans(target, t) = SpansExpected(frames, t)
    /\ mode # "return" => Regions(frames, states, t, Len(states))
    /\ mode = "return" =>
          \E low \in Nat : /\ Regions(frames, states, t, low)
                           /\ Stands(fragment, states, t, low, Len(states),
                                     SpansExpected(frames, t))

MeaningOf(t) ==
    /\ IsCounting /\ mode \notin {"fail", "done"} => Meant(t)
    /\ HasCompiled => IsProgramFor(states, start, t, NodeSpans(Len(ast), t))

\* The spans that a frame's node has to do with.
LEMMA FrameSpans ==
    ASSUME TypeOK, NEW f \in Frame, FrameOK(f, Len(states)), NEW t,
           Len(t) \in Nat
    PROVE  /\ NodeSpans(f.node, t) = SpansOf(Meanings(ast, t), ast, t, f.node)
           /\ IsSpans(NodeSpans(f.node, t), Len(t))
           /\ IsSpans(NodeSpans(ast[f.node].left, t), Len(t))
           /\ f.fn \in BinaryType =>
                 IsSpans(NodeSpans(ast[f.node].right, t), Len(t))
<1>1. /\ IsAst(ast) /\ f.node \in 1 .. Len(ast)
      /\ ast[f.node].left \in DOMAIN ast
      /\ f.fn \in BinaryType => ast[f.node].right \in DOMAIN ast
  BY FrameSizes
<1>2. DOMAIN ast = 1 .. Len(ast)
  BY <1>1, TreeFacts
<1> QED
  BY <1>1, <1>2, MeaningsFacts DEF NodeSpans

\* A failed compilation has no meaning to answer for.
LEMMA MeantAfterFailing ==
    ASSUME NEW t, UNCHANGED input,
           mode' = "fail" \/ (mode' = "done" /\ error' # NoError)
    PROVE  MeaningOf(t)'
BY DEF MeaningOf, HasCompiled

\* What a step has to show.
LEMMA StillMeant ==
    ASSUME NEW t, UNCHANGED input, mode' \in {"call", "repeat", "return"},
           SpansLinked(frames', t),
           mode' = "call" => NodeSpans(target', t) = SpansExpected(frames', t),
           mode' # "return" => Regions(frames', states', t, Len(states')),
           mode' = "return" =>
              \E low \in Nat :
                 /\ Regions(frames', states', t, low)
                 /\ Stands(fragment', states', t, low, Len(states'),
                           SpansExpected(frames', t))
    PROVE  MeaningOf(t)'
<1>1. ast' = ast
  BY DEF input
<1>2. SpansLinked(frames, t)' <=> SpansLinked(frames', t)
  BY <1>1 DEF SpansLinked, NodeSpans, SpansWhole, SpansPending
<1>3. SpansExpected(frames, t)' = SpansExpected(frames', t)
  BY <1>1 DEF SpansExpected, NodeSpans, SpansPending
<1>4. \A end : Regions(frames', states', t, end)
      => Regions(frames, states, t, end)'
  BY <1>1, ZenonT(60) DEF Regions, Holds, SpansDone, NodeSpans
<1>5. NodeSpans(target, t)' = NodeSpans(target', t)
  BY <1>1 DEF NodeSpans
<1>6. Meant(t)'
  BY <1>2, <1>3, <1>4, <1>5 DEF Meant
<1> QED
  BY <1>6 DEF MeaningOf, HasCompiled

\* What is there when a fragment is returned to the topmost frame.
LEMMA ReturnMeans ==
    ASSUME IInv, SizeOK, NEW t, MeaningOf(t), mode = "return", frames # <<>>
    PROVE  /\ SpansLinked(Front(frames), t)
           /\ SpansExpected(Front(frames), t) = SpansWhole(Top, t)
           /\ \E low \in Nat, mid \in Nat :
                 /\ low <= mid /\ mid <= Len(states)
                 /\ Regions(Front(frames), states, t, low)
                 /\ Holds(Top, states, t, low, mid)
                 /\ Stands(fragment, states, t, mid, Len(states),
                           SpansPending(Top, t))
<1>1. frames \in Seq(Frame) /\ Len(states) \in Nat
  BY InvFacts
<1>2. Meant(t)
  BY DEF MeaningOf, SizeOK
<1>3. /\ SpansLinked(Front(frames), t)
      /\ SpansExpected(Front(frames), t) = SpansWhole(Top, t)
      /\ SpansExpected(frames, t) = SpansPending(Top, t)
  BY <1>1, <1>2, SpansPop DEF Meant, Top
<1>4. PICK mid \in Nat :
              /\ Regions(frames, states, t, mid)
              /\ Stands(fragment, states, t, mid, Len(states),
                        SpansExpected(frames, t))
  BY <1>2 DEF Meant
<1>5. PICK low \in Nat : /\ Regions(Front(frames), states, t, low)
                         /\ Holds(Top, states, t, low, mid)
  BY <1>1, <1>4, RegionsPop DEF Top
<1>6. mid <= Len(states)
  <2> DEFINE n == Len(states)
  <2>1. n \in Nat /\ fragment.start \in Part(mid, n)
    BY <1>1, <1>4 DEF Stands
  <2> HIDE DEF n
  <2>2. mid <= n
    BY <2>1 DEF Part
  <2> QED
    BY <2>2 DEF n
<1>7. low <= mid
  BY <1>5 DEF Holds
<1> QED
  BY <1>3, <1>4, <1>5, <1>6, <1>7

\* The topmost frame has got all its children and returns.
LEMMA MeantAfterReturn ==
    ASSUME IInv, SizeOK, NEW t, MeaningOf(t), UNCHANGED input, frames # <<>>,
           mode' = "return", frames' = Front(frames),
           SpansLinked(Front(frames), t),
           SpansExpected(Front(frames), t) = SpansWhole(Top, t),
           NEW low \in Nat, Regions(Front(frames), states, t, low),
           SameStates(states, states', Part(0, low)),
           Stands(fragment', states', t, low, Len(states'), SpansWhole(Top, t))
    PROVE  MeaningOf(t)'
<1>1. Front(frames) \in Seq(Frame)
  BY InvFacts, PopKeepsFrames
<1> DEFINE frs == Front(frames)
           new == states'
<1>2. frs \in Seq(Frame) /\ SameStates(states, new, Part(0, low))
      /\ Regions(frs, states, t, low)
  BY <1>1
<1> HIDE DEF frs, new
<1>3. Regions(frs, new, t, low)
  BY <1>2, RegionsSame
<1>4. Regions(frames', states', t, low)
  BY <1>3 DEF frs, new
<1> QED
  BY <1>4, StillMeant

\* The topmost frame takes the returned child in.
LEMMA MeantAfterTaking ==
    ASSUME IInv, SizeOK, NEW t, MeaningOf(t), UNCHANGED input, frames # <<>>,
           SpansLinked(Front(frames), t),
           SpansExpected(Front(frames), t) = SpansWhole(Top, t),
           NEW low \in Nat, Regions(Front(frames), states, t, low),
           SameStates(states, states', Part(0, low)), Len(states') \in Nat,
           NEW f, frames' = Append(Front(frames), f),
           SpansWhole(f, t) = SpansWhole(Top, t),
           Holds(f, states', t, low, Len(states')),
           \/ mode' = "call" /\ NodeSpans(target', t) = SpansPending(f, t)
           \/ mode' = "repeat"
    PROVE  MeaningOf(t)'
<1>1. Front(frames) \in Seq(Frame)
  BY InvFacts, PopKeepsFrames
<1> DEFINE frs == Front(frames)
           new == states'
           end == Len(new)
<1>2. frs \in Seq(Frame) /\ SameStates(states, new, Part(0, low))
      /\ Regions(frs, states, t, low) /\ end \in Nat
      /\ Holds(f, new, t, low, end) /\ SpansLinked(frs, t)
      /\ SpansWhole(f, t) = SpansExpected(frs, t)
  BY <1>1
<1> HIDE DEF frs, new, end
<1>3. Regions(frs, new, t, low)
  BY <1>2, RegionsSame
<1>4. Regions(Append(frs, f), new, t, end)
  BY <1>2, <1>3, RegionsPush
<1>5. /\ SpansLinked(Append(frs, f), t)
      /\ SpansExpected(Append(frs, f), t) = SpansPending(f, t)
  BY <1>2, SpansPush
<1>6. /\ Regions(frames', states', t, Len(states'))
      /\ SpansLinked(frames', t)
      /\ SpansExpected(frames', t) = SpansPending(f, t)
  BY <1>4, <1>5 DEF frs, new, end
<1> QED
  BY <1>6, StillMeant

\* A frame is pushed for the node that the topmost one waits for.
LEMMA MeantAfterPush ==
    ASSUME IInv, SizeOK, NEW t, MeaningOf(t), IsCounting, UNCHANGED input,
           mode \in {"call", "repeat"}, NEW f, f.index = 0,
           frames' = Append(frames, f), states' = states,
           SpansWhole(f, t) = SpansExpected(frames, t),
           \/ mode' = "call" /\ NodeSpans(target', t) = SpansPending(f, t)
           \/ mode' = "repeat"
    PROVE  MeaningOf(t)'
<1>1. frames \in Seq(Frame) /\ Len(states) \in Nat
  BY InvFacts
<1>2. SpansLinked(frames, t) /\ Regions(frames, states, t, Len(states))
  BY DEF MeaningOf, Meant
<1>3. Holds(f, states, t, Len(states), Len(states))
  BY <1>1 DEF Holds
<1>4. Regions(Append(frames, f), states, t, Len(states))
  BY <1>1, <1>2, <1>3, RegionsPush
<1>5. /\ SpansLinked(Append(frames, f), t)
      /\ SpansExpected(Append(frames, f), t) = SpansPending(f, t)
  BY <1>1, <1>2, SpansPush
<1>6. /\ Regions(frames', states', t, Len(states'))
      /\ SpansLinked(frames', t)
      /\ SpansExpected(frames', t) = SpansPending(f, t)
  BY <1>4, <1>5
<1> QED
  BY <1>6, StillMeant

\* A text has a length.
LEMMA TextLengths == ASSUME NEW t \in Texts PROVE Len(t) \in Nat
BY TextsAssumption
-----------------------------------------------------------------------------
(* The steps, one by one, and what they add to the meaning.                *)

\* The root is what the whole pattern means.
LEMMA BeginMeans ==
    ASSUME IInv, SizeOK, NEW t, MeaningOf(t), Begin PROVE MeaningOf(t)'
<1>1. /\ mode = "enter" /\ given = "empty" /\ mode' = "call"
      /\ target' = Len(ast) /\ UNCHANGED <<input, states, frames>>
      /\ frames = <<>>
  BY DEF Begin, program, IInv, ModeOK
<1>2. CASE ast = <<>>
  BY <1>1, <1>2 DEF MeaningOf, IsCounting, HasCompiled, input
<1>3. CASE ast # <<>>
  <2>1. IsCounting
    BY <1>1, <1>3 DEF IsCounting
  <2>2. Regions(frames, states, t, Len(states)) /\ SpansLinked(frames, t)
    BY <1>1, <2>1 DEF MeaningOf, Meant
  <2>3. NodeSpans(target', t) = SpansExpected(frames, t)
    BY <1>1 DEF SpansExpected
  <2> QED
    BY <1>1, <2>2, <2>3, StillMeant
<1> QED
  BY <1>2, <1>3

\* A leaf consumes what it stands for.
LEMMA CompileLeafMeans ==
    ASSUME IInv, SizeOK, NEW t \in Texts, MeaningOf(t), CompileLeaf
    PROVE  MeaningOf(t)'
<1> DEFINE type == Node.type
           chars == Node.chars
<1>1. mode = "call" /\ target # NULL_NODE /\ type \in LeafType
      /\ UNCHANGED <<input, frames>>
  BY DEF CompileLeaf, IsCall
<1>2. IsCounting
  BY <1>1 DEF SizeOK
<1>3. CASE mode' = "fail"
  BY <1>1, <1>3, MeantAfterFailing
<1>4. CASE mode' # "fail"
  <2>1. /\ states' = Appended(StateTypeOf(type), chars) /\ mode' = "return"
        /\ fragment' = [start |-> Index, out |-> {<<Index, 1>>}]
    BY <1>4 DEF CompileLeaf, SingleOutputState, Fail, Yield
  <2>2. /\ target \in DOMAIN ast
           /\ NodeSpans(target, t) = SpansExpected(frames, t)
        /\ SpansLinked(frames, t) /\ Regions(frames, states, t, Len(states))
    BY <1>1, <1>2 DEF SizeOK, Counted, MeaningOf, Meant
  <2>3. /\ IsAst(ast) /\ target \in 1 .. Len(ast) /\ chars \in SUBSET Chars
        /\ frames \in Seq(Frame)
    BY <2>2, InvFacts, NodeFacts, CompilerAssumption DEF TypeOK, Node
  <2>4. /\ IsSpans(NodeSpans(target, t), Len(t))
        /\ NodeSpans(target, t) = SpansOf(Meanings(ast, t), ast, t, target)
    BY <2>3, TextLengths, MeaningsFacts DEF NodeSpans
  <2> DEFINE R == NodeSpans(target, t)
             kind == StateTypeOf(type)
  <2>5. /\ type = "EMPTY" => R = Identity(Len(t))
        /\ type \in {"LITERAL", "CHARACTER_CLASS"} => R = Singles(t, chars)
        /\ type = "DOT" => R = AnyOne(t)
        /\ type = "ASSERT_START" => R = {<<0, 0>>}
        /\ type = "ASSERT_END" => R = {<<Len(t), Len(t)>>}
    BY <2>4, SpansOfCases DEF Node
  <2> HIDE DEF R, type, chars
  <2>6. /\ type = "EMPTY" => kind = "JUMP"
        /\ type = "LITERAL" => kind = "CHAR"
        /\ type = "DOT" => kind = "ANY"
        /\ type = "CHARACTER_CLASS" => kind = "CLASS"
        /\ type = "ASSERT_START" => kind = "ASSERT_START"
        /\ type = "ASSERT_END" => kind = "ASSERT_END"
    BY DEF StateTypeOf
  <2> HIDE DEF kind
  <2>7. kind \in NfaStateType \ {"SPLIT", "MATCH"}
    BY <1>1, <2>6 DEF LeafType, NfaStateType, Listed
  <2>8. Reads(kind, chars, t, R)
    <3>1. /\ Reads("JUMP", chars, t, Identity(Len(t)))
          /\ Reads("CHAR", chars, t, Singles(t, chars))
          /\ Reads("CLASS", chars, t, Singles(t, chars))
          /\ Reads("ANY", chars, t, AnyOne(t))
          /\ Reads("ASSERT_START", chars, t, {<<0, 0>>})
          /\ Reads("ASSERT_END", chars, t, {<<Len(t), Len(t)>>})
      BY TextLengths, LeavesRead
    <3> QED
      BY <1>1, <2>5, <2>6, <3>1 DEF LeafType
  <2> DEFINE n == Len(states)
             new == Grow(states, kind, chars)
             f == [start |-> n, out |-> {<<n, 1>>}]
  <2>9. /\ n \in Nat /\ n = Len(states) /\ states \in Seq(NfaState)
        /\ f.start = n /\ f.out = {<<n, 1>>} /\ new = Grow(states, kind, chars)
    BY InvFacts
  <2>10. fragment' = f /\ states' = new
    BY <2>1 DEF Index, Appended, Grow, kind
  <2> HIDE DEF n, new, f
  <2>11. Stands(f, new, t, n, n + 1, R)
    BY <2>3, <2>4, <2>7, <2>8, <2>9, OneStands DEF R
  <2>12. SameStates(states, new, Part(0, n)) /\ n + 1 = Len(new)
    BY <2>3, <2>7, <2>9, GrownStates, SMTT(30) DEF Part
  <2>13. Regions(frames, new, t, n)
    BY <2>2, <2>3, <2>9, <2>12, RegionsSame
  <2>14. \E low \in Nat : /\ Regions(frames', states', t, low)
                          /\ Stands(fragment', states', t, low, Len(states'),
                                    SpansExpected(frames', t))
    BY <1>1, <2>2, <2>9, <2>10, <2>11, <2>12, <2>13 DEF R
  <2> QED
    BY <1>1, <2>1, <2>2, <2>14, StillMeant
<1> QED
  BY <1>3, <1>4

\* A child is to mean what the frame waits for.
LEMMA CallChildMeans ==
    ASSUME IInv, SizeOK, NEW t, MeaningOf(t), CallChild PROVE MeaningOf(t)'
<1> DEFINE f == [fn |-> Node.type, node |-> target,
                 held |-> NoFragment, index |-> 0]
<1>1. /\ mode = "call" /\ target # NULL_NODE
      /\ Node.type \in BinaryType \cup UnaryType
      /\ frames' = Append(frames, f) /\ UNCHANGED <<input, states>>
      /\ target' = Node.left /\ mode' = "call"
  BY DEF CallChild, IsCall, Push, program
<1>2. IsCounting
  BY <1>1 DEF SizeOK
<1>3. NodeSpans(target, t) = SpansExpected(frames, t)
  BY <1>1, <1>2 DEF MeaningOf, Meant
<1>4. f.index = 0 /\ f.fn # "REPEAT" /\ f.fn = Node.type /\ f.node = target
  BY <1>1 DEF BinaryType, UnaryType
<1> HIDE DEF f
<1>5. SpansWhole(f, t) = SpansExpected(frames, t)
      /\ SpansPending(f, t) = NodeSpans(target', t)
  BY <1>1, <1>3, <1>4 DEF SpansWhole, SpansPending, Node
<1> QED
  BY <1>1, <1>2, <1>4, <1>5, MeantAfterPush

\* All the parts of a counted repetition are to mean what is waited for.
LEMMA CallRepeatMeans ==
    ASSUME IInv, SizeOK, NEW t, MeaningOf(t), CallRepeat PROVE MeaningOf(t)'
<1> DEFINE f == [fn |-> "REPEAT", node |-> target,
                 held |-> NoFragment, index |-> 0]
<1>1. /\ mode = "call" /\ target # NULL_NODE /\ Node.type = "REPEAT"
      /\ frames' = Append(frames, f) /\ UNCHANGED <<input, states>>
      /\ mode' = "repeat"
  BY DEF CallRepeat, IsCall, Push, program, Goto
<1>2. IsCounting
  BY <1>1 DEF SizeOK
<1>3. NodeSpans(target, t) = SpansExpected(frames, t)
  BY <1>1, <1>2 DEF MeaningOf, Meant
<1>4. f.index = 0 /\ f.fn = "REPEAT" /\ f.node = target
  OBVIOUS
<1> HIDE DEF f
<1>5. SpansWhole(f, t) = SpansExpected(frames, t)
  BY <1>1, <1>3, <1>4 DEF SpansWhole, Node
<1> QED
  BY <1>1, <1>2, <1>4, <1>5, MeantAfterPush

\* A part that is required means what the child means.
LEMMA RepeatCopyMeans ==
    ASSUME IInv, SizeOK, NEW t, MeaningOf(t), RepeatCopy PROVE MeaningOf(t)'
<1>1. /\ IsRepeating /\ Top.index < Repeat.minimum /\ mode' = "call"
      /\ target' = Repeat.left /\ UNCHANGED <<input, frames, states>>
  BY DEF RepeatCopy, Goto, program
<1>2. mode = "repeat" /\ frames # <<>> /\ Top.fn = "REPEAT"
  BY <1>1, IsRepeatingFacts
<1>3. IsCounting /\ frames \in Seq(Frame)
  BY <1>2, RoundFacts
<1>4. SpansLinked(frames, t) /\ Regions(frames, states, t, Len(states))
  BY <1>2, <1>3 DEF MeaningOf, Meant
<1>5. SpansExpected(frames, t) = SpansPending(Top, t)
  BY <1>2 DEF SpansExpected, Top
<1>6. SpansPending(Top, t) = NodeSpans(target', t)
  BY <1>1, <1>2 DEF SpansPending, PartSpans, Repeat
<1> QED
  BY <1>1, <1>4, <1>5, <1>6, StillMeant

\* A part that is not required means as much of the child as is left.
LEMMA RepeatRestMeans ==
    ASSUME IInv, SizeOK, NEW t, MeaningOf(t), RepeatRest PROVE MeaningOf(t)'
<1> DEFINE fn == IF Repeat.maximum = UNBOUNDED THEN "STAR" ELSE "OPTIONAL"
           f == [fn |-> fn, node |-> Top.node,
                 held |-> NoFragment, index |-> 0]
<1>1. /\ IsRepeating /\ Top.index >= Repeat.minimum /\ mode' = "call"
      /\ target' = Repeat.left /\ frames' = Append(frames, f)
      /\ UNCHANGED <<input, states>>
  BY DEF RepeatRest, Goto, Push, program
<1>2. mode = "repeat" /\ frames # <<>> /\ Top.fn = "REPEAT"
  BY <1>1, IsRepeatingFacts
<1>3. /\ IsCounting /\ Repeat.type = "REPEAT" /\ Top.index \in Nat
      /\ Repeat.minimum \in Nat
  BY <1>2, RoundFacts
<1>4. /\ f.index = 0 /\ f.fn # "REPEAT" /\ f.node = Top.node
      /\ Repeat.maximum = UNBOUNDED => f.fn = "STAR"
      /\ Repeat.maximum # UNBOUNDED => f.fn = "OPTIONAL"
  OBVIOUS
<1> HIDE DEF fn, f
<1>5. SpansExpected(frames, t) = SpansPending(Top, t)
  BY <1>2 DEF SpansExpected, Top
<1>6. ~ (Top.index < Repeat.minimum)
  BY <1>1, <1>3
<1>7. SpansWhole(f, t) = SpansPending(Top, t)
  BY <1>2, <1>3, <1>4, <1>6 DEF SpansWhole, SpansPending, PartSpans, Repeat
<1>8. SpansPending(f, t) = NodeSpans(target', t)
  BY <1>1, <1>4 DEF SpansPending, Repeat
<1> QED
  BY <1>1, <1>2, <1>3, <1>4, <1>5, <1>7, <1>8, MeantAfterPush

\* What a part in front of a list's states has to do with the list: nothing.
LEMMA BeforeIsSame ==
    ASSUME NEW sts \in Seq(NfaState), NEW n \in Nat, n = Len(sts), NEW f,
           NEW t, NEW R, NEW low \in Nat, NEW mid \in Nat, NEW high \in Nat,
           low <= mid, mid <= n, Stands(f, sts, t, mid, high, R),
           NEW to \in Nat, NEW new, new = Patched(sts, f.out, to)
    PROVE  SameStates(sts, new, Part(0, low))
<1> DEFINE S == Part(0, low)
           list == f.out
<1>1. \A s : s \notin Part(mid, high) =>
                <<s, 1>> \notin list /\ <<s, 2>> \notin list
  BY StandsFacts
<1>2. S \in SUBSET (0 .. n - 1) /\ \A s \in S : s \notin Part(mid, high)
  BY DEF Part
<1>3. \A s \in S : <<s, 1>> \notin list /\ <<s, 2>> \notin list
  BY <1>1, <1>2
<1>4. new = Patched(sts, list, to)
  OBVIOUS
<1> HIDE DEF S, list
<1>5. SameStates(sts, new, S)
  BY <1>2, <1>3, <1>4, PatchedSame
<1> QED
  BY <1>5 DEF S

\* The right part is what the right child means.
LEMMA ReturnLeftMeans ==
    ASSUME IInv, SizeOK, NEW t, MeaningOf(t), ReturnLeft PROVE MeaningOf(t)'
<1> DEFINE f == [Top EXCEPT !.held = fragment, !.index = 1]
<1>1. /\ IsReturn(BinaryType) /\ Top.index = 0
      /\ frames' = Append(Front(frames), f)
      /\ target' = ast[Top.node].right /\ mode' = "call"
      /\ UNCHANGED <<input, states>>
  BY DEF ReturnLeft, Goto, program
<1>2. /\ mode = "return" /\ frames # <<>> /\ Top.fn \in BinaryType
      /\ Top \in Frame
  BY <1>1, ReturnFacts
<1>3. /\ f.fn = Top.fn /\ f.node = Top.node /\ f.index = 1 /\ f.fn # "REPEAT"
      /\ f.held = fragment
  BY <1>2 DEF Frame, BinaryType
<1> HIDE DEF f
<1>4. /\ SpansLinked(Front(frames), t)
      /\ SpansExpected(Front(frames), t) = SpansWhole(Top, t)
  BY <1>2, ReturnMeans
<1>5. PICK low \in Nat, mid \in Nat :
              /\ low <= mid /\ mid <= Len(states)
              /\ Regions(Front(frames), states, t, low)
              /\ Holds(Top, states, t, low, mid)
              /\ Stands(fragment, states, t, mid, Len(states),
                        SpansPending(Top, t))
  BY <1>2, ReturnMeans
<1>6. mid = low
  BY <1>1, <1>5 DEF Holds
<1>7. SpansPending(Top, t) = SpansDone(f, t)
      /\ SpansPending(f, t) = NodeSpans(target', t)
      /\ SpansWhole(f, t) = SpansWhole(Top, t)
  BY <1>1, <1>2, <1>3 DEF SpansPending, SpansDone, SpansWhole
<1>8. Holds(f, states', t, low, Len(states')) /\ Len(states') \in Nat
  BY <1>1, <1>3, <1>5, <1>6, <1>7, InvFacts DEF Holds
<1>9. SameStates(states, states', Part(0, low))
  BY <1>1 DEF SameStates
<1> QED
  BY <1>1, <1>2, <1>4, <1>5, <1>7, <1>8, <1>9, MeantAfterTaking

\* A concatenation means one part after the other.
LEMMA ReturnRightMeans ==
    ASSUME IInv, SizeOK, NEW t \in Texts, MeaningOf(t), ReturnRight
    PROVE  MeaningOf(t)'
<1>1. /\ IsReturn({"CONCATENATION"}) /\ Top.index = 1 /\ mode' = "return"
      /\ states' = Patched(states, Top.held.out, fragment.start)
      /\ frames' = Front(frames) /\ UNCHANGED input
      /\ fragment' = [start |-> Top.held.start, out |-> fragment.out]
  BY DEF ReturnRight, Pop, Yield, AppendFragment
<1>2. /\ mode = "return" /\ frames # <<>> /\ Top.fn = "CONCATENATION"
      /\ Top \in Frame /\ FrameOK(Top, Len(states))
  BY <1>1, ReturnFacts
<1>3. /\ SpansLinked(Front(frames), t)
      /\ SpansExpected(Front(frames), t) = SpansWhole(Top, t)
  BY <1>2, ReturnMeans
<1>4. PICK low \in Nat, mid \in Nat :
              /\ low <= mid /\ mid <= Len(states)
              /\ Regions(Front(frames), states, t, low)
              /\ Holds(Top, states, t, low, mid)
              /\ Stands(fragment, states, t, mid, Len(states),
                        SpansPending(Top, t))
  BY <1>2, ReturnMeans
<1> DEFINE R1 == NodeSpans(ast[Top.node].left, t)
           R2 == NodeSpans(ast[Top.node].right, t)
           a == Top.held
           b == fragment
           n == Len(states)
           new == Patched(states, a.out, b.start)
           f == [start |-> a.start, out |-> b.out]
<1>5. IsSpans(R1, Len(t)) /\ IsSpans(R2, Len(t)) /\ Len(t) \in Nat
  BY <1>2, InvFacts, FrameSpans, TextLengths DEF BinaryType
<1>6. Stands(a, states, t, low, mid, R1) /\ Stands(b, states, t, mid, n, R2)
  BY <1>1, <1>2, <1>4 DEF Holds, SpansDone, SpansPending
<1>7. SpansWhole(Top, t) = Then(R1, R2)
  <2>1. ast[Top.node].type = "CONCATENATION"
    BY <1>2 DEF FrameOK, UnaryType
  <2>2. NodeSpans(Top.node, t) = SpansOf(Meanings(ast, t), ast, t, Top.node)
    BY <1>2, <1>5, InvFacts, FrameSpans
  <2>3. NodeSpans(Top.node, t) = Then(R1, R2)
    BY <2>1, <2>2, SpansOfCases DEF NodeSpans
  <2> QED
    BY <1>2, <2>1, <2>3 DEF SpansWhole
<1>8. /\ states \in Seq(NfaState) /\ n \in Nat /\ n = Len(states) /\ n <= n
      /\ f.start = a.start /\ f.out = b.out
      /\ new = Patched(states, a.out, b.start) /\ b.start \in Nat
  BY <1>2, InvFacts
<1>9. fragment' = f /\ states' = new
  BY <1>1
<1> HIDE DEF R1, R2, a, b, n, new, f
<1>10. Stands(f, new, t, low, n, Then(R1, R2))
  BY <1>4, <1>5, <1>6, <1>8, JoinStands
<1>11. n = Len(new)
  BY <1>8, PatchedStates DEF IsPatched
<1>12. SameStates(states, new, Part(0, low))
  <2>1. /\ states \in Seq(NfaState) /\ n \in Nat /\ n = Len(states)
        /\ low \in Nat /\ mid \in Nat /\ low <= low /\ low <= n
        /\ Stands(a, states, t, low, mid, R1) /\ b.start \in Nat
        /\ new = Patched(states, a.out, b.start)
    BY <1>4, <1>6, <1>8 DEF n
  <2> QED
    BY ONLY <2>1, BeforeIsSame, SMTT(30)
<1>13. Stands(fragment', states', t, low, Len(states'), SpansWhole(Top, t))
       /\ SameStates(states, states', Part(0, low))
  BY <1>7, <1>9, <1>10, <1>11, <1>12
<1> QED
  BY <1>1, <1>2, <1>3, <1>4, <1>13, MeantAfterReturn

\* A program is one state longer and the same up to `low`.
IsBehind(old, new, low, n) ==
    SameStates(old, new, Part(0, low)) /\ n + 1 = Len(new)

\* What is before a split that is added, and before what it leads to.
LEMMA ChoiceIsBehind ==
    ASSUME NEW sts \in Seq(NfaState), NEW n \in Nat, n = Len(sts),
           NEW e1 \in Nat, NEW e2 \in Nat,
           NEW new, new = Patched(Patched(Grow(sts, "SPLIT", {}), {<<n, 1>>},
                                          e1),
                                  {<<n, 2>>}, e2)
    PROVE  IsBehind(sts, new, n, n)
<1> DEFINE one == Patched(Grow(sts, "SPLIT", {}), {<<n, 1>>}, e1)
           list == {<<n, 2>>}
           m == n + 1
<1>1. IsSplit(sts, one, n, e1)
  BY GrownSplit
<1>2. new = Patched(one, list, e2) /\ m \in Nat
      /\ 0 .. n - 1 \in SUBSET (0 .. m - 1)
  OBVIOUS
<1>3. \A s \in 0 .. n - 1 : <<s, 1>> \notin list /\ <<s, 2>> \notin list
  OBVIOUS
<1>4. one \in Seq(NfaState) /\ m = Len(one) /\ SameStates(sts, one, 0 .. n - 1)
  BY <1>1 DEF IsSplit
<1> HIDE DEF one, list, m
<1>5. SameStates(one, new, 0 .. n - 1)
  BY <1>2, <1>3, <1>4, PatchedSame
<1>6. m = Len(new)
  BY <1>2, <1>4, PatchedStates DEF IsPatched
<1>7. SameStates(sts, new, 0 .. n - 1)
  BY ONLY <1>4, <1>5 DEF SameStates
<1> QED
  BY <1>6, <1>7 DEF m, IsBehind, Part

\* A loop's SPLIT state lies behind the states of its operand.
LEMMA LoopIsBehind ==
    ASSUME NEW sts \in Seq(NfaState), NEW n \in Nat, n = Len(sts), NEW t,
           NEW low \in Nat, low <= n, NEW R, NEW b,
           Stands(b, sts, t, low, n, R),
           NEW new, new = Patched(Patched(Grow(sts, "SPLIT", {}), {<<n, 1>>},
                                          b.start),
                                  b.out, n)
    PROVE  IsBehind(sts, new, low, n)
<1> DEFINE e1 == b.start
           one == Patched(Grow(sts, "SPLIT", {}), {<<n, 1>>}, e1)
           list == b.out
           m == n + 1
<1>1. e1 \in Nat
  BY StandsFacts
<1>2. IsSplit(sts, one, n, e1)
  BY <1>1, GrownSplit
<1>3. /\ new = Patched(one, list, n) /\ m \in Nat /\ low <= m
      /\ Part(low, n) \in SUBSET (0 .. n - 1)
      /\ Part(0, low) \in SUBSET (0 .. n - 1)
  BY DEF Part
<1>4. one \in Seq(NfaState) /\ m = Len(one) /\ SameStates(sts, one, 0 .. n - 1)
  BY <1>2 DEF IsSplit
<1> HIDE DEF one, m, e1
<1>5. Stands(b, one, t, low, n, R)
  <2>1. SameStates(sts, one, Part(low, n))
    BY <1>3, <1>4 DEF SameStates
  <2> QED
    BY <2>1, SameStands
<1>6. SameStates(one, new, Part(0, low))
  BY <1>3, <1>4, <1>5, BeforeIsSame
<1> HIDE DEF list
<1>7. m = Len(new)
  BY <1>3, <1>4, PatchedStates DEF IsPatched
<1>8. SameStates(sts, new, Part(0, low))
  BY <1>3, <1>4, <1>6 DEF SameStates
<1> QED
  BY <1>7, <1>8 DEF m, IsBehind

\* An alternation means either of its parts.
LEMMA ReturnBranchesMeans ==
    ASSUME IInv, SizeOK, NEW t \in Texts, MeaningOf(t), ReturnBranches
    PROVE  MeaningOf(t)'
<1>1. /\ IsReturn({"ALTERNATION"}) /\ Top.index = 1
      /\ frames' = Front(frames) /\ UNCHANGED input
  BY DEF ReturnBranches, Pop
<1>2. /\ mode = "return" /\ frames # <<>> /\ Top.fn = "ALTERNATION"
      /\ Top \in Frame /\ FrameOK(Top, Len(states))
  BY <1>1, ReturnFacts
<1>3. /\ SpansLinked(Front(frames), t)
      /\ SpansExpected(Front(frames), t) = SpansWhole(Top, t)
  BY <1>2, ReturnMeans
<1>4. PICK low \in Nat, mid \in Nat :
              /\ low <= mid /\ mid <= Len(states)
              /\ Regions(Front(frames), states, t, low)
              /\ Holds(Top, states, t, low, mid)
              /\ Stands(fragment, states, t, mid, Len(states),
                        SpansPending(Top, t))
  BY <1>2, ReturnMeans
<1>5. CASE mode' = "fail"
  BY <1>1, <1>5, MeantAfterFailing
<1>6. CASE mode' # "fail"
  <2> DEFINE R1 == NodeSpans(ast[Top.node].left, t)
             R2 == NodeSpans(ast[Top.node].right, t)
             a == Top.held
             b == fragment
             n == Len(states)
             new == Patched(Patched(Grow(states, "SPLIT", {}), {<<n, 1>>},
                                    a.start), {<<n, 2>>}, b.start)
             f == [start |-> n, out |-> a.out \cup b.out]
  <2>1. fragment' = f /\ states' = new /\ mode' = "return"
    BY <1>6 DEF ReturnBranches, Fail, Yield, Index, Appended, Grow
  <2>2. Len(t) \in Nat
    BY TextLengths
  <2>3. Stands(a, states, t, low, mid, R1) /\ Stands(b, states, t, mid, n, R2)
    BY <1>1, <1>2, <1>4 DEF Holds, SpansDone, SpansPending
  <2>4. SpansWhole(Top, t) = R1 \cup R2
    <3>1. ast[Top.node].type = "ALTERNATION"
      BY <1>2 DEF FrameOK, UnaryType
    <3>2. NodeSpans(Top.node, t) = SpansOf(Meanings(ast, t), ast, t, Top.node)
      BY <1>2, <2>2, InvFacts, FrameSpans
    <3>3. NodeSpans(Top.node, t) = R1 \cup R2
      BY <3>1, <3>2, SpansOfCases DEF NodeSpans
    <3> QED
      BY <1>2, <3>1, <3>3 DEF SpansWhole
  <2>5. /\ states \in Seq(NfaState) /\ n \in Nat /\ n = Len(states)
        /\ f.start = n /\ f.out = a.out \cup b.out
        /\ new = Patched(Patched(Grow(states, "SPLIT", {}), {<<n, 1>>},
                                 a.start), {<<n, 2>>}, b.start)
    BY InvFacts
  <2> HIDE DEF R1, R2, a, b, n, new, f
  <2>6. Stands(f, new, t, low, n + 1, R1 \cup R2)
    BY <1>4, <2>3, <2>5, ChooseStands
  <2>7. IsBehind(states, new, n, n)
    <3>1. a.start \in Nat /\ b.start \in Nat
      BY <2>3, <2>5, StandsFacts
    <3> DEFINE e1 == a.start
               e2 == b.start
    <3>2. /\ e1 \in Nat /\ e2 \in Nat /\ states \in Seq(NfaState)
          /\ n \in Nat /\ n = Len(states)
          /\ new = Patched(Patched(Grow(states, "SPLIT", {}), {<<n, 1>>}, e1),
                           {<<n, 2>>}, e2)
      BY <2>5, <3>1
    <3> HIDE DEF e1, e2
    <3> QED
      BY ONLY <3>2, ChoiceIsBehind
  <2>8. SameStates(states, new, Part(0, low))
    <3>1. \A s \in Part(0, low) : s \in Part(0, n)
      BY <1>4, <2>5 DEF Part, n
    <3> QED
      BY <2>7, <3>1 DEF SameStates, IsBehind
  <2>9. Stands(fragment', states', t, low, Len(states'), SpansWhole(Top, t))
        /\ SameStates(states, states', Part(0, low))
    BY <2>1, <2>4, <2>6, <2>7, <2>8 DEF IsBehind
  <2> QED
    BY <1>1, <1>2, <1>3, <1>4, <2>1, <2>9, MeantAfterReturn
<1> QED
  BY <1>5, <1>6

\* The topmost frame is a star, a plus or a question mark.
LEMMA UnaryMeans ==
    ASSUME IInv, SizeOK, NEW t \in Texts, MeaningOf(t), IsReturn(UnaryType)
    PROVE  /\ SpansLinked(Front(frames), t)
           /\ SpansExpected(Front(frames), t) = SpansWhole(Top, t)
           /\ IsSpans(NodeSpans(ast[Top.node].left, t), Len(t))
           /\ Top.fn = "STAR" => SpansWhole(Top, t) =
                 Closure(NodeSpans(ast[Top.node].left, t), Len(t))
           /\ Top.fn = "PLUS" => SpansWhole(Top, t) =
                 Then(NodeSpans(ast[Top.node].left, t),
                      Closure(NodeSpans(ast[Top.node].left, t), Len(t)))
           /\ Top.fn = "OPTIONAL" => SpansWhole(Top, t) =
                 Identity(Len(t)) \cup NodeSpans(ast[Top.node].left, t)
           /\ \E low \in Nat :
                 /\ low <= Len(states)
                 /\ Regions(Front(frames), states, t, low)
                 /\ Stands(fragment, states, t, low, Len(states),
                           NodeSpans(ast[Top.node].left, t))
<1>1. /\ mode = "return" /\ frames # <<>> /\ Top.fn \in UnaryType
      /\ Top \in Frame /\ FrameOK(Top, Len(states))
  BY ReturnFacts
<1>2. /\ SpansLinked(Front(frames), t)
      /\ SpansExpected(Front(frames), t) = SpansWhole(Top, t)
  BY <1>1, ReturnMeans
<1>3. PICK low \in Nat, mid \in Nat :
              /\ low <= mid /\ mid <= Len(states)
              /\ Regions(Front(frames), states, t, low)
              /\ Holds(Top, states, t, low, mid)
              /\ Stands(fragment, states, t, mid, Len(states),
                        SpansPending(Top, t))
  BY <1>1, ReturnMeans
<1> DEFINE R == NodeSpans(ast[Top.node].left, t)
<1>4. Len(t) \in Nat
  BY TextLengths
<1>5. IsSpans(R, Len(t))
      /\ NodeSpans(Top.node, t) = SpansOf(Meanings(ast, t), ast, t, Top.node)
  BY <1>1, <1>4, InvFacts, FrameSpans
<1>6. Top.index = 0 /\ Top.fn # "REPEAT"
      /\ (ast[Top.node].type = Top.fn \/ ast[Top.node].type = "REPEAT")
  BY <1>1 DEF FrameOK, UnaryType
<1>7. mid = low /\ SpansPending(Top, t) = R
  BY <1>3, <1>6 DEF Holds, SpansPending
<1>8. /\ Powers(R, 0, UNBOUNDED, Len(t)) = Closure(R, Len(t))
      /\ Powers(R, 1, UNBOUNDED, Len(t)) = Then(R, Closure(R, Len(t)))
      /\ Powers(R, 0, 1, Len(t)) = Identity(Len(t)) \cup R
  <2> HIDE DEF R
  <2> QED
    BY <1>4, <1>5, PowersFacts
<1>9. ASSUME Top.fn = "STAR"
      PROVE  SpansWhole(Top, t) = Powers(R, 0, UNBOUNDED, Len(t))
  <2>1. CASE ast[Top.node].type = Top.fn
    <3>1. NodeSpans(Top.node, t) = Powers(R, 0, UNBOUNDED, Len(t))
      BY <1>5, <1>9, <2>1, SpansOfCases DEF NodeSpans
    <3> QED
      BY <2>1, <3>1 DEF SpansWhole
  <2>2. CASE ast[Top.node].type # Top.fn
    BY <1>9, <2>2 DEF SpansWhole
  <2> QED
    BY <2>1, <2>2
<1>10. ASSUME Top.fn = "OPTIONAL"
       PROVE  SpansWhole(Top, t) = Powers(R, 0, 1, Len(t))
  <2>1. CASE ast[Top.node].type = Top.fn
    <3>1. NodeSpans(Top.node, t) = Powers(R, 0, 1, Len(t))
      BY <1>5, <1>10, <2>1, SpansOfCases DEF NodeSpans
    <3> QED
      BY <2>1, <3>1 DEF SpansWhole
  <2>2. CASE ast[Top.node].type # Top.fn
    BY <1>10, <2>2 DEF SpansWhole
  <2> QED
    BY <2>1, <2>2
<1>11. ASSUME Top.fn = "PLUS"
       PROVE  SpansWhole(Top, t) = Powers(R, 1, UNBOUNDED, Len(t))
  <2>1. CASE ast[Top.node].type = Top.fn
    <3>1. NodeSpans(Top.node, t) = Powers(R, 1, UNBOUNDED, Len(t))
      BY <1>5, <1>11, <2>1, SpansOfCases DEF NodeSpans
    <3> QED
      BY <2>1, <3>1 DEF SpansWhole
  <2>2. CASE ast[Top.node].type # Top.fn
    BY <1>11, <2>2 DEF SpansWhole
  <2> QED
    BY <2>1, <2>2
<1> QED
  <2>1. \E x \in Nat :
           /\ x <= Len(states) /\ Regions(Front(frames), states, t, x)
           /\ Stands(fragment, states, t, x, Len(states), R)
    BY <1>3, <1>7
  <2> QED
    BY <1>2, <1>5, <1>8, <1>9, <1>10, <1>11, <2>1
\* A star or a plus means what its body means, any number of times.
LEMMA ReturnLoopMeans ==
    ASSUME IInv, SizeOK, NEW t \in Texts, MeaningOf(t), ReturnLoop
    PROVE  MeaningOf(t)'
<1>1. /\ IsReturn({"STAR", "PLUS"}) /\ frames' = Front(frames)
      /\ UNCHANGED input
  BY DEF ReturnLoop, Pop
<1>2. IsReturn(UnaryType) /\ mode = "return" /\ frames # <<>>
      /\ Top.fn \in {"STAR", "PLUS"}
  BY <1>1 DEF IsReturn, UnaryType
<1> DEFINE R == NodeSpans(ast[Top.node].left, t)
           n == Len(states)
           b == fragment
           star == Closure(R, Len(t))
<1>3. /\ SpansLinked(Front(frames), t)
      /\ SpansExpected(Front(frames), t) = SpansWhole(Top, t)
      /\ IsSpans(R, Len(t))
      /\ Top.fn = "STAR" => SpansWhole(Top, t) = star
      /\ Top.fn = "PLUS" => SpansWhole(Top, t) = Then(R, star)
  BY <1>2, UnaryMeans
<1>4. PICK low \in Nat : /\ low <= n /\ Regions(Front(frames), states, t, low)
                         /\ Stands(b, states, t, low, n, R)
  BY <1>2, UnaryMeans
<1>5. CASE mode' = "fail"
  BY <1>1, <1>5, MeantAfterFailing
<1>6. CASE mode' # "fail"
  <2> DEFINE new == Patched(Patched(Grow(states, "SPLIT", {}), {<<n, 1>>},
                                    b.start), b.out, n)
             f == [start |-> LoopEntry, out |-> {<<n, 2>>}]
  <2>1. fragment' = f /\ states' = new /\ mode' = "return"
    BY <1>6 DEF ReturnLoop, SplitFails, Fail, Yield, Index, Appended, Grow
  <2>2. /\ states \in Seq(NfaState) /\ n \in Nat /\ n = Len(states)
        /\ f.out = {<<n, 2>>} /\ f.start = LoopEntry
        /\ new = Patched(Patched(Grow(states, "SPLIT", {}), {<<n, 1>>},
                                 b.start), b.out, n)
        /\ Len(t) \in Nat
    BY InvFacts, TextLengths
  <2>3. /\ Top.fn = "STAR" => f.start = n
        /\ Top.fn = "PLUS" => f.start = b.start
    BY <2>2 DEF LoopEntry, Index
  <2> HIDE DEF R, n, b, star, new, f
  <2>4. /\ f.start = n => Stands(f, new, t, low, n + 1, star)
        /\ f.start = b.start => Stands(f, new, t, low, n + 1, Then(R, star))
    BY <1>3, <1>4, <2>2, LoopStands DEF star
  <2>5. Stands(f, new, t, low, n + 1, SpansWhole(Top, t))
    BY <1>2, <1>3, <2>3, <2>4
  <2>6. IsBehind(states, new, low, n)
    BY <1>4, <2>2, LoopIsBehind
  <2>7. Stands(fragment', states', t, low, Len(states'), SpansWhole(Top, t))
        /\ SameStates(states, states', Part(0, low))
    BY <2>1, <2>5, <2>6 DEF IsBehind
  <2> QED
    BY <1>1, <1>2, <1>3, <1>4, <2>1, <2>7, MeantAfterReturn
<1> QED
  BY <1>5, <1>6

\* A question mark means its body or nothing.
LEMMA ReturnOptionalMeans ==
    ASSUME IInv, SizeOK, NEW t \in Texts, MeaningOf(t), ReturnOptional
    PROVE  MeaningOf(t)'
<1>1. /\ IsReturn({"OPTIONAL"}) /\ frames' = Front(frames) /\ UNCHANGED input
  BY DEF ReturnOptional, Pop
<1>2. IsReturn(UnaryType) /\ mode = "return" /\ frames # <<>>
      /\ Top.fn = "OPTIONAL"
  BY <1>1 DEF IsReturn, UnaryType
<1> DEFINE R == NodeSpans(ast[Top.node].left, t)
           n == Len(states)
           b == fragment
<1>3. /\ SpansLinked(Front(frames), t)
      /\ SpansExpected(Front(frames), t) = SpansWhole(Top, t)
      /\ SpansWhole(Top, t) = Identity(Len(t)) \cup R
  BY <1>2, UnaryMeans
<1>4. PICK low \in Nat : /\ low <= n /\ Regions(Front(frames), states, t, low)
                         /\ Stands(b, states, t, low, n, R)
  BY <1>2, UnaryMeans
<1>5. CASE mode' = "fail"
  BY <1>1, <1>5, MeantAfterFailing
<1>6. CASE mode' # "fail"
  <2> DEFINE new == Patched(Grow(states, "SPLIT", {}), {<<n, 1>>}, b.start)
             f == [start |-> n, out |-> b.out \cup {<<n, 2>>}]
  <2>1. fragment' = f /\ states' = new /\ mode' = "return"
    BY <1>6 DEF ReturnOptional, SplitFails, Fail, Yield, Index, Appended, Grow
  <2>2. /\ states \in Seq(NfaState) /\ n \in Nat /\ n = Len(states)
        /\ f.out = b.out \cup {<<n, 2>>} /\ f.start = n
        /\ new = Patched(Grow(states, "SPLIT", {}), {<<n, 1>>}, b.start)
    BY InvFacts
  <2> HIDE DEF R, n, b, new, f
  <2>3. Stands(f, new, t, low, n + 1, Identity(Len(t)) \cup R)
    BY <1>4, <2>2, MaybeStands
  <2>4. IsSplit(states, new, n, b.start)
    <3>1. b.start \in Nat
      BY <1>4, <2>2, StandsFacts
    <3> QED
      BY <2>2, <3>1, GrownSplit
  <2>5. SameStates(states, new, Part(0, low)) /\ n + 1 = Len(new)
    <3>1. \A s \in Part(0, low) : s \in 0 .. n - 1
      BY <1>4, <2>2 DEF Part, n
    <3> QED
      BY <2>4, <3>1 DEF IsSplit, SameStates
  <2>6. Stands(fragment', states', t, low, Len(states'), SpansWhole(Top, t))
        /\ SameStates(states, states', Part(0, low))
    BY <1>3, <2>1, <2>3, <2>5
  <2> QED
    BY <1>1, <1>2, <1>3, <1>4, <2>1, <2>6, MeantAfterReturn
<1> QED
  BY <1>5, <1>6

\* The parts of a repetition, and what they mean.
LEMMA RepeatMeans ==
    ASSUME IInv, SizeOK, NEW t \in Texts, frames # <<>>, Top.fn = "REPEAT",
           mode \in {"repeat", "return"}
    PROVE  /\ 0 < Parts(Repeat) =>
                 Rounds(NodeSpans(Repeat.left, t), Repeat, 1, Len(t)) =
                    PartSpans(NodeSpans(Repeat.left, t), Repeat, 0, Len(t))
           /\ \A k \in Nat \ {0} : k < Parts(Repeat) =>
                 Rounds(NodeSpans(Repeat.left, t), Repeat, k + 1, Len(t)) =
                    Then(Rounds(NodeSpans(Repeat.left, t), Repeat, k, Len(t)),
                         PartSpans(NodeSpans(Repeat.left, t), Repeat, k,
                         Len(t)))
           /\ Rounds(NodeSpans(Repeat.left, t), Repeat, Parts(Repeat),
              Len(t)) =
                 NodeSpans(Top.node, t)
           /\ Rounds(NodeSpans(Repeat.left, t), Repeat, 0, Len(t)) =
                 Identity(Len(t))
           /\ \A k \in Nat :
                 /\ IsSpans(Rounds(NodeSpans(Repeat.left, t), Repeat, k,
                    Len(t)),
                            Len(t))
                 /\ IsSpans(PartSpans(NodeSpans(Repeat.left, t), Repeat, k,
                                      Len(t)), Len(t))
<1> DEFINE R == NodeSpans(Repeat.left, t)
           low == Repeat.minimum
           high == Repeat.maximum
           length == Len(t)
           node == Repeat
<1>1. /\ Top \in Frame /\ FrameOK(Top, Len(states)) /\ Repeat.type = "REPEAT"
      /\ low \in Nat
      /\ high = UNBOUNDED \/ (high \in Nat /\ low <= high)
  BY RoundFacts
<1>2. length \in Nat
  BY TextLengths
<1>3. /\ IsSpans(R, length)
      /\ NodeSpans(Top.node, t) = SpansOf(Meanings(ast, t), ast, t, Top.node)
  BY <1>1, <1>2, InvFacts, FrameSpans DEF Repeat
<1>4. NodeSpans(Top.node, t) = Powers(R, low, high, length)
  BY <1>1, <1>3, SpansOfCases DEF NodeSpans, Repeat
<1>5. low = node.minimum /\ high = node.maximum
      /\ high \in Nat \cup {UNBOUNDED}
      /\ (high = UNBOUNDED \/ low <= high)
  BY <1>1
<1> HIDE DEF R, low, high, length, node
<1>6. /\ 0 < Parts(node) =>
            Rounds(R, node, 1, length) = PartSpans(R, node, 0, length)
      /\ \A k \in Nat \ {0} : k < Parts(node) =>
            Rounds(R, node, k + 1, length) =
               Then(Rounds(R, node, k, length), PartSpans(R, node, k, length))
      /\ Rounds(R, node, Parts(node), length) = Powers(R, low, high, length)
      /\ \A k \in Nat : /\ IsSpans(Rounds(R, node, k, length), length)
                        /\ IsSpans(PartSpans(R, node, k, length), length)
  BY ONLY <1>1, <1>2, <1>3, <1>5, RoundsFacts, ZenonT(60)
<1>7. Rounds(R, node, 0, length) = Identity(length)
  <2>1. 0 <= node.minimum
    BY <1>1, <1>5
  <2>2. Power(R, 0, length) = Identity(length)
    BY <1>2, <1>3, PowerFacts
  <2> QED
    BY <2>1, <2>2 DEF Rounds
<1> QED
  BY <1>4, <1>6, <1>7 DEF R, length, node

\* A part that is appended means one part more.
LEMMA ReturnPartMeans ==
    ASSUME IInv, SizeOK, NEW t \in Texts, MeaningOf(t), ReturnPart
    PROVE  MeaningOf(t)'
<1> DEFINE f == [Top EXCEPT !.held = fragment, !.index = 1]
           g == [Top EXCEPT !.held.out = fragment.out, !.index = @ + 1]
           k == Top.index
           n == Len(states)
           R == NodeSpans(Repeat.left, t)
<1>1. /\ IsReturn({"REPEAT"}) /\ mode' = "repeat" /\ UNCHANGED input
      /\ \/ k = 0 /\ frames' = Append(Front(frames), f) /\ states' = states
         \/ /\ k > 0 /\ frames' = Append(Front(frames), g)
            /\ states' = Patched(states, Top.held.out, fragment.start)
  BY DEF ReturnPart, Goto, AppendFragment
<1>2. mode = "return" /\ frames # <<>> /\ Top.fn = "REPEAT"
      /\ Top.held \in Fragment
  BY <1>1, ReturnFacts
<1>3. Top \in Frame /\ k \in Nat /\ k < Parts(Repeat)
  BY <1>2, RoundFacts
<1>4. /\ SpansLinked(Front(frames), t)
      /\ SpansExpected(Front(frames), t) = SpansWhole(Top, t)
  BY <1>2, ReturnMeans
<1>5. PICK low \in Nat, mid \in Nat :
              /\ low <= mid /\ mid <= n
              /\ Regions(Front(frames), states, t, low)
              /\ Holds(Top, states, t, low, mid)
              /\ Stands(fragment, states, t, mid, n, SpansPending(Top, t))
  BY <1>2, ReturnMeans
<1> DEFINE P == PartSpans(R, Repeat, k, Len(t))
           D == Rounds(R, Repeat, k, Len(t))
           more == Rounds(R, Repeat, k + 1, Len(t))
<1>6. SpansPending(Top, t) = P /\ SpansDone(Top, t) = D
  BY <1>2 DEF SpansPending, SpansDone, Repeat
<1>7. IsSpans(P, Len(t)) /\ IsSpans(D, Len(t)) /\ Len(t) \in Nat
  BY <1>2, <1>3, RepeatMeans, TextLengths
<1>8. /\ states \in Seq(NfaState) /\ n \in Nat /\ n = Len(states)
  BY InvFacts
<1>9. CASE k = 0
  <2>1. frames' = Append(Front(frames), f) /\ states' = states
    BY <1>1, <1>9
  <2>2. f.fn = "REPEAT" /\ f.node = Top.node /\ f.index = 1
        /\ f.held = fragment
    BY <1>2, <1>3 DEF Frame
  <2> HIDE DEF f
  <2>3. 0 < Parts(Repeat) /\ k + 1 = 1
    BY <1>3, <1>9
  <2>4. more = P
    BY <1>2, <1>9, <2>3, RepeatMeans
  <2>5. SpansDone(f, t) = more /\ SpansWhole(f, t) = SpansWhole(Top, t)
    BY <1>2, <2>2, <2>3 DEF SpansDone, SpansWhole, Repeat
  <2>6. mid = low
    BY <1>5, <1>9 DEF Holds
  <2>7. Holds(f, states', t, low, Len(states')) /\ Len(states') \in Nat
    BY <1>5, <1>6, <1>8, <2>1, <2>2, <2>4, <2>5, <2>6 DEF Holds
  <2>8. SameStates(states, states', Part(0, low))
    BY <2>1 DEF SameStates
  <2> QED
    BY <1>1, <1>2, <1>4, <1>5, <2>1, <2>5, <2>7, <2>8, MeantAfterTaking
<1>10. CASE k # 0
  <2> DEFINE a == Top.held
             b == fragment
             h == g.held
             new == Patched(states, a.out, b.start)
  <2>1. frames' = Append(Front(frames), g) /\ states' = new
    BY <1>1, <1>10
  <2>2. /\ g.fn = "REPEAT" /\ g.node = Top.node /\ g.index = k + 1
        /\ h.start = a.start /\ h.out = b.out
    BY <1>2, <1>3 DEF Frame, Fragment
  <2>3. more = Then(D, P)
    BY <1>2, <1>3, <1>10, RepeatMeans
  <2> HIDE DEF g
  <2>4. SpansDone(g, t) = more /\ SpansWhole(g, t) = SpansWhole(Top, t)
    BY <1>2, <2>2 DEF SpansDone, SpansWhole, Repeat
  <2>5. Stands(a, states, t, low, mid, D) /\ Stands(b, states, t, mid, n, P)
    BY <1>5, <1>6, <1>10 DEF Holds
  <2>6. b.start \in Nat /\ n <= n /\ low <= n
        /\ new = Patched(states, a.out, b.start)
    BY <1>2, <1>5, <1>8, InvFacts
  <2> HIDE DEF a, b, h, new, n, D, P, more
  <2>7. Stands(h, new, t, low, n, more)
    BY <1>5, <1>7, <1>8, <2>2, <2>3, <2>5, <2>6, JoinStands
  <2>8. n = Len(new)
    BY <1>8, <2>6, PatchedStates DEF IsPatched
  <2>9. SameStates(states, new, Part(0, low))
    BY <1>5, <1>8, <2>5, <2>6, BeforeIsSame
  <2>10. Holds(g, states', t, low, Len(states')) /\ Len(states') \in Nat
    BY <1>3, <1>8, <1>10, <2>1, <2>2, <2>4, <2>6, <2>7, <2>8 DEF Holds, h
  <2>11. SameStates(states, states', Part(0, low))
    BY <2>1, <2>9
  <2> QED
    BY <1>1, <1>2, <1>4, <1>5, <2>1, <2>4, <2>10, <2>11, MeantAfterTaking
<1> QED
  BY <1>9, <1>10

\* A counted repetition means all of its parts.
LEMMA RepeatEndsMeans ==
    ASSUME IInv, SizeOK, NEW t \in Texts, MeaningOf(t), RepeatEnds
    PROVE  MeaningOf(t)'
<1> DEFINE n == Len(states)
           R == NodeSpans(Repeat.left, t)
           all == NodeSpans(Top.node, t)
<1>1. /\ mode = "repeat" /\ Top.index = Parts(Repeat)
      /\ frames' = Front(frames) /\ UNCHANGED input
  BY DEF RepeatEnds, Pop
<1>2. frames # <<>> /\ Top.fn = "REPEAT"
  BY <1>1, RepeatFacts
<1>3. /\ IsCounting /\ frames \in Seq(Frame) /\ Top \in Frame
      /\ Repeat.type = "REPEAT" /\ Top.index \in Nat
  BY <1>1, <1>2, RoundFacts
<1>4. SpansLinked(frames, t) /\ Regions(frames, states, t, n)
  BY <1>1, <1>3 DEF MeaningOf, Meant
<1>5. /\ SpansLinked(Front(frames), t)
      /\ SpansExpected(Front(frames), t) = SpansWhole(Top, t)
  BY <1>2, <1>3, <1>4, SpansPop DEF Top
<1>6. PICK low \in Nat : /\ Regions(Front(frames), states, t, low)
                         /\ Holds(Top, states, t, low, n)
  BY <1>2, <1>3, <1>4, RegionsPop DEF Top
<1>7. SpansWhole(Top, t) = all
  BY <1>2, <1>3 DEF SpansWhole, Repeat
<1>8. Rounds(R, Repeat, Top.index, Len(t)) = all
  BY <1>1, <1>2, RepeatMeans
<1>9. n \in Nat /\ n = Len(states) /\ states \in Seq(NfaState)
      /\ Len(t) \in Nat
  BY InvFacts, TextLengths
<1>10. CASE mode' = "fail"
  BY <1>1, <1>10, MeantAfterFailing
<1>11. CASE mode' # "fail" /\ Top.index = 0
  <2> DEFINE new == Grow(states, "JUMP", {})
             f == [start |-> n, out |-> {<<n, 1>>}]
  <2>0. ~(Top.index > 0)
    BY <1>11
  <2>1. fragment' = f /\ states' = new /\ mode' = "return"
    <3>1. SingleOutputState("JUMP", {})
      BY <2>0 DEF RepeatEnds
    <3> QED
      BY <1>11, <3>1
      DEF SingleOutputState, Fail, Yield, Index, Appended, Grow
  <2>2. low = n
    BY <1>6, <1>11 DEF Holds
  <2>3. all = Identity(Len(t)) /\ IsSpans(all, Len(t))
    BY <1>1, <1>2, <1>3, <1>8, <1>11, RepeatMeans
  <2>4. Reads("JUMP", {}, t, all)
    BY <1>9, <2>3, LeavesRead
  <2>5. "JUMP" \in NfaStateType \ {"SPLIT", "MATCH"} /\ {} \in SUBSET Chars
        /\ "JUMP" \in NfaStateType
    BY DEF NfaStateType, Listed
  <2>6. f.start = n /\ f.out = {<<n, 1>>} /\ new = Grow(states, "JUMP", {})
    OBVIOUS
  <2> HIDE DEF new, f, n, all
  <2>7. Stands(f, new, t, n, n + 1, all)
    BY <1>9, <2>3, <2>4, <2>5, <2>6, OneStands
  <2>8. SameStates(states, new, Part(0, n)) /\ n + 1 = Len(new)
    BY <1>9, <2>5, <2>6, GrownStates DEF Part
  <2>9. Stands(fragment', states', t, low, Len(states'), SpansWhole(Top, t))
        /\ SameStates(states, states', Part(0, low))
    BY <1>7, <2>1, <2>2, <2>7, <2>8
  <2> QED
    BY <1>1, <1>2, <1>5, <1>6, <2>1, <2>9, MeantAfterReturn
<1>12. CASE mode' # "fail" /\ Top.index # 0
  <2> DEFINE f == [start |-> Top.held.start, out |-> Top.held.out]
  <2>1. fragment' = f /\ states' = states /\ mode' = "return"
    BY <1>3, <1>12 DEF RepeatEnds, Yield, program
  <2>2. Stands(Top.held, states, t, low, n, all)
    BY <1>2, <1>6, <1>8, <1>12 DEF Holds, SpansDone, Repeat
  <2>3. Stands(f, states, t, low, n, all)
    BY <2>2 DEF Stands
  <2>4. Stands(fragment', states', t, low, Len(states'), SpansWhole(Top, t))
        /\ SameStates(states, states', Part(0, low))
    BY <1>7, <2>1, <2>3 DEF SameStates
  <2> QED
    BY <1>1, <1>2, <1>5, <1>6, <2>1, <2>4, MeantAfterReturn
<1> QED
  BY <1>10, <1>11, <1>12

\* The whole program means what the tree means.
LEMMA FinishMeans ==
    ASSUME IInv, SizeOK, NEW t, MeaningOf(t), Finish PROVE MeaningOf(t)'
<1>1. mode = "return" /\ frames = <<>> /\ UNCHANGED input
  BY DEF Finish
<1>2. IsCounting
  BY <1>1 DEF SizeOK
<1>3. CASE mode' = "fail"
  BY <1>1, <1>3, MeantAfterFailing
<1>4. CASE mode' # "fail"
  <2> DEFINE n == Len(states)
             R == NodeSpans(Len(ast), t)
             new == Patched(Grow(states, "MATCH", {}), fragment.out, n)
  <2>1. states' = new /\ mode' = "done" /\ start' = fragment.start
    BY <1>4 DEF Finish, Fail, Appended, Grow, Index
  <2>2. \E low \in Nat : /\ Regions(frames, states, t, low)
                         /\ Stands(fragment, states, t, low, n, R)
    BY <1>1, <1>2 DEF MeaningOf, Meant, SpansExpected
  <2>3. Stands(fragment, states, t, 0, n, R)
    BY <1>1, <2>2, RegionsNone
  <2>4. n \in Nat /\ n = Len(states) /\ states \in Seq(NfaState)
        /\ new = Patched(Grow(states, "MATCH", {}), fragment.out, n)
    BY InvFacts
  <2> HIDE DEF n, new, R
  <2>5. IsProgramFor(new, fragment.start, t, R)
    BY <2>3, <2>4, MatchStands
  <2>6. NodeSpans(Len(ast), t)' = R
    BY <1>1 DEF NodeSpans, R, input
  <2>7. IsProgramFor(states', start', t, NodeSpans(Len(ast), t)')
    BY <2>1, <2>5, <2>6
  <2> QED
    BY <2>1, <2>7 DEF MeaningOf
<1> QED
  BY <1>3, <1>4

\* Every step keeps the meaning.
LEMMA StepMeaning ==
    ASSUME NEW t \in Texts, IInv, SizeOK, MeaningOf(t), [Next]_vars
    PROVE  MeaningOf(t)'
<1>1. CASE UNCHANGED vars
  <2>1. /\ ast' = ast /\ frames' = frames /\ states' = states
        /\ target' = target /\ fragment' = fragment /\ start' = start
        /\ mode' = mode
    BY <1>1 DEF vars, input, control, program
  <2>2. IsCounting' <=> IsCounting
    BY <1>1 DEF vars, input, control, program, IsCounting
  <2>3. HasCompiled' <=> HasCompiled
    BY <1>1 DEF vars, input, control, program, HasCompiled
  <2>4. SpansLinked(frames, t)' <=> SpansLinked(frames, t)
    BY <2>1 DEF SpansLinked, NodeSpans, SpansWhole, SpansPending
  <2>5. SpansExpected(frames, t)' = SpansExpected(frames, t)
    BY <2>1 DEF SpansExpected, NodeSpans, SpansPending
  <2>6. \A end : Regions(frames, states, t, end)' <=>
                    Regions(frames, states, t, end)
    BY <2>1 DEF Regions, Holds, SpansDone, NodeSpans
  <2>7. Regions(frames, states, t, Len(states))' <=>
           Regions(frames, states, t, Len(states))
    BY <2>1 DEF Regions, Holds, SpansDone, NodeSpans
  <2>8. NodeSpans(target, t)' = NodeSpans(target, t)
        /\ NodeSpans(Len(ast), t)' = NodeSpans(Len(ast), t)
    BY <2>1 DEF NodeSpans
  <2>9. Meant(t) => Meant(t)'
    BY <2>1, <2>4, <2>5, <2>6, <2>7, <2>8 DEF Meant
  <2> QED
    BY <2>1, <2>2, <2>3, <2>8, <2>9 DEF MeaningOf
<1>2. CASE RefuseProgram \/ CallNull \/ RefuseBounds \/ Unwind
  <2>1. UNCHANGED input /\ mode' = "fail"
    BY <1>2 DEF RefuseProgram, CallNull, RefuseBounds, Unwind, Fail
  <2> QED
    BY <2>1, MeantAfterFailing
<1>3. CASE FinishFailed
  <2>1. UNCHANGED input /\ mode' = "done" /\ error' # NoError
    BY <1>3 DEF FinishFailed, IInv, ModeOK
  <2> QED
    BY <2>1, MeantAfterFailing
<1>4. CASE Begin \/ CompileLeaf \/ CallChild \/ CallRepeat
  BY <1>4, BeginMeans, CompileLeafMeans, CallChildMeans, CallRepeatMeans
<1>5. CASE ReturnLeft \/ ReturnRight \/ ReturnBranches
  BY <1>5, ReturnLeftMeans, ReturnRightMeans, ReturnBranchesMeans
<1>6. CASE ReturnLoop \/ ReturnOptional
  BY <1>6, ReturnLoopMeans, ReturnOptionalMeans
<1>7. CASE RepeatCopy \/ RepeatRest \/ ReturnPart \/ RepeatEnds
  BY <1>7, RepeatCopyMeans, RepeatRestMeans, ReturnPartMeans, RepeatEndsMeans
<1>8. CASE Finish
  BY <1>8, FinishMeans
<1> QED
  BY <1>1, <1>2, <1>3, <1>4, <1>5, <1>6, <1>7, <1>8, SMTT(30) DEF Next

\* Nothing is compiled yet.
LEMMA InitMeaning == ASSUME Init, NEW t PROVE MeaningOf(t)
<1>1. mode = "enter" /\ frames = <<>> /\ DOMAIN frames = {}
  BY DEF Init
<1>2. given = "empty" => Len(states) = 0
  BY DEF Init
<1>3. given = "empty" => Regions(frames, states, t, Len(states))
  BY <1>1, <1>2, RegionsNone
<1> QED
  BY <1>1, <1>3 DEF MeaningOf, Meant, IsCounting, HasCompiled, SpansLinked
-----------------------------------------------------------------------------
(* The configurations of a run are computed, and they are the least set.   *)

Further(p, t, from, C) ==
    C \cup (Configurations(p, t, from) \cap
               UNION {Moves(p, t, c[1], c[2]) : c \in C})

\* The sets that Reached is defined by.
IsSteps(f, p, t, from, k) ==
    f = [n \in 0 .. k |->
            IF n = 0 THEN {<<p.start, from>>} \cap Configurations(p, t, from)
            ELSE Further(p, t, from, f[n - 1])]

\* Reached is the last of its sets.
LEMMA ReachedIs ==
    ASSUME NEW p, NEW t, NEW from, NEW k,
           k = Cardinality(Configurations(p, t, from))
    PROVE  Reached(p, t, from) = (CHOOSE f : IsSteps(f, p, t, from, k))[k]
BY DEF Reached, IsSteps, Further

\* There are sets up to every k.
LEMMA StepsExist ==
    ASSUME NEW p, NEW t, NEW from, NEW k \in Nat
    PROVE  \E f : IsSteps(f, p, t, from, k)
<1> DEFINE Good(n) == \E f : IsSteps(f, p, t, from, n)
           Bad == {n \in 0 .. k : ~ Good(n)}
           first == {<<p.start, from>>} \cap Configurations(p, t, from)
<1>1. Bad = {}
  <2> SUFFICES ASSUME Bad # {} PROVE FALSE
    OBVIOUS
  <2>1. PICK m \in Bad : \A n \in Bad : m <= n
    <3>1. Bad \in SUBSET Nat
      OBVIOUS
    <3> HIDE DEF Bad
    <3> QED
      BY <3>1, LeastNatural
  <2>2. m \in 0 .. k /\ ~ Good(m)
    OBVIOUS
  <2>3. m # 0
    <3> DEFINE f == [n \in 0 .. 0 |-> first]
    <3>1. \A n \in 0 .. 0 : n = 0
      OBVIOUS
    <3>2. f = [n \in 0 .. 0 |-> IF n = 0 THEN first
                                ELSE Further(p, t, from, f[n - 1])]
      BY <3>1
    <3>3. Good(0)
      BY <3>2 DEF IsSteps
    <3> QED
      BY <2>2, <3>3
  <2>4. m - 1 \in 0 .. k /\ ~ (m <= m - 1)
    BY <2>2, <2>3
  <2>5. PICK f : IsSteps(f, p, t, from, m - 1)
    <3>1. m - 1 \notin Bad
      BY <2>1, <2>4
    <3> QED
      BY <2>4, <3>1
  <2> DEFINE g == [n \in 0 .. m |-> IF n = m THEN Further(p, t, from, f[m - 1])
                                    ELSE f[n]]
  <2>6. \A n \in 0 .. m - 1 : f[n] = IF n = 0 THEN first
                                     ELSE Further(p, t, from, f[n - 1])
    BY <2>5 DEF IsSteps
  <2> HIDE DEF first
  <2>7. ASSUME NEW n \in 0 .. m
        PROVE  g[n] = IF n = 0 THEN first ELSE Further(p, t, from, g[n - 1])
    <3>1. CASE n = m
      BY <2>2, <2>3, <3>1
    <3>2. CASE n # m
      <4>1. n \in 0 .. m - 1 /\ (n # 0 => n - 1 \in 0 .. m /\ n - 1 # m)
        BY <2>2, <3>2
      <4> QED
        BY <2>6, <3>2, <4>1
    <3> QED
      BY <3>1, <3>2
  <2>8. g = [n \in 0 .. m |-> g[n]]
    OBVIOUS
  <2> HIDE DEF g
  <2>9. IsSteps(g, p, t, from, m)
    BY <2>7, <2>8 DEF IsSteps, first
  <2> QED
    BY <2>2, <2>9
<1>2. k \in 0 .. k
  OBVIOUS
<1> QED
  BY <1>1, <1>2

\* Reached is the least set that the configurations of a run fill: each set
\* before the last that is not closed leaves one out that the next one has.
LEMMA ReachedFacts ==
    ASSUME NEW p, NEW t, NEW from, IsFiniteSet(Configurations(p, t, from)),
           <<p.start, from>> \in Configurations(p, t, from)
    PROVE  /\ Reached(p, t, from) \subseteq Configurations(p, t, from)
           /\ IsClosed(p, t, from, Reached(p, t, from))
           /\ \A D : IsClosed(p, t, from, D) => Reached(p, t, from) \subseteq D
<1> DEFINE all == Configurations(p, t, from)
           entry == <<p.start, from>>
<1>1. PICK k : k = Cardinality(all)
  OBVIOUS
<1>2. k \in Nat
  BY <1>1, FS_CardinalityType
<1>3. PICK f : IsSteps(f, p, t, from, k) /\ Reached(p, t, from) = f[k]
  BY <1>1, <1>2, ReachedIs, StepsExist
<1>4. f[0] = {entry}
  BY <1>2, <1>3 DEF IsSteps
<1>5. \A n \in 0 .. k : n # 0 => f[n] = Further(p, t, from, f[n - 1])
  BY <1>3 DEF IsSteps
<1>6. IsFiniteSet(all) /\ entry \in all
  OBVIOUS
<1>7. \A C : Further(p, t, from, C) =
                C \cup (all \cap UNION {Moves(p, t, c[1], c[2]) : c \in C})
  BY DEF Further
<1>8. \A C : IsClosed(p, t, from, C) <=>
                /\ entry \in C
                /\ \A c \in C : Moves(p, t, c[1], c[2]) \cap all \subseteq C
  BY DEF IsClosed
<1>9. \A C : C \subseteq Further(p, t, from, C)
             /\ (C \subseteq all => Further(p, t, from, C) \subseteq all)
  BY <1>7
<1>10. \A C, D : C \subseteq D /\ IsClosed(p, t, from, D) =>
                    Further(p, t, from, C) \subseteq D
  <2> SUFFICES ASSUME NEW C, NEW D, C \subseteq D, IsClosed(p, t, from, D),
                      NEW d \in Further(p, t, from, C), d \notin C
               PROVE  d \in D
    OBVIOUS
  <2>1. PICK c \in C : d \in Moves(p, t, c[1], c[2]) /\ d \in all
    BY <1>7
  <2> QED
    BY <1>8, <2>1
<1>11. \A C : entry \in C
       /\ Further(p, t, from, C) = C => IsClosed(p, t, from, C)
  <2> SUFFICES ASSUME NEW C, entry \in C, Further(p, t, from, C) = C,
                      NEW c \in C, NEW d \in Moves(p, t, c[1], c[2]), d \in all
               PROVE  d \in C
    BY <1>8
  <2> QED
    BY <1>7
<1>12. \A C : IsClosed(p, t, from, C) => Further(p, t, from, C) = C
  BY <1>9, <1>10
<1> HIDE DEF all, entry
<1> DEFINE Closed(C) == IsClosed(p, t, from, C)
           Good(n) == /\ f[n] \subseteq all /\ entry \in f[n]
                      /\ \A D : Closed(D) => f[n] \subseteq D
                      /\ Closed(f[n]) \/ n + 1 <= Cardinality(f[n])
           G == {n \in Nat : n \in 0 .. k => Good(n)}
<1>13. 0 \in G
  <2>1. Cardinality({entry}) = 1
    BY FS_Singleton
  <2> QED
    BY <1>4, <1>6, <1>8, <2>1
<1>14. ASSUME NEW n \in G, n + 1 \in 0 .. k PROVE Good(n + 1)
  <2>1. n \in 0 .. k /\ n \in Nat
    BY <1>2, <1>14
  <2>2. Good(n)
    BY <2>1
  <2>3. f[n + 1] = Further(p, t, from, f[n])
    BY <1>5, <1>14, <2>1
  <2>4. f[n] \subseteq f[n + 1] /\ f[n + 1] \subseteq all /\ entry \in f[n + 1]
    BY <1>9, <2>2, <2>3
  <2>5. \A D : Closed(D) => f[n + 1] \subseteq D
    BY <1>10, <2>2, <2>3
  <2>6. Closed(f[n + 1]) \/ n + 2 <= Cardinality(f[n + 1])
    <3>1. CASE f[n + 1] = f[n]
      BY <1>11, <2>2, <2>3, <3>1
    <3>2. CASE f[n + 1] # f[n]
      <4>1. ~ Closed(f[n])
        BY <1>12, <2>3, <3>2
      <4>2. IsFiniteSet(f[n + 1]) /\ f[n] \in SUBSET f[n + 1]
        BY <1>6, <2>4, FS_Subset
      <4>3. /\ Cardinality(f[n]) <= Cardinality(f[n + 1])
            /\ Cardinality(f[n]) # Cardinality(f[n + 1])
        BY <3>2, <4>2, FS_Subset
      <4>4. IsFiniteSet(f[n]) /\ Cardinality(f[n]) \in Nat
            /\ Cardinality(f[n + 1]) \in Nat
        BY <4>2, FS_Subset, FS_CardinalityType
      <4>5. n + 1 <= Cardinality(f[n])
        BY <2>2, <4>1
      <4> HIDE DEF G
      <4> QED
        BY <2>1, <4>3, <4>4, <4>5
    <3> QED
      BY <3>1, <3>2
  <2>7. (n + 1) + 1 = n + 2
    BY <2>1
  <2> QED
    BY <2>4, <2>5, <2>6, <2>7
<1>15. \A n \in Nat : n \in G => n + 1 \in G
  BY <1>14
<1> HIDE DEF Good
<1>16. G = Nat
  <2>1. G \in SUBSET Nat
    OBVIOUS
  <2> HIDE DEF G
  <2> QED
    BY <1>13, <1>15, <2>1, AllNaturals
<1>17. Good(k)
  BY <1>2, <1>16
<1>18. Cardinality(f[k]) <= k
  BY <1>1, <1>6, <1>17, FS_Subset DEF Good
<1>19. Cardinality(f[k]) \in Nat
  BY <1>6, <1>17, FS_Subset, FS_CardinalityType DEF Good
<1>20. Closed(f[k])
  BY <1>2, <1>17, <1>18, <1>19 DEF Good
<1> QED
  BY <1>3, <1>17, <1>20 DEF Good, all

(* The configurations that Reached computes are those that NfaProgram      *)
(* defines to be reachable, for every program and text: as many steps as   *)
(* there are configurations are enough.                                    *)
THEOREM ComputedIsReachable ==
    ASSUME NEW p, p.count \in Nat, p.start \in States(p), NEW t,
           Len(t) \in Nat, NEW from \in 0 .. Len(t)
    PROVE  Reached(p, t, from) = Reachable(p, t, from)
<1> DEFINE all == Configurations(p, t, from)
           C == Reached(p, t, from)
<1>1. all = States(p) \X (from .. Len(t)) /\ States(p) = 0 .. p.count - 1
  BY DEF Configurations, States
<1>2. IsFiniteSet(all) /\ <<p.start, from>> \in all
  <2>1. IsFiniteSet(0 .. p.count - 1) /\ IsFiniteSet(from .. Len(t))
    <3>1. 0 \in Int /\ p.count - 1 \in Int /\ from \in Int /\ Len(t) \in Int
      OBVIOUS
    <3> QED
      BY <3>1, FS_Interval
  <2>2. IsFiniteSet((0 .. p.count - 1) \X (from .. Len(t)))
    BY <2>1, FS_Product
  <2>3. from \in from .. Len(t)
    OBVIOUS
  <2> QED
    BY <1>1, <2>2, <2>3
<1>3. /\ C \subseteq all /\ IsClosed(p, t, from, C)
      /\ \A D : IsClosed(p, t, from, D) => C \subseteq D
  BY <1>2, ReachedFacts
<1> HIDE DEF all, C
<1>4. Reachable(p, t, from) =
         {c \in all : \A D \in SUBSET all : IsClosed(p, t, from, D) => c \in D}
  BY DEF Reachable, all
<1>5. C \subseteq Reachable(p, t, from)
  BY <1>3, <1>4
<1>6. Reachable(p, t, from) \subseteq C
  BY <1>3, <1>4
<1> QED
  BY <1>5, <1>6 DEF C

\* A match of the program ends where a computed one does.
LEMMA EndsAreReached ==
    ASSUME NEW p, NEW t, NEW from, Reached(p, t, from) = Reachable(p, t, from)
    PROVE  MatchEnds(p, t, from) = ReachedEnds(p, t, from)
<1>1. \A c \in Reachable(p, t, from) :
         /\ c = <<c[1], c[2]>>
         /\ c[1] \in States(p) /\ c[2] \in from .. Len(t)
  BY DEF Reachable, Configurations
<1>2. ASSUME NEW q PROVE q \in MatchEnds(p, t, from) <=>
                            \E s : /\ Type(p, s) = "MATCH"
                                   /\ <<s, q>> \in Reachable(p, t, from)
  <2>1. \A s : <<s, q>> \in Reachable(p, t, from) =>
                  s \in States(p) /\ q \in from .. Len(t)
    BY <1>1
  <2> QED
    BY <2>1 DEF MatchEnds
<1>3. ASSUME NEW q PROVE q \in ReachedEnds(p, t, from) <=>
                            \E s : /\ Type(p, s) = "MATCH"
                                   /\ <<s, q>> \in Reachable(p, t, from)
  <2>1. q \in ReachedEnds(p, t, from) <=>
           \E c \in Reachable(p, t, from) : Type(p, c[1]) = "MATCH" /\ q = c[2]
    BY DEF ReachedEnds
  <2>2. ASSUME NEW c \in Reachable(p, t, from), Type(p, c[1]) = "MATCH",
               q = c[2]
        PROVE  \E s : /\ Type(p, s) = "MATCH"
                      /\ <<s, q>> \in Reachable(p, t, from)
    <3>1. c = <<c[1], q>>
      BY <1>1, <2>2
    <3> QED
      BY <2>2, <3>1
  <2>3. ASSUME NEW s, Type(p, s) = "MATCH", <<s, q>> \in Reachable(p, t, from)
        PROVE  \E c \in Reachable(p, t, from) :
                  Type(p, c[1]) = "MATCH" /\ q = c[2]
    <3>1. <<s, q>>[1] = s /\ <<s, q>>[2] = q
      OBVIOUS
    <3> QED
      BY <2>3, <3>1
  <2> QED
    BY <2>1, <2>2, <2>3
<1>4. \A q : q \in MatchEnds(p, t, from) <=> q \in ReachedEnds(p, t, from)
  BY <1>2, <1>3
<1>5. \A q \in MatchEnds(p, t, from) : q \in ReachedEnds(p, t, from)
  BY <1>4
<1>6. \A q \in ReachedEnds(p, t, from) : q \in MatchEnds(p, t, from)
  BY <1>4
<1> QED
  BY <1>5, <1>6, Zenon

\* The transitions out of a state, in terms of what it takes.
MovesFrom(p, t, s, q, length) ==
    /\ \A d : <<d, q>> \in Moves(p, t, s, q) <=>
                 \/ d = p.states[s].out1 /\ Takes(p.states[s], t, q, q)
                 \/ d = p.states[s].out2 /\ p.states[s].type = "SPLIT"
    /\ \A d : <<d, q + 1>> \in Moves(p, t, s, q) <=>
                 d = p.states[s].out1 /\ Takes(p.states[s], t, q, q + 1)
    /\ \A c \in Moves(p, t, s, q) :
          c = <<c[1], q>> \/ (c = <<c[1], q + 1>> /\ q < length)

\* A transition stays at the offset or consumes one character.
LEMMA TakesForward ==
    ASSUME NEW a, NEW t, NEW q, NEW r, Takes(a, t, q, r)
    PROVE  r = q \/ (r = q + 1 /\ q < Len(t))
BY DEF Takes

\* The transitions of a program are the ones its states take.
LEMMA MovesFacts ==
    ASSUME NEW p, NEW t, NEW s, NEW q \in Nat, Len(t) \in Nat
    PROVE  MovesFrom(p, t, s, q, Len(t))
<1> DEFINE a == p.states[s]
           length == Len(t)
<1>1. /\ a = p.states[s] /\ length = Len(t) /\ length \in Nat
      /\ q # q + 1 /\ q + 1 # q
  OBVIOUS
<1>2. Type(p, s) = a.type
  BY DEF Type
<1> HIDE DEF a, length
<1>3. Consumes(p, t, s, q) <=>
         /\ q < length
         /\ \/ a.type = "ANY"
            \/ a.type \in {"CHAR", "CLASS"} /\ t[q + 1] \in a.chars
  BY <1>1, <1>2 DEF Consumes
<1>4. \A d : d \in EpsilonMoves(p, t, s, q) <=>
                \/ /\ d = a.out1
                   /\ \/ a.type \in {"SPLIT", "JUMP"}
                      \/ a.type = "ASSERT_START" /\ q = 0
                      \/ a.type = "ASSERT_END" /\ q = length
                \/ d = a.out2 /\ a.type = "SPLIT"
  BY <1>1, <1>2 DEF EpsilonMoves
<1>5. /\ Takes(a, t, q, q) <=> \/ a.type \in {"SPLIT", "JUMP"}
                               \/ a.type = "ASSERT_START" /\ q = 0
                               \/ a.type = "ASSERT_END" /\ q = length
      /\ Takes(a, t, q, q + 1) <=> Consumes(p, t, s, q)
  BY <1>1, <1>3 DEF Takes
<1>6. \A c : c \in Moves(p, t, s, q) <=>
                \/ \E d \in EpsilonMoves(p, t, s, q) : c = <<d, q>>
                \/ Consumes(p, t, s, q) /\ c = <<a.out1, q + 1>>
  BY <1>1 DEF Moves
<1>7. \A d : <<d, q>> \in Moves(p, t, s, q) <=>
                \/ d = a.out1 /\ Takes(a, t, q, q)
                \/ d = a.out2 /\ a.type = "SPLIT"
  BY <1>1, <1>4, <1>5, <1>6
<1>8. \A d : <<d, q + 1>> \in Moves(p, t, s, q) <=>
                d = a.out1 /\ Takes(a, t, q, q + 1)
  BY <1>1, <1>5, <1>6
<1>9. ASSUME NEW c \in Moves(p, t, s, q)
      PROVE  c = <<c[1], q>> \/ (c = <<c[1], q + 1>> /\ q < length)
  <2>1. CASE \E d \in EpsilonMoves(p, t, s, q) : c = <<d, q>>
    <3>1. PICK d : c = <<d, q>>
      BY <2>1
    <3>2. c[1] = d
      BY <3>1
    <3> QED
      BY <3>1, <3>2
  <2>2. CASE Consumes(p, t, s, q) /\ c = <<a.out1, q + 1>>
    <3>1. q < length
      BY <1>3, <2>2
    <3>2. c = <<c[1], q + 1>>
      BY <2>2
    <3> QED
      BY <3>1, <3>2
  <2> QED
    BY <1>6, <2>1, <2>2
<1> QED
  BY <1>1, <1>7, <1>8, <1>9 DEF MovesFrom

\* A match of a program ends where a span of its meaning ends.
LEMMA ProgramEnds ==
    ASSUME NEW sts, NEW start0, NEW t, NEW R, Len(t) \in Nat,
           IsProgramFor(sts, start0, t, R), IsSpans(R, Len(t)),
           NEW from \in Offsets(t), NEW p, p.start = start0,
           States(p) = 0 .. Len(sts) - 1,
           \A s \in States(p) : p.states[s] = sts[s + 1]
    PROVE  ReachedEnds(p, t, from) = {x[2] : x \in {x \in R : x[1] = from}}
<1> DEFINE length == Len(t)
           all == Configurations(p, t, from)
           C == Reached(p, t, from)
<1>1. PICK n \in Nat :
         /\ Len(sts) = n + 1 /\ sts[n + 1].type = "MATCH"
         /\ start0 \in Part(0, n)
         /\ Means(sts, t, Part(0, n), start0, n, R)
         /\ Within(sts, Part(0, n), n) /\ NoMatch(sts, Part(0, n))
  BY DEF IsProgramFor
<1> DEFINE S == Part(0, n)
<1>2. /\ length \in Nat /\ length = Len(t) /\ from \in Nat /\ from <= length
      /\ S = 0 .. n - 1 /\ States(p) = 0 .. n
      /\ all = (0 .. n) \X (from .. length)
      /\ Offsets(t) = 0 .. length
  BY <1>1 DEF Part, Offsets, Configurations
<1>3. /\ start0 \in S /\ Means(sts, t, S, start0, n, R)
      /\ Within(sts, S, n) /\ NoMatch(sts, S)
      /\ n \notin S /\ S \subseteq 0 .. n /\ n \in 0 .. n
      /\ \A s \in 0 .. n : s \in S \/ s = n
  BY <1>1, <1>2
<1>4. \A s \in 0 .. n : p.states[s] = sts[s + 1]
  BY <1>2
<1>5. IsFiniteSet(all) /\ <<p.start, from>> \in all
  <2>1. IsFiniteSet(0 .. n) /\ IsFiniteSet(from .. length)
    BY <1>2, FS_Interval
  <2>2. IsFiniteSet((0 .. n) \X (from .. length))
    BY <2>1, FS_Product
  <2>3. <<p.start, from>> \in (0 .. n) \X (from .. length)
    BY <1>2, <1>3
  <2> QED
    BY <1>2, <2>2, <2>3
<1>6. /\ C \subseteq all /\ IsClosed(p, t, from, C)
      /\ \A D : IsClosed(p, t, from, D) => C \subseteq D
  BY <1>5, ReachedFacts
<1>7. /\ <<start0, from>> \in C
      /\ \A c \in C : Moves(p, t, c[1], c[2]) \cap all \subseteq C
  BY <1>6 DEF IsClosed
<1>8. \A x \in R : x = <<x[1], x[2]>> /\ x[2] \in 0 .. length /\ x[1] <= x[2]
  BY <1>2 DEF IsSpans, Forward
<1>9. \A s, q : q \in 0 .. length => MovesFrom(p, t, s, q, length)
  <2>1. \A q \in 0 .. length : q \in Nat
    BY <1>2
  <2> QED
    BY <1>2, <2>1, MovesFacts
<1> HIDE DEF length, all, C, S
<1>10. ASSUME NEW j, <<from, j>> \in R PROVE <<n, j>> \in C
  <2> DEFINE X == {q \in 0 .. length : <<n, q>> \in C}
  <2>1. ASSUME NEW s \in S, NEW q \in 0 .. length, <<s, q>> \in C
        PROVE  /\ \A r \in 0 .. length :
                     Takes(sts[s + 1], t, q, r) =>
                        Passed(C, n, X, sts[s + 1].out1, r)
               /\ sts[s + 1].type = "SPLIT" =>
                     Passed(C, n, X, sts[s + 1].out2, q)
    <3> DEFINE a == sts[s + 1]
    <3>1. p.states[s] = a /\ s \in 0 .. n
      BY <1>3, <1>4
    <3>2. /\ a.out1 \in 0 .. n
          /\ a.type = "SPLIT" => a.out2 \in 0 .. n
      BY <1>3 DEF Within
    <3>3. Moves(p, t, s, q) \cap all \subseteq C
      BY <1>7, <2>1
    <3>4. q \in from .. length
      BY <1>2, <1>6, <2>1
    <3> HIDE DEF a, X
    <3>5. ASSUME NEW r \in 0 .. length, Takes(a, t, q, r)
          PROVE  <<a.out1, r>> \in C
      <4>1. r = q \/ (r = q + 1 /\ q < length)
        BY <1>2, <3>5, TakesForward
      <4>2. <<a.out1, r>> \in Moves(p, t, s, q)
        BY <1>9, <3>1, <3>5, <4>1 DEF MovesFrom
      <4>3. <<a.out1, r>> \in all
        BY <1>2, <3>2, <3>4, <4>1
      <4> QED
        BY <3>3, <4>2, <4>3
    <3>6. ASSUME a.type = "SPLIT" PROVE <<a.out2, q>> \in C
      <4>1. <<a.out2, q>> \in Moves(p, t, s, q)
        BY <1>9, <3>1, <3>6 DEF MovesFrom
      <4>2. <<a.out2, q>> \in all
        BY <1>2, <3>2, <3>4, <3>6
      <4> QED
        BY <3>3, <4>1, <4>2
    <3> QED
      BY <3>5, <3>6 DEF Passed, X, a
  <2>2. Leads(sts, t, S, n, C, X)
    <3> HIDE DEF X
    <3> QED
      BY <1>2, <2>1 DEF Leads
  <2>3. Ends(sts, t, S, start0, n, R, X)
    BY <1>3 DEF Means
  <2>4. Into(R, from, X)
    BY <1>7, <2>2, <2>3 DEF Ends
  <2> QED
    BY <1>10, <2>4 DEF Into
<1>11. ASSUME NEW s, NEW j, <<s, j>> \in C, Type(p, s) = "MATCH"
       PROVE  <<from, j>> \in R
  <2> DEFINE X == {q \in 0 .. length : <<from, q>> \in R}
  <2>1. Keeps(sts, t, S, start0, n, R, X)
    BY <1>3 DEF Means
  <2>2. PICK K \in SUBSET (S \X Offsets(t)) :
           /\ Leads(sts, t, S, n, K, X)
           /\ \A i \in Offsets(t) : Into(R, i, X) => <<start0, i>> \in K
    BY <2>1 DEF Keeps
  <2>3. \A jj : <<from, jj>> \in R => jj \in 0 .. length
    BY <1>8
  <2>4. Into(R, from, X)
    BY <2>3 DEF Into
  <2> DEFINE D == K \cup {<<n, q>> : q \in X}
  <2>5. X \subseteq 0 .. length
    OBVIOUS
  <2> HIDE DEF X
  <2>6. \A d, r : <<d, r>> \in D <=> <<d, r>> \in K \/ (d = n /\ r \in X)
    <3>1. \A d, r : <<d, r>> \in {<<n, q>> : q \in X} <=> d = n /\ r \in X
      OBVIOUS
    <3> QED
      BY <3>1
  <2>7. \A d, r : Passed(K, n, X, d, r) => <<d, r>> \in D
    BY <2>6 DEF Passed
  <2>8. \A c \in D : c = <<c[1], c[2]>> /\ c[2] \in 0 .. length
    BY <1>2, <2>5
  <2>9. \A c \in K : c = <<c[1], c[2]>> /\ c[1] \in S
    OBVIOUS
  <2> HIDE DEF D
  <2>10. ASSUME NEW c \in D, NEW m \in Moves(p, t, c[1], c[2]), m \in all
         PROVE  m \in D
    <3> DEFINE u == c[1]
               q == c[2]
               a == p.states[u]
    <3>1. /\ c = <<u, q>> /\ q \in 0 .. length
          /\ m \in Moves(p, t, u, q)
          /\ a = p.states[u]
      BY <2>8
    <3> HIDE DEF u, q, a
    <3>2. m = <<m[1], q>> \/ (m = <<m[1], q + 1>> /\ q < length)
      BY <1>9, <3>1 DEF MovesFrom
    <3>3. m[2] \in 0 .. length
      BY <1>2, <2>10
    <3>4. CASE <<u, q>> \in K
      <4>1. u \in S /\ a = sts[u + 1]
        BY <1>3, <1>4, <2>9, <3>1, <3>4
      <4>2. /\ \A r \in 0 .. length :
                  Takes(a, t, q, r) => Passed(K, n, X, a.out1, r)
            /\ a.type = "SPLIT" => Passed(K, n, X, a.out2, q)
        BY <1>2, <2>2, <3>1, <3>4, <4>1 DEF Leads
      <4>3. CASE m = <<m[1], q>>
        <5>1. \/ m[1] = a.out1 /\ Takes(a, t, q, q)
              \/ m[1] = a.out2 /\ a.type = "SPLIT"
          BY <1>9, <3>1, <4>3 DEF MovesFrom
        <5> QED
          BY <2>7, <3>1, <4>2, <4>3, <5>1
      <4>4. CASE m = <<m[1], q + 1>> /\ q < length
        <5>1. m[1] = a.out1 /\ Takes(a, t, q, q + 1)
          BY <1>9, <3>1, <4>4 DEF MovesFrom
        <5>2. q + 1 \in 0 .. length
          BY <1>2, <3>1, <4>4
        <5> QED
          BY <2>7, <4>2, <4>4, <5>1, <5>2
      <4> QED
        BY <3>2, <4>3, <4>4
    <3>5. CASE u = n
      <4>1. a.type = "MATCH"
        BY <1>1, <1>3, <1>4, <3>1, <3>5
      <4>2. ~ Takes(a, t, q, q) /\ ~ Takes(a, t, q, q + 1)
        BY <3>1, <4>1 DEF Takes
      <4> QED
        BY <1>9, <3>1, <3>2, <4>1, <4>2 DEF MovesFrom
    <3> QED
      BY <2>6, <3>1, <3>4, <3>5
  <2>11. <<start0, from>> \in D
    <3>1. from \in Offsets(t)
      OBVIOUS
    <3>2. <<start0, from>> \in K
      BY <2>2, <2>4, <3>1, Zenon
    <3> QED
      BY <2>6, <3>2
  <2>12. IsClosed(p, t, from, D)
    BY <2>10, <2>11 DEF IsClosed, all
  <2>13. <<s, j>> \in D
    BY <1>6, <1>11, <2>12
  <2>14. <<s, j>> \notin K
    <3>1. ASSUME s \in S PROVE Type(p, s) # "MATCH"
      BY <1>3, <1>4, <3>1 DEF Type, NoMatch
    <3> QED
      BY <1>11, <2>9, <3>1
  <2> QED
    BY <2>6, <2>13, <2>14 DEF X
<1>12. Type(p, n) = "MATCH"
  BY <1>1, <1>3, <1>4 DEF Type
<1>13. \A c \in C : c = <<c[1], c[2]>>
  BY <1>2, <1>6
<1>14. ReachedEnds(p, t, from) =
          {c[2] : c \in {c \in C : Type(p, c[1]) = "MATCH"}}
  BY DEF ReachedEnds, C
<1> DEFINE spans == {x[2] : x \in {x \in R : x[1] = from}}
<1>15. ASSUME NEW j PROVE j \in ReachedEnds(p, t, from) <=> <<from, j>> \in R
  <2>1. ASSUME j \in ReachedEnds(p, t, from) PROVE <<from, j>> \in R
    <3>1. PICK c \in C : Type(p, c[1]) = "MATCH" /\ j = c[2]
      BY <1>14, <2>1
    <3> QED
      BY <1>11, <1>13, <3>1
  <2>2. ASSUME <<from, j>> \in R PROVE j \in ReachedEnds(p, t, from)
    <3>1. <<n, j>> \in C /\ <<n, j>>[1] = n /\ <<n, j>>[2] = j
      BY <1>10, <2>2
    <3> QED
      BY <1>12, <1>14, <3>1
  <2> QED
    BY <2>1, <2>2
<1>16. ASSUME NEW j PROVE j \in spans <=> <<from, j>> \in R
  <2>1. <<from, j>>[1] = from /\ <<from, j>>[2] = j
    OBVIOUS
  <2> QED
    BY <1>8, <2>1
<1> HIDE DEF spans
<1>17. ReachedEnds(p, t, from) = spans
  BY <1>15, <1>16
<1> QED
  BY <1>17 DEF spans

\* No transition leaves a whole program.
LEMMA ProgramHolds ==
    ASSUME NEW sts, NEW start0, NEW t, NEW R, Len(t) \in Nat,
           IsProgramFor(sts, start0, t, R), NEW from \in 0 .. Len(t), NEW p,
           States(p) = 0 .. Len(sts) - 1,
           \A s \in States(p) : p.states[s] = sts[s + 1]
    PROVE  ~ IsBroken(p, t, from)
<1> DEFINE length == Len(t)
           all == Configurations(p, t, from)
<1>1. PICK n \in Nat :
         /\ Len(sts) = n + 1 /\ sts[n + 1].type = "MATCH"
         /\ Within(sts, Part(0, n), n)
  BY DEF IsProgramFor
<1>2. /\ length \in Nat /\ length = Len(t) /\ from \in Nat
      /\ all = (0 .. n) \X (from .. length)
      /\ \A s \in 0 .. n : p.states[s] = sts[s + 1]
      /\ Reachable(p, t, from) \subseteq all
  BY <1>1 DEF Configurations, Reachable
<1>3. \A s \in 0 .. n : s # n =>
         /\ sts[s + 1].out1 \in 0 .. n
         /\ sts[s + 1].type = "SPLIT" => sts[s + 1].out2 \in 0 .. n
  BY <1>1 DEF Within, Part
<1> HIDE DEF length, all
<1>4. ASSUME NEW c \in Reachable(p, t, from), NEW m \in Moves(p, t, c[1], c[2])
      PROVE  m \in all
  <2> DEFINE s == c[1]
             q == c[2]
             a == p.states[s]
  <2>1. s \in 0 .. n /\ q \in from .. length /\ q \in Nat /\ a = sts[s + 1]
        /\ m \in Moves(p, t, s, q)
    BY <1>2
  <2>2. MovesFrom(p, t, s, q, length)
    BY <1>2, <2>1, MovesFacts
  <2>3. a = p.states[s]
    OBVIOUS
  <2> HIDE DEF s, q, a
  <2>4. m = <<m[1], q>> \/ (m = <<m[1], q + 1>> /\ q < length)
    BY <2>1, <2>2 DEF MovesFrom
  <2>5. \/ m[1] = a.out1 /\ (Takes(a, t, q, q) \/ Takes(a, t, q, q + 1))
        \/ m[1] = a.out2 /\ a.type = "SPLIT"
    BY <2>1, <2>2, <2>3, <2>4 DEF MovesFrom
  <2>6. s # n
    <3> SUFFICES ASSUME s = n PROVE FALSE
      OBVIOUS
    <3>1. a.type = "MATCH"
      BY <1>1, <2>1
    <3> QED
      BY <2>5, <3>1 DEF Takes
  <2>7. m[1] \in 0 .. n
    BY <1>3, <2>1, <2>5, <2>6
  <2>8. q + 1 \in from .. length \/ ~ (q < length)
    BY <1>2, <2>1
  <2> QED
    BY <1>2, <2>1, <2>4, <2>7, <2>8
<1> QED
  BY <1>4 DEF IsBroken, all

\* A finished compilation is a program for every text.
LEMMA MeaningReached ==
    ASSUME IInv, SizeOK, HasCompiled, NEW t \in Texts, MeaningOf(t)
    PROVE  \A from \in 0 .. Len(t) :
              ReachedEnds(Compiled, t, from) =
                 {p[2] : p \in {p \in Spans(ast, t) : p[1] = from}}
<1> DEFINE R == NodeSpans(Len(ast), t)
<1>1. IsProgramFor(states, start, t, R)
  BY DEF MeaningOf
<1>2. R = Spans(ast, t)
  BY SpansIsRootsMeaning DEF NodeSpans
<1>3. Len(t) \in Nat
  BY TextLengths
<1>4. IsSpans(R, Len(t))
  <2>1. IsAst(ast) /\ ast # <<>> /\ Len(ast) \in 1 .. Len(ast)
    <3>1. IsAst(ast) /\ ast # <<>>
      BY CompilerAssumption DEF SizeOK, IsCounting, IInv, TypeOK
    <3>2. Len(ast) \in Nat /\ Len(ast) # 0
      BY <3>1, TreeFacts
    <3> QED
      BY <3>1, <3>2
  <2> QED
    BY <1>3, <2>1, MeaningsFacts DEF NodeSpans
<1>5. /\ Compiled.start = start
      /\ States(Compiled) = 0 .. Len(states) - 1
      /\ \A s \in States(Compiled) : Compiled.states[s] = states[s + 1]
  BY DEF Compiled, States
<1> HIDE DEF R
<1>6. \A from \in Offsets(t) :
         ReachedEnds(Compiled, t,
         from) = {x[2] : x \in {x \in R : x[1] = from}}
  BY <1>1, <1>3, <1>4, <1>5, ProgramEnds
<1> QED
  BY <1>2, <1>6 DEF Offsets

\* Both links together.
LEMMA ProgramMatches ==
    ASSUME IInv, SizeOK, HasCompiled, NEW t \in Texts, MeaningOf(t)
    PROVE  \A from \in 0 .. Len(t) :
              /\ MatchEnds(Compiled, t, from) =
                    {p[2] : p \in {p \in Spans(ast, t) : p[1] = from}}
              /\ ~ IsBroken(Compiled, t, from)
<1>1. IsProgramFor(states, start, t, NodeSpans(Len(ast), t))
  BY DEF MeaningOf
<1>2. Len(t) \in Nat /\ Len(states) \in Nat /\ start \in 0 .. Len(states) - 1
  BY TextLengths, InvFacts DEF IInv, ModeOK, Indices
<1>3. /\ Compiled.start = start /\ Compiled.count = Len(states)
      /\ States(Compiled) = 0 .. Len(states) - 1
      /\ \A s \in States(Compiled) : Compiled.states[s] = states[s + 1]
  BY DEF Compiled, States
<1>4. Compiled.count \in Nat /\ Compiled.start \in States(Compiled)
  BY <1>2, <1>3
<1>5. ASSUME NEW from \in 0 .. Len(t)
      PROVE  /\ MatchEnds(Compiled, t, from) = ReachedEnds(Compiled, t, from)
             /\ ~ IsBroken(Compiled, t, from)
  <2>1. Reached(Compiled, t, from) = Reachable(Compiled, t, from)
    BY <1>2, <1>4, ComputedIsReachable
  <2>2. MatchEnds(Compiled, t, from) = ReachedEnds(Compiled, t, from)
    BY <2>1, EndsAreReached
  <2>3. ~ IsBroken(Compiled, t, from)
    BY <1>1, <1>2, <1>3, ProgramHolds
  <2> QED
    BY <2>2, <2>3
<1> QED
  BY <1>5, MeaningReached

\* The compiler's invariants and the meaning of what it has done.
Meaningful == IInv /\ SizeOK /\ \A t \in Texts : MeaningOf(t)

(* At every moment, for every tree and text, the fragment that a call is   *)
(* about to return, what the waiting calls hold and what they still have   *)
(* to compile come together to the meaning of the tree.                    *)
THEOREM MeaningInvariant == Spec => []Meaningful
<1>1. Init => Meaningful
  BY InitIInv, InitSizeOK, InitMeaning DEF Meaningful
<1>2. Meaningful /\ [Next]_vars => Meaningful'
  <2> SUFFICES ASSUME Meaningful, [Next]_vars PROVE Meaningful'
    OBVIOUS
  <2>1. IInv /\ SizeOK /\ \A t \in Texts : MeaningOf(t)
    BY DEF Meaningful
  <2>2. IInv' /\ SizeOK'
    BY <2>1, StepIInv, StepSizeOK
  <2>3. \A t \in Texts : MeaningOf(t)'
    BY <2>1, StepMeaning
  <2> QED
    BY <2>2, <2>3 DEF Meaningful
<1> QED
  BY <1>1, <1>2, PTL DEF Spec

(* From every offset of every text, the program that compiler_compile      *)
(* leaves has exactly the matches that the pattern has there, for every    *)
(* tree: each fragment that a call returns consumes the spans of its node. *)
THEOREM MeaningKept == Spec => []CompiledMeansAst
<1>1. Meaningful => CompiledMeansAst
  BY MeaningReached DEF Meaningful, CompiledMeansAst
<1> QED
  BY <1>1, MeaningInvariant, PTL

(* The same in the terms of the simulator's contract (MatchSpec): a run of *)
(* the finished program from any offset of any text can end just where the *)
(* pattern has a match that begins there, and never leaves the program.    *)
CompiledMatchesAst ==
    HasCompiled =>
       \A t \in Texts : \A from \in 0 .. Len(t) :
          /\ MatchEnds(Compiled, t, from) =
                {p[2] : p \in {p \in Spans(ast, t) : p[1] = from}}
          /\ ~ IsBroken(Compiled, t, from)

(* With it the compiler delivers what the simulator needs: its program has *)
(* the matches of the tree in the sense of MatchSpec, and no run of it can *)
(* leave the array of states.                                              *)
THEOREM CompiledMatches == Spec => []CompiledMatchesAst
<1>1. Meaningful => CompiledMatchesAst
  BY ProgramMatches DEF Meaningful, CompiledMatchesAst
<1> QED
  BY <1>1, MeaningInvariant, PTL
===============================================================================
