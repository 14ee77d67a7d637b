------------------------------- MODULE Compiler -------------------------------
(***************************************************************************)
(* compiler_compile of src/compiler.c: Thompson's construction, children   *)
(* first, into the growing program of src/nfa.c.                           *)
(*                                                                         *)
(* A fragment is a part of the program with one entry and a list of        *)
(* transitions that lead nowhere yet, the patch list.  Each of its entries *)
(* is a block of its own on the heap (PatchReference), which has to be     *)
(* released exactly once, whichever allocation fails on the way.           *)
(*                                                                         *)
(* The recursion of compile_node is the stack `frames`, one frame for each *)
(* call that waits for the fragment of a child.                            *)
(***************************************************************************)
EXTENDS Ast, NfaProgram, SequencesExt

CONSTANTS Asts,              \* the trees to compile; <<>> has a null root
          INITIAL_CAPACITY   \* NFA_INITIAL_CAPACITY, 16 in the code

ASSUME CompilerAssumption == /\ \A ast \in Asts : IsAst(ast)
                             /\ MAX_REPEAT_COUNT \in Nat
                             /\ INITIAL_CAPACITY \in Nat \ {0}

VARIABLES
    ast, given,              \* the arguments: the tree, the program's state
    mode,                    \* what compile_node is doing:
    target,                  \* the node it is called with, or
    fragment,                \* the fragment it returns
    frames,                  \* the calls waiting for it
    states, capacity, start, \* the NfaProgram; state s is states[s + 1]
    references,              \* the PatchReferences on the heap
    error                    \* compiler->error.message

input   == <<ast, given>>
control == <<mode, target, fragment, frames>>
program == <<states, capacity, start>>
vars    == <<input, control, program, references, error>>

NoError == "none"

Error == {NoError, "compiler received a null NFA program",
          "NFA program must be empty before compilation",
          "cannot compile a null AST node",
          "invalid bounded repetition AST node",
          "failed to allocate NFA state",
          "failed to allocate patch reference",
          "failed to allocate alternation state",
          "failed to allocate repetition state",
          "failed to allocate plus state",
          "failed to allocate optional state",
          "failed to allocate match state"}

NoFragment == [start |-> NFA_INVALID_STATE, out |-> {}]

\* A transition: the state and which of its two outputs.
PatchReference == Nat \X {1, 2}
Fragment == [start : Nat \cup {NFA_INVALID_STATE}, out : SUBSET PatchReference]

\* The C function that waits, its node, the fragment it has got so far and
\* how many children it has compiled.
Frame == [fn    : {"CONCATENATION", "ALTERNATION", "STAR", "PLUS", "OPTIONAL",
                   "REPEAT"},
          node  : Nat,
          held  : Fragment,
          index : Nat]

\* nfa_make_state
NewState(type, chars) == [type |-> type, chars |-> chars,
                          out1 |-> NFA_INVALID_STATE,
                          out2 |-> NFA_INVALID_STATE]

Init == /\ ast \in Asts
        /\ given \in {"empty", "used", "null"}
        /\ mode = "enter" /\ target = NULL_NODE
        /\ fragment = NoFragment /\ frames = <<>>
        /\ IF given = "used"
           THEN /\ states = <<NewState("MATCH", {})>>
                /\ capacity = INITIAL_CAPACITY
                /\ start = 0
           ELSE states = <<>> /\ capacity = 0 /\ start = NFA_INVALID_STATE
        /\ references = {} /\ error = NoError

Top == Last(frames)
Node == ast[target]
-----------------------------------------------------------------------------
(* The program (src/nfa.c).                                                *)

\* nfa_program_append fails only when the array is full and cannot grow.
AppendCanFail == Len(states) = capacity

\* Mutant: the count after the state is appended.
IndexAfter == Len(states) + 1

\* The index the next state gets, and the program with it.
Index == Len(states)
Appended(type, chars) == Append(states, NewState(type, chars))

Grown == IF Len(states) < capacity THEN capacity
         ELSE IF capacity = 0 THEN INITIAL_CAPACITY
         ELSE capacity * 2

\* Mutant: ignores output_slot and patches out1.
PatchedFirst(sts, list, destination) ==
    [i \in DOMAIN sts |->
        [sts[i] EXCEPT
            !.out1 = IF {<<i - 1, 1>>, <<i - 1, 2>>} \cap list # {}
                     THEN destination ELSE @]]
\* patch_list_apply: the transitions of `list` lead to `destination`.
Patched(sts, list, destination) ==
    [i \in DOMAIN sts |->
        [sts[i] EXCEPT
            !.out1 = IF <<i - 1, 1>> \in list THEN destination ELSE @,
            !.out2 = IF <<i - 1, 2>> \in list THEN destination ELSE @]]

Goto(m) == mode' = m

Fail(why) == /\ mode' = "fail"
             /\ error' = why
             /\ UNCHANGED <<target, fragment>>

\* compile_node returns a fragment to the frame below.
Yield(from, out) == /\ mode' = "return"
                    /\ fragment' = [start |-> from, out |-> out]
                    /\ UNCHANGED <<target, error>>
-----------------------------------------------------------------------------
(* compiler_compile, up to compile_node.                                   *)

RefuseProgram ==
    /\ mode = "enter"
    /\ given # "empty"
    /\ Fail(IF given = "null" THEN "compiler received a null NFA program"
            ELSE "NFA program must be empty before compilation")
    /\ UNCHANGED <<input, frames, program, references>>

Begin == /\ mode = "enter"
         /\ given = "empty"
         /\ mode' = "call"
         /\ target' = Len(ast)
         /\ UNCHANGED <<input, fragment, frames, program, references, error>>

CallNull == /\ mode = "call"
            /\ target = NULL_NODE
            /\ Fail("cannot compile a null AST node")
            /\ UNCHANGED <<input, frames, program, references>>

IsCall(types) == mode = "call" /\ target # NULL_NODE /\ Node.type \in types

\* The state type of a node without children.
StateTypeOf(type) == CASE type = "EMPTY" -> "JUMP"
                       [] type = "LITERAL" -> "CHAR"
                       [] type = "DOT" -> "ANY"
                       [] type = "CHARACTER_CLASS" -> "CLASS"
                       [] OTHER -> type

\* compile_single_output_state
SingleOutputState(type, chars) ==
    \/ /\ AppendCanFail
       /\ Fail("failed to allocate NFA state")
       /\ UNCHANGED <<program, references>>
    \/ /\ states' = Appended(type, chars)
       /\ capacity' = Grown
       /\ \/ /\ Fail("failed to allocate patch reference")
             /\ UNCHANGED references
          \/ /\ references' = references \cup {<<Index, 1>>}
             /\ Yield(Index, {<<Index, 1>>})
       /\ UNCHANGED start

CompileLeaf == /\ IsCall(LeafType)
               /\ SingleOutputState(StateTypeOf(Node.type), Node.chars)
               /\ UNCHANGED <<input, frames>>

\* The frame waits for the fragment of its first child.
Push(fn, node) == /\ frames' = Append(frames, [fn |-> fn, node |-> node,
                                               held |-> NoFragment,
                                               index |-> 0])
                  /\ UNCHANGED <<input, fragment, program, references, error>>

CallChild == /\ IsCall(BinaryType \cup UnaryType)
             /\ Push(Node.type, target)
             /\ target' = Node.left
             /\ UNCHANGED mode

CallRepeat == /\ IsCall({"REPEAT"})
              /\ HasBounds(Node)
              /\ Push("REPEAT", target)
              /\ Goto("repeat")
              /\ UNCHANGED target

RefuseBounds == /\ IsCall({"REPEAT"})
                /\ ~HasBounds(Node)
                /\ Fail("invalid bounded repetition AST node")
                /\ UNCHANGED <<input, frames, program, references>>
-----------------------------------------------------------------------------
(* A fragment is returned.                                                 *)

IsReturn(fns) == mode = "return" /\ frames # <<>> /\ Top.fn \in fns

Pop == frames' = Front(frames)

ReturnLeft == /\ IsReturn(BinaryType)
              /\ Top.index = 0
              /\ frames' = Append(Front(frames), [Top EXCEPT !.held = fragment,
                                                             !.index = 1])
              /\ target' = ast[Top.node].right
              /\ Goto("call")
              /\ UNCHANGED <<input, fragment, program, references, error>>

\* fragment_append: what `to` leaves open leads into the returned fragment.
AppendFragment(to) ==
    /\ states' = Patched(states, to.out, fragment.start)
    /\ references' = references \ to.out

ReturnRight == /\ IsReturn({"CONCATENATION"})
               /\ Top.index = 1
               /\ AppendFragment(Top.held)
               /\ Yield(Top.held.start, fragment.out)
               /\ Pop
               /\ UNCHANGED <<input, capacity, start>>

\* Mutant: forgets the list of the left branch.
ReturnBranchesLeaking ==
    /\ IsReturn({"ALTERNATION"})
    /\ Top.index = 1
    /\ Pop
    /\ \/ /\ AppendCanFail
          /\ references' = references \ fragment.out
          /\ Fail("failed to allocate alternation state")
          /\ UNCHANGED program
       \/ /\ states' = Patched(Patched(Appended("SPLIT", {}), {<<Index, 1>>},
                                       Top.held.start),
                               {<<Index, 2>>}, fragment.start)
          /\ capacity' = Grown
          /\ Yield(Index, Top.held.out \cup fragment.out)
          /\ UNCHANGED <<start, references>>
    /\ UNCHANGED input

ReturnBranches ==
    /\ IsReturn({"ALTERNATION"})
    /\ Top.index = 1
    /\ Pop
    /\ \/ /\ AppendCanFail
          /\ references' = references \ (Top.held.out \cup fragment.out)
          /\ Fail("failed to allocate alternation state")
          /\ UNCHANGED program
       \/ /\ states' = Patched(Patched(Appended("SPLIT", {}), {<<Index, 1>>},
                                       Top.held.start),
                               {<<Index, 2>>}, fragment.start)
          /\ capacity' = Grown
          /\ Yield(Index, Top.held.out \cup fragment.out)
          /\ UNCHANGED <<start, references>>
    /\ UNCHANGED input

SplitFails == /\ AppendCanFail
              /\ references' = references \ fragment.out
              /\ Fail(CASE Top.fn = "STAR" -> "failed to allocate repetition state"
                        [] Top.fn = "PLUS" -> "failed to allocate plus state"
                        [] OTHER -> "failed to allocate optional state")
              /\ UNCHANGED program

\* Mutant: enters PLUS at its split, like STAR, so that it may match nothing.
LoopEntryAtSplit == Index

\* Where a loop is entered: at the split, which may skip the body, or not.
LoopEntry == IF Top.fn = "STAR" THEN Index ELSE fragment.start

\* compile_star_child and compile_plus_child
ReturnLoop ==
    /\ IsReturn({"STAR", "PLUS"})
    /\ Pop
    /\ \/ SplitFails
       \/ /\ states' = Patched(Patched(Appended("SPLIT", {}), {<<Index, 1>>},
                                       fragment.start),
                               fragment.out, Index)
          /\ capacity' = Grown
          /\ \/ /\ references' = references \ fragment.out
                /\ Fail("failed to allocate patch reference")
             \/ /\ references' = (references \ fragment.out) \cup {<<Index, 2>>}
                /\ Yield(LoopEntry, {<<Index, 2>>})
          /\ UNCHANGED start
    /\ UNCHANGED input

\* compile_optional_child
ReturnOptional ==
    /\ IsReturn({"OPTIONAL"})
    /\ Pop
    /\ \/ SplitFails
       \/ /\ states' = Patched(Appended("SPLIT", {}), {<<Index, 1>>},
                               fragment.start)
          /\ capacity' = Grown
          /\ \/ /\ references' = references \ fragment.out
                /\ Fail("failed to allocate patch reference")
             \/ /\ references' = references \cup {<<Index, 2>>}
                /\ Yield(Index, fragment.out \cup {<<Index, 2>>})
          /\ UNCHANGED start
    /\ UNCHANGED input
-----------------------------------------------------------------------------
(* compile_repeat: a copy of the child for each of the first `minimum`     *)
(* rounds, then a star or an optional copy for each of the rest.           *)

Repeat == ast[Top.node]

\* Mutant: an unbounded repetition has no loop behind its copies.
PartsWithoutLoop(node) ==
    IF node.maximum = UNBOUNDED THEN node.minimum ELSE node.maximum

Parts(node) == IF node.maximum = UNBOUNDED THEN node.minimum + 1
               ELSE node.maximum

IsRepeating == mode = "repeat" /\ Top.index < Parts(Repeat)

RepeatCopy == /\ IsRepeating
              /\ Top.index < Repeat.minimum
              /\ Goto("call")
              /\ target' = Repeat.left
              /\ UNCHANGED <<input, fragment, frames, program, references,
                             error>>

\* Mutant: compiles the repetition again in place of what it repeats.
RepeatRestItself ==
    /\ IsRepeating
    /\ Top.index >= Repeat.minimum
    /\ Push(IF Repeat.maximum = UNBOUNDED THEN "STAR" ELSE "OPTIONAL",
            Top.node)
    /\ Goto("call")
    /\ target' = Top.node

RepeatRest == /\ IsRepeating
              /\ Top.index >= Repeat.minimum
              /\ Push(IF Repeat.maximum = UNBOUNDED THEN "STAR" ELSE "OPTIONAL",
                      Top.node)
              /\ Goto("call")
              /\ target' = Repeat.left

\* repeat_append_part
ReturnPart ==
    /\ IsReturn({"REPEAT"})
    /\ \/ /\ Top.index = 0
          /\ frames' = Append(Front(frames), [Top EXCEPT !.held = fragment,
                                                         !.index = 1])
          /\ UNCHANGED <<states, references>>
       \/ /\ Top.index > 0
          /\ AppendFragment(Top.held)
          /\ frames' = Append(Front(frames), [Top EXCEPT !.held.out = fragment.out,
                                                         !.index = @ + 1])
    /\ Goto("repeat")
    /\ UNCHANGED <<input, target, fragment, capacity, start, error>>

RepeatEnds ==
    /\ mode = "repeat"
    /\ Top.index = Parts(Repeat)
    /\ Pop
    /\ \/ /\ Top.index = 0
          /\ SingleOutputState("JUMP", {})
       \/ /\ Top.index > 0
          /\ Yield(Top.held.start, Top.held.out)
          /\ UNCHANGED <<program, references>>
    /\ UNCHANGED input
-----------------------------------------------------------------------------
\* A failure goes up through the waiting calls, which release what they hold.
Unwind == /\ mode = "fail"
          /\ frames # <<>>
          /\ references' = references \ Top.held.out
          /\ Pop
          /\ UNCHANGED <<input, mode, target, fragment, program, error>>

\* The end of compiler_compile.
Finish ==
    /\ mode = "return"
    /\ frames = <<>>
    /\ references' = references \ fragment.out
    /\ \/ /\ AppendCanFail
          /\ Fail("failed to allocate match state")
          /\ UNCHANGED program
       \/ /\ states' = Patched(Appended("MATCH", {}), fragment.out, Index)
          /\ capacity' = Grown
          /\ start' = fragment.start
          /\ mode' = "done"
          /\ UNCHANGED <<target, fragment, error>>
    /\ UNCHANGED <<input, frames>>

\* nfa_program_free: also a program that was refused because it was in use.
FinishFailed == /\ mode = "fail"
                /\ frames = <<>>
                /\ mode' = "done"
                /\ states' = <<>> /\ capacity' = 0
                /\ start' = NFA_INVALID_STATE
                /\ UNCHANGED <<input, target, fragment, frames, references,
                               error>>

Next == \/ RefuseProgram \/ Begin \/ CallNull \/ CompileLeaf \/ CallChild
        \/ CallRepeat \/ RefuseBounds
        \/ ReturnLeft \/ ReturnRight \/ ReturnBranches \/ ReturnLoop
        \/ ReturnOptional
        \/ RepeatCopy \/ RepeatRest \/ ReturnPart \/ RepeatEnds
        \/ Unwind \/ Finish \/ FinishFailed

Spec == Init /\ [][Next]_vars
-----------------------------------------------------------------------------
HasFailed == mode = "done" /\ error # NoError
HasCompiled == mode = "done" /\ error = NoError

\* The program a successful call leaves to its caller.
Compiled == [count  |-> Len(states),
             start  |-> start,
             states |-> [s \in 0 .. Len(states) - 1 |-> states[s + 1]]]

\* The transitions of the program that lead nowhere yet.
OpenOutputs ==
    {<<s, 1>> : s \in {s \in 0 .. Len(states) - 1 :
                          /\ states[s + 1].type # "MATCH"
                          /\ states[s + 1].out1 = NFA_INVALID_STATE}} \cup
    {<<s, 2>> : s \in {s \in 0 .. Len(states) - 1 :
                          /\ states[s + 1].type = "SPLIT"
                          /\ states[s + 1].out2 = NFA_INVALID_STATE}}

\* Whose list is whose: the frames', and under 0 that of a returned fragment.
Owned == [i \in 0 .. Len(frames) |->
             IF i > 0 THEN frames[i].held.out
             ELSE IF mode = "return" THEN fragment.out ELSE {}]

\* The levels of calls below the root, and the states of the whole tree.
Height(tree) ==
    LET height[n \in 1 .. Len(tree)] ==
            IF tree[n].type \in LeafType THEN 1
            ELSE (IF tree[n].type = "REPEAT" THEN 2 ELSE 1) +
                 Max({height[c] : c \in Children(tree[n])})
    IN  height[Len(tree)]

StatesOf(tree) ==
    LET size[n \in 1 .. Len(tree)] ==
            LET node == tree[n]
                child == size[node.left]
            IN  CASE node.type \in LeafType -> 1
                  [] node.type = "CONCATENATION" -> child + size[node.right]
                  [] node.type = "ALTERNATION" -> child + size[node.right] + 1
                  [] node.type \in UnaryType -> child + 1
                  [] OTHER -> IF node.maximum = UNBOUNDED
                              THEN (node.minimum + 1) * child + 1
                              ELSE IF node.maximum = 0 THEN 1
                              ELSE node.maximum * (child + 1) - node.minimum
    IN  size[Len(tree)]

TypeOK ==
    /\ ast \in Asts /\ given \in {"empty", "used", "null"}
    /\ mode \in {"enter", "call", "return", "repeat", "fail", "done"}
    /\ target \in 0 .. Len(ast)
    /\ fragment \in Fragment
    /\ frames \in Seq(Frame)
    /\ states \in Seq(NfaState) /\ capacity \in Nat
    /\ Len(states) <= capacity
    /\ start \in Nat \cup {NFA_INVALID_STATE}
    /\ references \in SUBSET PatchReference
    /\ error \in Error

(* Every block on the heap is in exactly one list, whose owner is still to *)
(* release it: none leaks, none is released twice, and when the call is    *)
(* over none is left, whichever allocation failed.                         *)
ReferencesOwnedOnce ==
    /\ references = UNION {Owned[i] : i \in DOMAIN Owned}
    /\ \A i, j \in DOMAIN Owned : i # j => Owned[i] \cap Owned[j] = {}

(* The patch lists are exact: a transition is in one of them if and only   *)
(* if it leads nowhere yet, so that a finished program has none.           *)
ListsAreExact == \/ mode = "fail" \/ HasFailed
                 \/ references = OpenOutputs

(* The states fit their block, which grows by doubling (see TypeOK).  No   *)
(* transition leads out of the array, whatever was appended after it,      *)
(* nor does an entry of a patch list or the start of a fragment: the       *)
(* branches "failed to patch NFA transition" and "failed to connect ..."   *)
(* are never taken, and nfa_vm_search never meets the "invalid transition" *)
(* that NfaVm has an action for.                                           *)
StaysInside ==
    LET indices == 0 .. Len(states) - 1
        starts == {frames[i].held.start : i \in {i \in DOMAIN frames :
                                                    frames[i].index > 0}}
    IN  /\ TypeOK
        /\ \A i \in DOMAIN states :
              {states[i].out1, states[i].out2}
                  \subseteq indices \cup {NFA_INVALID_STATE}
        /\ \A r \in references : r[1] \in indices
        /\ mode # "done" => starts \subseteq indices
        /\ mode = "return" => fragment.start \in indices
        /\ HasCompiled => start \in indices

(* The recursion is never deeper than the tree is high, REPEAT counting    *)
(* twice for the compile_star_child or compile_optional_child below it:    *)
(* the call comes back.                                                    *)
NoDeeperThanTree == ast # <<>> => Len(frames) < Height(ast)

(* What a pattern costs: every round of a counted repetition is compiled   *)
(* again, so that nested ones multiply, and nothing else does.             *)
SizeIsAsCounted ==
    HasCompiled => Len(states) = StatesOf(ast) + 1
=============================================================================
