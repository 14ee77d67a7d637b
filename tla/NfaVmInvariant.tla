--------------------------- MODULE NfaVmInvariant ---------------------------
(***************************************************************************)
(* Why the simulation of NfaVm is right: the inductive invariant behind    *)
(* its properties, in the layers in which NfaVmProofs establishes it.      *)
(***************************************************************************)
EXTENDS NfaVm

\* What each value of pc says of the arrays and the results, and
Phase ==
    /\ IsRunning => arrays = Arrays
    /\ pc \in {"enter", "done"} => arrays = {}
    /\ pc = "enter" => matched = NULL /\ match = NULL
    /\ pc # "done" => error = NoError
    /\ pc \notin {"enter", "done"} => matched = FALSE /\ match = NothingIn(call)

\* of the cursor and the lists.
Position ==
    /\ pc \in {"enter", "allocated"} => generation = 0
    /\ pc = "allocated" => start_position = call.search_start
    /\ pc \in {"seed", "follow"} \/ work = <<>>
    /\ pc \notin {"enter", "done"} => start_position \in Starts(call)
    /\ pc \in {"seed", "read", "scan", "follow", "finish"} =>
          position \in start_position .. Length
    /\ pc \in {"read", "scan", "follow"} => position < Length
    /\ pc \in {"scan", "follow"} => list_index >= 1
    /\ pc = "follow" => list_index <= Len(current)
    /\ pc = "seed" => position = start_position

TypeInv == TypeOK /\ Phase /\ Position
-----------------------------------------------------------------------------
IsBuilding == pc \in {"seed", "scan", "follow"}

\* A list being filled from a stack: no state twice in the two of them, and
\* every state in them marked with generation g.
IsFill(S, list, stack, marks, g) ==
    /\ list \in Seq(S) /\ stack \in Seq(S)
    /\ marks \in [S -> Nat] /\ g \in Nat
    /\ IsInjective(list) /\ IsInjective(stack)
    /\ \A i \in DOMAIN list, j \in DOMAIN stack : list[i] # stack[j]
    /\ \A i \in DOMAIN list : marks[list[i]] = g
    /\ \A j \in DOMAIN stack : marks[stack[j]] = g

\* No mark is newer than the list being built, so that the marks of the
\* next generation are all unset when it begins.
MarksBounded ==
    pc \notin {"enter", "done"} => \A s \in States(Program) : seen[s] <= generation

ListsDistinct == IsInjective(current) /\ IsInjective(next)

BuildDistinct ==
    IsBuilding => IsFill(States(Program), Filled, work, seen, generation)

ListInv == MarksBounded /\ ListsDistinct /\ BuildDistinct
-----------------------------------------------------------------------------
\* The states a run from start_position can be in at offset q.
Reach(q) == {s \in States(Program) :
                <<s, q>> \in Reachable(Program, call.text, start_position)}

MarkedBy(marks, g) == {s \in States(Program) : marks[s] = g}

\* The marked states that have left the stack.
Expanded(stack, marks, g) ==
    {s \in MarkedBy(marks, g) : \A j \in DOMAIN stack : stack[j] # s}

\* Every mark is earned, every expanded state has passed its mark on, and
\* the list holds the expanded states that a list holds.
IsExact(M, E, list, q) ==
    /\ M \subseteq Reach(q)
    /\ E \subseteq M
    /\ \A s \in E : EpsilonMoves(Program, call.text, s, q) \subseteq M
    /\ \A s \in E :
          State(s).type \in Listed => \E i \in DOMAIN list : list[i] = s
    /\ \A i \in DOMAIN list : State(list[i]).type \in Listed /\ list[i] \in M

BuildExact ==
    IsBuilding => IsExact(MarkedBy(seen, generation),
                          Expanded(work, seen, generation), Filled, Offset)

\* The states of `current` whose move on the character is already made.
IsMoved(i) == i < list_index \/ (pc = "follow" /\ i = list_index)

MovesMade ==
    pc \in {"scan", "follow"} =>
        \A i \in DOMAIN current :
            IsMoved(i) /\ MatchesCharacter(State(current[i])) =>
                State(current[i]).out1 \in MarkedBy(seen, generation)

StartMarked == pc = "seed" => Program.start \in MarkedBy(seen, generation)

SeedFresh == pc = "seed" => longest_end = NFA_INVALID_STATE

\* Up to the offset of `current` no transition leaves the program.
Unbroken ==
    pc \in {"read", "scan", "follow", "finish"} =>
        \A q \in start_position .. position : \A s \in Reach(q) :
            /\ EpsilonMoves(Program, call.text, s, q) \subseteq States(Program)
            /\ q < position /\ Consumes(Program, call.text, s, q) =>
                  State(s).out1 \in States(Program)

FinishedWhenDone ==
    pc = "finish" => position = Length \/ current = <<>>

LevelInv == /\ BuildExact
            /\ MovesMade
            /\ StartMarked
            /\ SeedFresh
            /\ CurrentIsExact
            /\ Unbroken
            /\ FinishedWhenDone
            /\ LongestIsMaximal
            /\ EarlierStartsFail

IInv == TypeInv /\ ListInv /\ LevelInv
=============================================================================
