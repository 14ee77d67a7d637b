----------------------------- MODULE NfaVmProofs -----------------------------
(***************************************************************************)
(* Theorems about the matcher of src/vm.c, for every program, text,        *)
(* search_start and every UINT_MAX: its state is sound, its simulation     *)
(* computes the reference semantics, and it implements MatchSpec.          *)
(***************************************************************************)
EXTENDS NfaVmInvariant, FiniteSetTheorems, SequenceTheorems, TLAPS
-----------------------------------------------------------------------------
(* Facts about the operators.                                              *)

LEMMA CallType ==
    ASSUME NEW c \in Calls, c.program # NULL, c.text # NULL
    PROVE  /\ IsProgram(c.program)
           /\ c.text \in Seq(Chars)
           /\ Len(c.text) \in Nat
           /\ c.search_start \in Nat
           /\ c.require_text_end \in BOOLEAN
           /\ c.require_text_end => c.search_start = 0
<1>1. /\ c.program \in Programs
      /\ c.text \in Texts
      /\ c.search_start \in SearchStarts \/ c.search_start = 0
      /\ c.require_text_end \in BOOLEAN
      /\ c.require_text_end => c.search_start = 0
  BY DEF Calls
<1>2. c.text \in Seq(Chars)
  BY <1>1, CallsAssumption, Zenon
<1>3. \A n \in SearchStarts : n \in Nat
  BY CallsAssumption, Zenon
<1>4. c.search_start \in Nat
  BY <1>1, <1>3
<1>5. IsProgram(c.program)
  BY <1>1, CallsAssumption, Zenon
<1> QED BY <1>1, <1>2, <1>4, <1>5

LEMMA RunnableCall ==
    ASSUME NEW c \in Calls, IsLegal(c)
    PROVE  /\ c.program.count \in Nat \ {0}
           /\ c.program.start \in States(c.program)
           /\ c.program.states \in [States(c.program) -> NfaState]
           /\ c.text \in Seq(Chars)
           /\ Len(c.text) \in Nat
           /\ c.search_start \in Nat
           /\ c.search_start <= Len(c.text)
           /\ c.require_text_end \in BOOLEAN
           /\ c.require_text_end => c.search_start = 0
<1>1. /\ c.program # NULL /\ c.text # NULL
      /\ c.program.count > 0 /\ c.program.start \in States(c.program)
      /\ c.search_start <= Len(c.text)
  BY DEF IsLegal, IsRunnable
<1> QED BY <1>1, CallType DEF IsProgram

LEMMA StateType ==
    ASSUME NEW c \in Calls, IsLegal(c), NEW s \in States(c.program)
    PROVE  /\ c.program.states[s] \in NfaState
           /\ c.program.states[s].out1 \in Nat \cup {NFA_INVALID_STATE}
           /\ c.program.states[s].out2 \in Nat \cup {NFA_INVALID_STATE}
  BY RunnableCall DEF NfaState

LEMMA ValidTarget ==
    ASSUME NEW c \in Calls, IsLegal(c), c = call,
           NEW s \in Nat \cup {NFA_INVALID_STATE}, ~IsInvalid(s)
    PROVE  s \in States(Program)
  BY RunnableCall DEF IsInvalid, States, Program, NFA_INVALID_STATE

LEMMA PushedType ==
    ASSUME NEW S, NEW stack \in Seq(S), NEW marks, NEW s \in S, NEW g
    PROVE  Pushed(stack, marks, s, g) \in Seq(S)
  BY DEF Pushed

\* vm_add_closure starts from an empty stack.
LEMMA StartedType ==
    ASSUME NEW S, NEW marks, NEW s \in S, NEW g
    PROVE  Pushed(<<>>, marks, s, g) \in Seq(S)
<1>1. <<>> \in Seq(S)
  OBVIOUS
<1> QED BY <1>1, PushedType

LEMMA FrontLast ==
    ASSUME NEW S, NEW stack \in Seq(S), stack # <<>>
    PROVE  /\ Len(stack) \in Nat \ {0}
           /\ Last(stack) \in S
           /\ Last(stack) = stack[Len(stack)]
           /\ Front(stack) \in Seq(S)
           /\ Len(Front(stack)) = Len(stack) - 1
           /\ \A i \in 1 .. Len(stack) - 1 : Front(stack)[i] = stack[i]
  BY DEF Front, Last
-----------------------------------------------------------------------------
(* Layer 1: types and phases.                                              *)

LEMMA TypeInit == Init => TypeInv
  BY UintMaxAssumption
     DEF Init, TypeInv, TypeOK, ControlType, CursorType, ListType, ResultType,
         Phase, Position, IsRunning, NoError, NFA_INVALID_STATE

LEMMA FreshType ==
    ASSUME TypeInv, IsRunning
    PROVE  /\ FreshGeneration \in 1 .. UINT_MAX
           /\ FreshSeen \in [States(Program) -> 0 .. UINT_MAX]
  BY UintMaxAssumption
     DEF TypeInv, TypeOK, ListType, IsRunning, FreshGeneration, FreshSeen

LEMMA RunningType ==
    ASSUME TypeInv, pc \notin {"enter", "done"}
    PROVE  /\ call \in Calls /\ IsLegal(call)
           /\ current \in Seq(States(Program))
           /\ next \in Seq(States(Program))
           /\ work \in Seq(States(Program))
           /\ seen \in [States(Program) -> 0 .. UINT_MAX]
           /\ generation \in 0 .. UINT_MAX
           /\ Program.count \in Nat \ {0}
           /\ Program.start \in States(Program)
           /\ Length \in Nat
  BY RunnableCall
     DEF TypeInv, TypeOK, ControlType, ListType, Program, Length

\* The state popped from the stack, and what can be pushed after it.
LEMMA PopType ==
    ASSUME TypeInv, IsFilling
    PROVE  /\ Last(work) \in States(Program)
           /\ Front(work) \in Seq(States(Program))
           /\ ~IsInvalid(State(Last(work)).out1) =>
                 State(Last(work)).out1 \in States(Program)
           /\ ~IsInvalid(State(Last(work)).out2) =>
                 State(Last(work)).out2 \in States(Program)
<1>1. pc \notin {"enter", "done"} /\ work # <<>>
  BY DEF IsFilling
<1>2. Last(work) \in States(Program) /\ Front(work) \in Seq(States(Program))
  BY <1>1, RunningType, FrontLast
<1> QED BY <1>1, <1>2, RunningType, StateType, ValidTarget DEF State, Program

\* The state that is moved on the character.
LEMMA ScanType ==
    ASSUME TypeInv, IsScanning
    PROVE  /\ current[list_index] \in States(Program)
           /\ list_index \in DOMAIN current
           /\ ~IsInvalid(State(current[list_index]).out1) =>
                 State(current[list_index]).out1 \in States(Program)
<1>1. pc \notin {"enter", "done"} /\ list_index \in 1 .. Len(current)
  BY DEF IsScanning, TypeInv, Position, TypeOK, CursorType
<1>2. list_index \in DOMAIN current /\ current[list_index] \in States(Program)
  BY <1>1, RunningType
<1> QED BY <1>1, <1>2, RunningType, StateType, ValidTarget DEF State, Program

LEMMA ReturnType ==
    ASSUME Return
    PROVE  ListType'
<1>1. 0 \in 0 .. UINT_MAX
  BY UintMaxAssumption
<1> QED BY <1>1, Zenon DEF Return, ListType

LEMMA ClearType ==
    ASSUME ClearOutputs, TypeInv, pc = "enter"
    PROVE  /\ matched' = FALSE
           /\ match' = NothingIn(call)
           /\ match' \in NfaMatch \cup {NULL}
<1>1. match = NULL
  BY DEF TypeInv, Phase
<1>2. EmptyMatch \in NfaMatch
  BY DEF EmptyMatch, NfaMatch
<1>3. match' = NothingIn(call)
  BY <1>1, Zenon DEF ClearOutputs, NothingIn
<1>4. match' \in NfaMatch \cup {NULL}
  BY <1>1, <1>2 DEF ClearOutputs
<1> QED BY <1>3, <1>4 DEF ClearOutputs

LEMMA TypeNext ==
    ASSUME TypeInv, [Next]_vars
    PROVE  TypeInv'
<1>. USE DEF TypeInv, TypeOK
<1>1. CASE RefuseOutputs
  <2>1. ControlType'
    BY <1>1 DEF RefuseOutputs, Refuse, cursor, lists, ControlType
  <2>2. CursorType'
    BY <1>1 DEF RefuseOutputs, Refuse, cursor, lists, CursorType
  <2>3. ListType'
    BY <1>1, UintMaxAssumption DEF RefuseOutputs, Refuse, cursor, lists, ListType, Program
  <2>4. ResultType'
    BY <1>1 DEF RefuseOutputs, Refuse, cursor, lists, ResultType, VmErrors
  <2>5. Phase'
    BY <1>1 DEF RefuseOutputs, Refuse, cursor, lists, Phase, IsRunning, NothingIn
  <2>6. Position'
    BY <1>1 DEF RefuseOutputs, Refuse, cursor, lists, Position, Starts, Length
  <2> QED BY <2>1, <2>2, <2>3, <2>4, <2>5, <2>6
<1>2. CASE RefuseText
  <2>1. ControlType'
    BY <1>2 DEF RefuseText, ClearOutputs, Refuse, cursor, lists, ControlType
  <2>2. CursorType'
    BY <1>2 DEF RefuseText, ClearOutputs, Refuse, cursor, lists, CursorType
  <2>3. ListType'
    BY <1>2, UintMaxAssumption DEF RefuseText, ClearOutputs, Refuse, cursor, lists, ListType, Program
  <2>4. ResultType'
    <3>1. pc = "enter" /\ ClearOutputs /\ error' \in VmErrors
      BY <1>2 DEF RefuseText, Refuse, VmErrors
    <3> QED BY <3>1, ClearType DEF ResultType
  <2>5. Phase'
    BY <1>2 DEF RefuseText, ClearOutputs, Refuse, cursor, lists, Phase, IsRunning, NothingIn
  <2>6. Position'
    BY <1>2 DEF RefuseText, ClearOutputs, Refuse, cursor, lists, Position, Starts, Length
  <2> QED BY <2>1, <2>2, <2>3, <2>4, <2>5, <2>6
<1>3. CASE RefuseStart
  <2>1. ControlType'
    BY <1>3 DEF RefuseStart, ClearOutputs, Refuse, cursor, lists, ControlType
  <2>2. CursorType'
    BY <1>3 DEF RefuseStart, ClearOutputs, Refuse, cursor, lists, CursorType
  <2>3. ListType'
    BY <1>3, UintMaxAssumption DEF RefuseStart, ClearOutputs, Refuse, cursor, lists, ListType, Program
  <2>4. ResultType'
    <3>1. pc = "enter" /\ ClearOutputs /\ error' \in VmErrors
      BY <1>3 DEF RefuseStart, Refuse, VmErrors
    <3> QED BY <3>1, ClearType DEF ResultType
  <2>5. Phase'
    BY <1>3 DEF RefuseStart, ClearOutputs, Refuse, cursor, lists, Phase, IsRunning, NothingIn
  <2>6. Position'
    BY <1>3 DEF RefuseStart, ClearOutputs, Refuse, cursor, lists, Position, Starts, Length
  <2> QED BY <2>1, <2>2, <2>3, <2>4, <2>5, <2>6
<1>4. CASE RefuseProgram
  <2>1. ControlType'
    BY <1>4 DEF RefuseProgram, ClearOutputs, ReachesProgram, Refuse, cursor, lists, ControlType
  <2>2. CursorType'
    BY <1>4 DEF RefuseProgram, ClearOutputs, ReachesProgram, Refuse, cursor, lists, CursorType
  <2>3. ListType'
    BY <1>4, UintMaxAssumption DEF RefuseProgram, ClearOutputs, ReachesProgram, Refuse, cursor, lists, ListType, Program
  <2>4. ResultType'
    <3>1. pc = "enter" /\ ClearOutputs /\ error' \in VmErrors
      BY <1>4 DEF RefuseProgram, Refuse, VmErrors
    <3> QED BY <3>1, ClearType DEF ResultType
  <2>5. Phase'
    BY <1>4 DEF RefuseProgram, ClearOutputs, ReachesProgram, Refuse, cursor, lists, Phase, IsRunning, NothingIn
  <2>6. Position'
    BY <1>4 DEF RefuseProgram, ClearOutputs, ReachesProgram, Refuse, cursor, lists, Position, Starts, Length
  <2> QED BY <2>1, <2>2, <2>3, <2>4, <2>5, <2>6
<1>5. CASE Allocate
  <2>1. /\ pc = "enter" /\ pc' = "allocated" /\ arrays' \subseteq Arrays
        /\ UNCHANGED <<call, current, next, work, generation, position,
                       list_index, longest_end, error>>
        /\ start_position' = call.search_start
        /\ seen' = [s \in States(Program) |-> 0]
        /\ ClearOutputs
    BY <1>5 DEF Allocate
  <2>2. call \in Calls /\ call.outputs /\ Program # NULL /\ call.text # NULL
    BY <1>5 DEF Allocate, ReachesProgram, ControlType
  <2>3. IsLegal(call)
    <3>1. call.search_start <= Len(call.text)
      BY <1>5, <2>2, CallType DEF Allocate, ReachesProgram, Program, Length
    <3>2. IsRunnable(call.program)
      BY <1>5, <2>2, CallType
         DEF Allocate, Program, IsRunnable, IsProgram, States, NFA_INVALID_STATE
    <3> QED BY <2>2, <3>1, <3>2 DEF IsLegal, Program
  <2>4. start_position' \in Starts(call) /\ start_position' \in Nat
    BY <2>1, <2>2, <2>3, RunnableCall DEF Starts
  <2>5. ControlType'
    BY <2>1, <2>3 DEF ControlType
  <2>6. CursorType'
    BY <2>1, <2>4 DEF CursorType
  <2>7. ListType'
    BY <2>1, UintMaxAssumption DEF ListType, Program
  <2>8. ResultType'
    BY <2>1, ClearType DEF ResultType
  <2>9. Phase'
    BY <2>1, ClearType DEF Phase, IsRunning, NothingIn
  <2>10. Position'
    BY <2>1, <2>4 DEF Position, ListType, Starts, Length
  <2> QED BY <2>5, <2>6, <2>7, <2>8, <2>9, <2>10
<1>6. CASE AllocationFails
  <2>1. ControlType'
    BY <1>6 DEF AllocationFails, Return, cursor, lists, ControlType
  <2>2. CursorType'
    BY <1>6 DEF AllocationFails, Return, cursor, lists, CursorType
  <2>3. ListType'
    BY <1>6, ReturnType DEF AllocationFails
  <2>4. ResultType'
    BY <1>6 DEF AllocationFails, Return, cursor, lists, ResultType, VmErrors
  <2>5. Phase'
    BY <1>6 DEF AllocationFails, Return, cursor, lists, Phase, IsRunning, NothingIn
  <2>6. Position'
    BY <1>6 DEF AllocationFails, Return, cursor, lists, Position, Starts, Length
  <2> QED BY <2>1, <2>2, <2>3, <2>4, <2>5, <2>6
<1>7. CASE AllocationSucceeds
  <2>1. ControlType'
    BY <1>7 DEF AllocationSucceeds, cursor, lists, results, ControlType
  <2>2. CursorType'
    BY <1>7 DEF AllocationSucceeds, cursor, lists, results, CursorType
  <2>3. ListType'
    BY <1>7, UintMaxAssumption DEF AllocationSucceeds, cursor, lists, results, ListType, Program
  <2>4. ResultType'
    BY <1>7 DEF AllocationSucceeds, cursor, lists, results, ResultType, VmErrors
  <2>5. Phase'
    BY <1>7 DEF AllocationSucceeds, cursor, lists, results, Phase, IsRunning, NothingIn
  <2>6. Position'
    BY <1>7 DEF AllocationSucceeds, cursor, lists, results, Position, Starts, Length
  <2> QED BY <2>1, <2>2, <2>3, <2>4, <2>5, <2>6
<1>8. CASE BeginRun
  <2>1. ControlType'
    BY <1>8 DEF BeginRun, results, ControlType
  <2>2. CursorType'
    BY <1>8 DEF BeginRun, results, CursorType
  <2>3. ListType'
    <3>1. pc = "run" /\ pc' = "seed" /\ UNCHANGED <<call, next>>
      BY <1>8 DEF BeginRun
    <3>2. /\ current' = <<>>
          /\ generation' = FreshGeneration
          /\ seen' = [FreshSeen EXCEPT ![Program.start] = FreshGeneration]
          /\ work' = Pushed(<<>>, FreshSeen, Program.start, FreshGeneration)
      BY <1>8 DEF BeginRun
    <3>3. /\ FreshGeneration \in 1 .. UINT_MAX
          /\ FreshSeen \in [States(Program) -> 0 .. UINT_MAX]
      BY <3>1, FreshType DEF IsRunning
    <3>4. work' \in Seq(States(Program))
      BY <3>1, <3>2, RunningType, StartedType
    <3> QED BY <3>1, <3>2, <3>3, <3>4, RunningType, UintMaxAssumption
            DEF ListType, Program
  <2>4. ResultType'
    BY <1>8 DEF BeginRun, results, ResultType, VmErrors
  <2>5. Phase'
    BY <1>8 DEF BeginRun, results, Phase, IsRunning, NothingIn
  <2>6. Position'
    BY <1>8 DEF BeginRun, results, Position, Starts, Length
  <2> QED BY <2>1, <2>2, <2>3, <2>4, <2>5, <2>6
<1>9. CASE PopSplit
  <2>1. ControlType'
    BY <1>9 DEF PopSplit, IsFilling, cursor, results, ControlType
  <2>2. CursorType'
    BY <1>9 DEF PopSplit, IsFilling, cursor, results, CursorType
  <2>3. ListType'
    <3> DEFINE state == State(Last(work))
    <3> DEFINE marks == [seen EXCEPT ![state.out1] = generation]
    <3>1. /\ pc \in {"seed", "follow"} /\ IsFilling
          /\ UNCHANGED <<call, pc, current, next, generation>>
          /\ ~IsInvalid(state.out1) /\ ~IsInvalid(state.out2)
      BY <1>9 DEF PopSplit, IsFilling
    <3>2. state.out1 \in States(Program) /\ state.out2 \in States(Program)
      BY <3>1, PopType
    <3>3. Pushed(Front(work), seen, state.out1, generation) \in Seq(States(Program))
      BY <3>1, <3>2, PopType, PushedType
    <3>4. work' \in Seq(States(Program))
      BY <1>9, <3>2, <3>3, PushedType DEF PopSplit
    <3>5. marks \in [States(Program) -> 0 .. UINT_MAX]
      BY <3>1, <3>2, RunningType
    <3>6. seen' \in [States(Program) -> 0 .. UINT_MAX]
      BY <1>9, <3>1, <3>2, <3>5, RunningType DEF PopSplit
    <3> QED BY <3>1, <3>4, <3>6, RunningType DEF ListType, Program
  <2>4. ResultType'
    BY <1>9 DEF PopSplit, IsFilling, cursor, results, ResultType, VmErrors
  <2>5. Phase'
    BY <1>9 DEF PopSplit, IsFilling, cursor, results, Phase, IsRunning, NothingIn
  <2>6. Position'
    BY <1>9 DEF PopSplit, IsFilling, cursor, results, Position, Starts, Length
  <2> QED BY <2>1, <2>2, <2>3, <2>4, <2>5, <2>6
<1>10. CASE PopPassing
  <2>1. ControlType'
    BY <1>10 DEF PopPassing, IsFilling, cursor, results, ControlType
  <2>2. CursorType'
    BY <1>10 DEF PopPassing, IsFilling, cursor, results, CursorType
  <2>3. ListType'
    <3> DEFINE state == State(Last(work))
    <3>1. /\ pc \in {"seed", "follow"} /\ IsFilling
          /\ UNCHANGED <<call, pc, current, next, generation>>
          /\ ~IsInvalid(state.out1)
      BY <1>10 DEF PopPassing, IsFilling
    <3>2. state.out1 \in States(Program)
      BY <3>1, PopType
    <3>3. work' \in Seq(States(Program))
      BY <1>10, <3>1, <3>2, PopType, PushedType DEF PopPassing
    <3>4. seen' \in [States(Program) -> 0 .. UINT_MAX]
      BY <1>10, <3>1, <3>2, RunningType DEF PopPassing
    <3> QED BY <3>1, <3>3, <3>4, RunningType DEF ListType, Program
  <2>4. ResultType'
    BY <1>10 DEF PopPassing, IsFilling, cursor, results, ResultType, VmErrors
  <2>5. Phase'
    BY <1>10 DEF PopPassing, IsFilling, cursor, results, Phase, IsRunning, NothingIn
  <2>6. Position'
    BY <1>10 DEF PopPassing, IsFilling, cursor, results, Position, Starts, Length
  <2> QED BY <2>1, <2>2, <2>3, <2>4, <2>5, <2>6
<1>11. CASE PopBlocked
  <2>1. ControlType'
    BY <1>11 DEF PopBlocked, IsFilling, cursor, results, ControlType
  <2>2. CursorType'
    BY <1>11 DEF PopBlocked, IsFilling, cursor, results, CursorType
  <2>3. ListType'
    <3>1. /\ pc \in {"seed", "follow"} /\ IsFilling
          /\ UNCHANGED <<call, pc, current, next, seen, generation>>
          /\ work' = Front(work)
      BY <1>11 DEF PopBlocked, IsFilling
    <3> QED BY <3>1, PopType, RunningType DEF ListType, Program
  <2>4. ResultType'
    BY <1>11 DEF PopBlocked, IsFilling, cursor, results, ResultType, VmErrors
  <2>5. Phase'
    BY <1>11 DEF PopBlocked, IsFilling, cursor, results, Phase, IsRunning, NothingIn
  <2>6. Position'
    BY <1>11 DEF PopBlocked, IsFilling, cursor, results, Position, Starts, Length
  <2> QED BY <2>1, <2>2, <2>3, <2>4, <2>5, <2>6
<1>12. CASE PopListed
  <2>1. ControlType'
    BY <1>12 DEF PopListed, IsFilling, cursor, results, ControlType
  <2>2. CursorType'
    BY <1>12 DEF PopListed, IsFilling, cursor, results, CursorType
  <2>3. ListType'
    <3>1. /\ pc \in {"seed", "follow"} /\ IsFilling
          /\ UNCHANGED <<call, pc, seen, generation>>
          /\ work' = Front(work)
      BY <1>12 DEF PopListed, IsFilling
    <3>2. /\ current' \in {current, Append(current, Last(work))}
          /\ next' \in {next, Append(next, Last(work))}
      BY <1>12 DEF PopListed
    <3>3. /\ current' \in Seq(States(Program))
          /\ next' \in Seq(States(Program))
      <4>1. /\ Last(work) \in States(Program)
            /\ current \in Seq(States(Program))
            /\ next \in Seq(States(Program))
        BY <3>1, PopType, RunningType
      <4>2. /\ Append(current, Last(work)) \in Seq(States(Program))
            /\ Append(next, Last(work)) \in Seq(States(Program))
        BY <4>1, AppendProperties
      <4> QED BY <3>2, <4>1, <4>2, Zenon
    <3> QED BY <3>1, <3>3, PopType, RunningType DEF ListType, Program
  <2>4. ResultType'
    BY <1>12 DEF PopListed, IsFilling, cursor, results, ResultType, VmErrors
  <2>5. Phase'
    BY <1>12 DEF PopListed, IsFilling, cursor, results, Phase, IsRunning, NothingIn
  <2>6. Position'
    BY <1>12 DEF PopListed, IsFilling, cursor, results, Position, Starts, Length
  <2> QED BY <2>1, <2>2, <2>3, <2>4, <2>5, <2>6
<1>13. CASE PopInvalid
  <2>1. ControlType'
    BY <1>13 DEF PopInvalid, FailTransition, IsFilling, Return, cursor, ControlType
  <2>2. CursorType'
    BY <1>13 DEF PopInvalid, FailTransition, IsFilling, Return, cursor, CursorType
  <2>3. ListType'
    BY <1>13, ReturnType DEF PopInvalid, FailTransition
  <2>4. ResultType'
    BY <1>13 DEF PopInvalid, FailTransition, IsFilling, Return, cursor, ResultType, VmErrors
  <2>5. Phase'
    BY <1>13 DEF PopInvalid, FailTransition, IsFilling, Return, cursor, Phase, IsRunning, NothingIn
  <2>6. Position'
    BY <1>13 DEF PopInvalid, FailTransition, IsFilling, Return, cursor, Position, Starts, Length
  <2> QED BY <2>1, <2>2, <2>3, <2>4, <2>5, <2>6
<1>14. CASE EndSeed
  <2>1. ControlType'
    BY <1>14 DEF EndSeed, lists, results, ControlType
  <2>2. CursorType'
    <3>1. longest_end' \in {position, longest_end}
      BY <1>14 DEF EndSeed, LongestEnd
    <3> QED BY <1>14, <3>1 DEF EndSeed, CursorType
  <2>3. ListType'
    BY <1>14, UintMaxAssumption DEF EndSeed, lists, results, ListType, Program
  <2>4. ResultType'
    BY <1>14 DEF EndSeed, lists, results, ResultType, VmErrors
  <2>5. Phase'
    BY <1>14 DEF EndSeed, lists, results, Phase, IsRunning, NothingIn
  <2>6. Position'
    BY <1>14 DEF EndSeed, lists, results, Position, Starts, Length
  <2> QED BY <2>1, <2>2, <2>3, <2>4, <2>5, <2>6
<1>15. CASE BeginCharacter
  <2>1. ControlType'
    BY <1>15 DEF BeginCharacter, results, ControlType
  <2>2. CursorType'
    BY <1>15 DEF BeginCharacter, results, CursorType
  <2>3. ListType'
    <3>1. /\ pc = "read" /\ pc' = "scan" /\ UNCHANGED <<call, current, work>>
          /\ next' = <<>>
          /\ generation' = FreshGeneration
          /\ seen' = FreshSeen
      BY <1>15 DEF BeginCharacter
    <3>2. /\ FreshGeneration \in 1 .. UINT_MAX
          /\ FreshSeen \in [States(Program) -> 0 .. UINT_MAX]
      BY <3>1, FreshType DEF IsRunning
    <3> QED BY <3>1, <3>2, RunningType, UintMaxAssumption DEF ListType, Program
  <2>4. ResultType'
    BY <1>15 DEF BeginCharacter, results, ResultType, VmErrors
  <2>5. Phase'
    BY <1>15 DEF BeginCharacter, results, Phase, IsRunning, NothingIn
  <2>6. Position'
    BY <1>15 DEF BeginCharacter, results, Position, Starts, Length
  <2> QED BY <2>1, <2>2, <2>3, <2>4, <2>5, <2>6
<1>16. CASE FollowState
  <2>1. ControlType'
    BY <1>16 DEF FollowState, IsScanning, cursor, results, ControlType
  <2>2. CursorType'
    BY <1>16 DEF FollowState, IsScanning, cursor, results, CursorType
  <2>3. ListType'
    <3> DEFINE state == State(current[list_index])
    <3>1. /\ pc = "scan" /\ pc' = "follow" /\ IsScanning
          /\ UNCHANGED <<call, current, next, generation>>
          /\ seen' = [seen EXCEPT ![state.out1] = generation]
          /\ work' = Pushed(<<>>, seen, state.out1, generation)
          /\ ~IsInvalid(state.out1)
      BY <1>16 DEF FollowState, IsScanning
    <3>2. state.out1 \in States(Program)
      BY <3>1, ScanType
    <3>3. work' \in Seq(States(Program))
      BY <3>1, <3>2, StartedType
    <3>4. seen' \in [States(Program) -> 0 .. UINT_MAX]
      BY <3>1, <3>2, RunningType
    <3> QED BY <3>1, <3>3, <3>4, RunningType DEF ListType, Program
  <2>4. ResultType'
    BY <1>16 DEF FollowState, IsScanning, cursor, results, ResultType, VmErrors
  <2>5. Phase'
    BY <1>16 DEF FollowState, IsScanning, cursor, results, Phase, IsRunning, NothingIn
  <2>6. Position'
    BY <1>16 DEF FollowState, IsScanning, cursor, results, Position, Starts, Length
  <2> QED BY <2>1, <2>2, <2>3, <2>4, <2>5, <2>6
<1>17. CASE FollowInvalid
  <2>1. ControlType'
    BY <1>17 DEF FollowInvalid, FailTransition, IsScanning, Return, cursor, ControlType
  <2>2. CursorType'
    BY <1>17 DEF FollowInvalid, FailTransition, IsScanning, Return, cursor, CursorType
  <2>3. ListType'
    BY <1>17, ReturnType DEF FollowInvalid, FailTransition
  <2>4. ResultType'
    BY <1>17 DEF FollowInvalid, FailTransition, IsScanning, Return, cursor, ResultType, VmErrors
  <2>5. Phase'
    BY <1>17 DEF FollowInvalid, FailTransition, IsScanning, Return, cursor, Phase, IsRunning, NothingIn
  <2>6. Position'
    BY <1>17 DEF FollowInvalid, FailTransition, IsScanning, Return, cursor, Position, Starts, Length
  <2> QED BY <2>1, <2>2, <2>3, <2>4, <2>5, <2>6
<1>18. CASE SkipState
  <2>1. ControlType'
    BY <1>18 DEF SkipState, IsScanning, lists, results, ControlType
  <2>2. CursorType'
    BY <1>18 DEF SkipState, IsScanning, lists, results, CursorType
  <2>3. ListType'
    BY <1>18, UintMaxAssumption DEF SkipState, IsScanning, lists, results, ListType, Program
  <2>4. ResultType'
    BY <1>18 DEF SkipState, IsScanning, lists, results, ResultType, VmErrors
  <2>5. Phase'
    BY <1>18 DEF SkipState, IsScanning, lists, results, Phase, IsRunning, NothingIn
  <2>6. Position'
    BY <1>18 DEF SkipState, IsScanning, lists, results, Position, CursorType, Starts, Length
  <2> QED BY <2>1, <2>2, <2>3, <2>4, <2>5, <2>6
<1>19. CASE EndFollow
  <2>1. ControlType'
    BY <1>19 DEF EndFollow, lists, results, ControlType
  <2>2. CursorType'
    BY <1>19 DEF EndFollow, lists, results, CursorType
  <2>3. ListType'
    BY <1>19, UintMaxAssumption DEF EndFollow, lists, results, ListType, Program
  <2>4. ResultType'
    BY <1>19 DEF EndFollow, lists, results, ResultType, VmErrors
  <2>5. Phase'
    BY <1>19 DEF EndFollow, lists, results, Phase, IsRunning, NothingIn
  <2>6. Position'
    BY <1>19 DEF EndFollow, lists, results, Position, CursorType, Starts, Length
  <2> QED BY <2>1, <2>2, <2>3, <2>4, <2>5, <2>6
<1>20. CASE EndCharacter
  <2>1. ControlType'
    BY <1>20 DEF EndCharacter, results, ControlType
  <2>2. CursorType'
    <3>1. longest_end' \in {position + 1, longest_end}
      BY <1>20 DEF EndCharacter, LongestEnd
    <3> QED BY <1>20, <3>1 DEF EndCharacter, CursorType
  <2>3. ListType'
    BY <1>20, UintMaxAssumption DEF EndCharacter, results, ListType, Program
  <2>4. ResultType'
    BY <1>20 DEF EndCharacter, results, ResultType, VmErrors
  <2>5. Phase'
    BY <1>20 DEF EndCharacter, results, Phase, IsRunning, NothingIn
  <2>6. Position'
    BY <1>20 DEF EndCharacter, results, Position, Starts, Length
  <2> QED BY <2>1, <2>2, <2>3, <2>4, <2>5, <2>6
<1>21. CASE ReportMatch
  <2>1. ControlType'
    BY <1>21 DEF ReportMatch, Return, cursor, ControlType
  <2>2. CursorType'
    BY <1>21 DEF ReportMatch, Return, cursor, CursorType
  <2>3. ListType'
    BY <1>21, UintMaxAssumption DEF ReportMatch, Return, cursor, ListType, Program
  <2>4. ResultType'
    <3>1. [start |-> start_position, end |-> longest_end] \in NfaMatch
      BY <1>21 DEF ReportMatch, CursorType, NfaMatch
    <3>2. match' \in NfaMatch \cup {NULL}
      BY <1>21, <3>1 DEF ReportMatch, ResultType
    <3> QED BY <1>21, <3>2, Zenon DEF ReportMatch, ResultType
  <2>5. Phase'
    BY <1>21 DEF ReportMatch, Return, cursor, Phase, IsRunning, NothingIn
  <2>6. Position'
    BY <1>21 DEF ReportMatch, Return, cursor, Position, Starts, Length
  <2> QED BY <2>1, <2>2, <2>3, <2>4, <2>5, <2>6
<1>22. CASE TryNextStart
  <2>1. ControlType'
    BY <1>22 DEF TryNextStart, lists, results, ControlType
  <2>2. CursorType'
    BY <1>22 DEF TryNextStart, lists, results, CursorType
  <2>3. ListType'
    BY <1>22, UintMaxAssumption DEF TryNextStart, lists, results, ListType, Program
  <2>4. ResultType'
    BY <1>22 DEF TryNextStart, lists, results, ResultType, VmErrors
  <2>5. Phase'
    BY <1>22 DEF TryNextStart, lists, results, Phase, IsRunning, NothingIn
  <2>6. Position'
    <3>1. pc = "finish" /\ pc' = "run" /\ work' = work /\ call' = call
          /\ ~call.require_text_end /\ start_position < Length
          /\ start_position' = start_position + 1
      BY <1>22 DEF TryNextStart, lists
    <3>2. /\ start_position \in call.search_start .. Length
          /\ call.search_start \in Nat /\ Length \in Nat
      BY <3>1, RunningType, RunnableCall DEF Position, Starts, Length
    <3> QED BY <3>1, <3>2 DEF Position, Starts, Length
  <2> QED BY <2>1, <2>2, <2>3, <2>4, <2>5, <2>6
<1>23. CASE ReportNothing
  <2>1. ControlType'
    BY <1>23 DEF ReportNothing, Return, cursor, results, ControlType
  <2>2. CursorType'
    BY <1>23 DEF ReportNothing, Return, cursor, results, CursorType
  <2>3. ListType'
    BY <1>23, UintMaxAssumption DEF ReportNothing, Return, cursor, results, ListType, Program
  <2>4. ResultType'
    BY <1>23 DEF ReportNothing, Return, cursor, results, ResultType, VmErrors
  <2>5. Phase'
    BY <1>23 DEF ReportNothing, Return, cursor, results, Phase, IsRunning, NothingIn
  <2>6. Position'
    BY <1>23 DEF ReportNothing, Return, cursor, results, Position, Starts, Length
  <2> QED BY <2>1, <2>2, <2>3, <2>4, <2>5, <2>6
<1>24. CASE UNCHANGED vars
  BY <1>24, ZenonT(60)
     DEF vars, lists, cursor, results, ControlType, CursorType, ListType,
         ResultType, Phase, Position, IsRunning, NothingIn, Starts, Length,
         Program
<1> QED
  BY <1>1, <1>2, <1>3, <1>4, <1>5, <1>6, <1>7, <1>8, <1>9, <1>10, <1>11, <1>12, <1>13, <1>14, <1>15, <1>16, <1>17, <1>18, <1>19, <1>20, <1>21, <1>22, <1>23, <1>24 DEF Next

(* Every reachable state is well typed.                                    *)
THEOREM TypeCorrect == Spec => []TypeOK
<1>1. Init => TypeInv
  BY TypeInit
<1>2. TypeInv /\ [Next]_vars => TypeInv'
  BY TypeNext
<1>3. TypeInv => TypeOK
  BY DEF TypeInv
<1> QED BY <1>1, <1>2, <1>3, PTL DEF Spec
-----------------------------------------------------------------------------
(* Layer 2: no state twice in a list or on the stack.                      *)

\* After vm_begin_state_list no state carries the new generation.
LEMMA FreshMarks ==
    ASSUME TypeInv, MarksBounded, IsRunning
    PROVE  \A s \in States(Program) : FreshSeen[s] < FreshGeneration
  BY RunningType, UintMaxAssumption
     DEF MarksBounded, IsRunning, FreshSeen, FreshGeneration

\* vm_push_unseen_state keeps the stack and the list apart and duplicate-free.
LEMMA PushFill ==
    ASSUME NEW S, NEW list, NEW stack, NEW marks, NEW g, NEW s \in S,
           IsFill(S, list, stack, marks, g)
    PROVE  IsFill(S, list, Pushed(stack, marks, s, g),
                  [marks EXCEPT ![s] = g], g)
<1> DEFINE pushed == Pushed(stack, marks, s, g)
           marked == [marks EXCEPT ![s] = g]
<1>0. /\ list \in Seq(S) /\ stack \in Seq(S) /\ marks \in [S -> Nat] /\ g \in Nat
      /\ IsInjective(list) /\ IsInjective(stack)
      /\ \A i \in DOMAIN list, j \in DOMAIN stack : list[i] # stack[j]
      /\ \A i \in DOMAIN list : marks[list[i]] = g
      /\ \A j \in DOMAIN stack : marks[stack[j]] = g
  BY DEF IsFill
<1>1. pushed \in Seq(S) /\ marked \in [S -> Nat]
  BY <1>0, PushedType
<1>2. CASE marks[s] = g
  <2>1. pushed = stack /\ marked = marks
    BY <1>0, <1>2 DEF Pushed
  <2> QED BY <2>1
<1>3. CASE marks[s] # g
  <2>1. pushed = Append(stack, s)
    BY <1>3 DEF Pushed
  <2>2. /\ \A i \in DOMAIN list : list[i] \in S /\ list[i] # s
        /\ \A j \in DOMAIN stack : stack[j] \in S /\ stack[j] # s
    BY <1>0, <1>3
  <2>3. /\ DOMAIN pushed = 1 .. Len(stack) + 1 /\ DOMAIN stack = 1 .. Len(stack)
        /\ \A j \in DOMAIN stack : pushed[j] = stack[j]
        /\ pushed[Len(stack) + 1] = s
        /\ Len(stack) \in Nat
    BY <1>0, <2>1
  <2>4. \A j \in DOMAIN pushed : j \in DOMAIN stack \/ j = Len(stack) + 1
    BY <2>3
  <2>5. /\ marked[s] = g
        /\ \A i \in DOMAIN list : marked[list[i]] = g
        /\ \A j \in DOMAIN stack : marked[stack[j]] = g
    BY <1>0, <2>2
  <2> HIDE DEF pushed, marked
  <2>6. IsInjective(pushed)
    BY <1>0, <2>2, <2>3, <2>4 DEF IsInjective
  <2>7. \A i \in DOMAIN list, j \in DOMAIN pushed : list[i] # pushed[j]
    BY <1>0, <2>2, <2>3, <2>4
  <2>8. \A j \in DOMAIN pushed : marked[pushed[j]] = g
    BY <2>3, <2>4, <2>5
  <2> QED BY <1>0, <1>1, <2>5, <2>6, <2>7, <2>8 DEF IsFill, pushed, marked
<1> QED BY <1>2, <1>3

LEMMA PopFill ==
    ASSUME NEW S, NEW list, NEW stack, NEW marks, NEW g, stack # <<>>,
           IsFill(S, list, stack, marks, g)
    PROVE  /\ IsFill(S, list, Front(stack), marks, g)
           /\ IsFill(S, Append(list, Last(stack)), Front(stack), marks, g)
<1> DEFINE longer == Append(list, Last(stack))
           shorter == Front(stack)
           top == Last(stack)
<1>0. /\ list \in Seq(S) /\ stack \in Seq(S) /\ marks \in [S -> Nat] /\ g \in Nat
      /\ IsInjective(list) /\ IsInjective(stack)
      /\ \A i \in DOMAIN list, j \in DOMAIN stack : list[i] # stack[j]
      /\ \A i \in DOMAIN list : marks[list[i]] = g
      /\ \A j \in DOMAIN stack : marks[stack[j]] = g
  BY DEF IsFill
<1>1. /\ shorter \in Seq(S) /\ Len(stack) \in Nat \ {0} /\ top \in S
      /\ Len(shorter) = Len(stack) - 1
      /\ top = stack[Len(stack)]
      /\ \A i \in 1 .. Len(stack) - 1 : shorter[i] = stack[i]
  BY <1>0, FrontLast
<1>2. /\ DOMAIN shorter = 1 .. Len(stack) - 1
      /\ DOMAIN stack = 1 .. Len(stack)
      /\ DOMAIN shorter \subseteq DOMAIN stack /\ Len(stack) \in DOMAIN stack
  BY <1>1
<1> HIDE DEF shorter, top
<1>3. \A j \in DOMAIN shorter : shorter[j] = stack[j] /\ shorter[j] # top
  <2>1. \A j \in DOMAIN shorter :
           j \in DOMAIN stack /\ j # Len(stack) /\ shorter[j] = stack[j]
    BY <1>1, <1>2
  <2> QED BY <1>0, <1>1, <1>2, <2>1 DEF IsInjective
<1>4. IsInjective(shorter)
  BY <1>0, <1>2, <1>3 DEF IsInjective
<1>5. /\ \A i \in DOMAIN list, j \in DOMAIN shorter : list[i] # shorter[j]
      /\ \A i \in DOMAIN list : list[i] # top
      /\ \A j \in DOMAIN shorter : marks[shorter[j]] = g
      /\ marks[top] = g
  BY <1>0, <1>1, <1>2, <1>3, SMTT(30)
<1>6. /\ DOMAIN longer = 1 .. Len(list) + 1 /\ DOMAIN list = 1 .. Len(list)
      /\ \A i \in DOMAIN list : longer[i] = list[i]
      /\ longer[Len(list) + 1] = top
      /\ Len(list) \in Nat
      /\ longer \in Seq(S)
  BY <1>0, <1>1, SMTT(30) DEF top
<1>7. \A i \in DOMAIN longer : i \in DOMAIN list \/ i = Len(list) + 1
  BY <1>6
<1> HIDE DEF longer
<1>8. IsInjective(longer)
  BY <1>0, <1>5, <1>6, <1>7 DEF IsInjective
<1>9. /\ \A i \in DOMAIN longer, j \in DOMAIN shorter : longer[i] # shorter[j]
      /\ \A i \in DOMAIN longer : marks[longer[i]] = g
  <2>1. ASSUME NEW i \in DOMAIN longer
        PROVE  longer[i] = top \/ (i \in DOMAIN list /\ longer[i] = list[i])
    BY <1>6, <1>7
  <2> QED BY <1>0, <1>3, <1>5, <2>1
<1>10. IsFill(S, list, shorter, marks, g)
  BY <1>0, <1>1, <1>4, <1>5 DEF IsFill
<1>11. IsFill(S, longer, shorter, marks, g)
  BY <1>0, <1>1, <1>4, <1>5, <1>6, <1>8, <1>9 DEF IsFill
<1> QED BY <1>10, <1>11 DEF longer, shorter, top

LEMMA BeginFill ==
    ASSUME NEW S, NEW marks \in [S -> Nat], NEW g \in Nat
    PROVE  IsFill(S, <<>>, <<>>, marks, g)
  BY DEF IsFill, IsInjective

\* Entries without repetition fit into an array of program->count.
LEMMA DistinctBound ==
    ASSUME NEW n \in Nat, NEW list \in Seq(0 .. n - 1), IsInjective(list)
    PROVE  Len(list) <= n
<1>1. /\ DOMAIN list = 1 .. Len(list) /\ Len(list) \in Nat
      /\ list \in [1 .. Len(list) -> 0 .. n - 1]
  OBVIOUS
<1>2. IsFiniteSet(0 .. n - 1) /\ Cardinality(0 .. n - 1) = n
  <2>1. 0 \in Int /\ n - 1 \in Int /\ (0 > n - 1 => n = 0)
    OBVIOUS
  <2> QED BY <2>1, FS_Interval
<1>3. IsFiniteSet(1 .. Len(list)) /\ Cardinality(1 .. Len(list)) = Len(list)
  <2>1. 1 \in Int /\ Len(list) \in Int /\ (1 > Len(list) => Len(list) = 0)
    BY <1>1
  <2> QED BY <1>1, <2>1, FS_Interval, SMTT(30)
<1>4. \A x, y \in 1 .. Len(list) : x # y => list[x] # list[y]
  BY <1>1 DEF IsInjective
<1>5. ~(Cardinality(0 .. n - 1) < Cardinality(1 .. Len(list)))
  BY <1>1, <1>2, <1>3, <1>4, FS_PigeonHole, Zenon
<1> QED BY <1>1, <1>2, <1>3, <1>5

LEMMA ListInit == Init => ListInv
  BY DEF Init, ListInv, MarksBounded, ListsDistinct, BuildDistinct, IsBuilding,
         IsInjective

LEMMA EmptyDistinct == IsInjective(<<>>)
  BY DEF IsInjective

\* An action that ends the call keeps nothing of the lists.
LEMMA ReturnLists ==
    ASSUME Return
    PROVE  ListInv'
  BY EmptyDistinct
     DEF Return, ListInv, MarksBounded, ListsDistinct, BuildDistinct, IsBuilding

LEMMA ListNext ==
    ASSUME TypeInv, ListInv, [Next]_vars
    PROVE  ListInv'
<1>1. CASE RefuseOutputs \/ RefuseText \/ RefuseStart \/ RefuseProgram
  BY <1>1
     DEF RefuseOutputs, RefuseText, RefuseStart, RefuseProgram, Refuse, lists,
         ListInv, MarksBounded, ListsDistinct, BuildDistinct, IsBuilding
<1>2. CASE Allocate
  <2>1. /\ pc' = "allocated" /\ UNCHANGED <<call, current, next, generation>>
        /\ seen' = [s \in States(Program) |-> 0] /\ generation = 0
    BY <1>2 DEF Allocate, TypeInv, Position
  <2> QED BY <2>1 DEF ListInv, MarksBounded, ListsDistinct, BuildDistinct,
                      IsBuilding, Program
<1>3. CASE AllocationFails \/ PopInvalid \/ FollowInvalid \/ ReportMatch
                           \/ ReportNothing
  BY <1>3, ReturnLists
     DEF AllocationFails, PopInvalid, FollowInvalid, FailTransition,
         ReportMatch, ReportNothing
<1>4. CASE AllocationSucceeds \/ TryNextStart
  BY <1>4
     DEF AllocationSucceeds, TryNextStart, lists, ListInv, MarksBounded,
         ListsDistinct, BuildDistinct, IsBuilding, Program
<1>5. CASE BeginRun
  <2>1. /\ pc = "run" /\ pc' = "seed" /\ UNCHANGED <<call, next>>
        /\ current' = <<>> /\ generation' = FreshGeneration
        /\ seen' = [FreshSeen EXCEPT ![Program.start] = FreshGeneration]
        /\ work' = Pushed(<<>>, FreshSeen, Program.start, FreshGeneration)
    BY <1>5 DEF BeginRun
  <2>2. /\ FreshSeen \in [States(Program) -> Nat] /\ FreshGeneration \in Nat
        /\ Program.start \in States(Program)
        /\ \A s \in States(Program) : FreshSeen[s] < FreshGeneration
    BY <2>1, RunningType, FreshType, FreshMarks DEF IsRunning, ListInv
  <2>3. IsFill(States(Program), <<>>, <<>>, FreshSeen, FreshGeneration)
    BY <2>2, BeginFill
  <2>4. IsFill(States(Program), current', work', seen', generation')
    BY <2>1, <2>2, <2>3, PushFill
  <2>5. \A s \in States(Program) : seen'[s] <= generation'
    BY <2>1, <2>2
  <2>6. MarksBounded'
    BY <2>1, <2>5 DEF MarksBounded, Program
  <2>7. ListsDistinct'
    BY <2>1, EmptyDistinct DEF ListInv, ListsDistinct
  <2>8. BuildDistinct'
    BY <2>1, <2>4 DEF BuildDistinct, Filled, Program
  <2> QED BY <2>6, <2>7, <2>8 DEF ListInv
<1>6. CASE PopSplit
  <2> DEFINE S == States(Program)
             state == State(Last(work))
             marks == [seen EXCEPT ![state.out1] = generation]
             stack == Pushed(Front(work), seen, state.out1, generation)
  <2>1. /\ IsFilling /\ pc \in {"seed", "follow"} /\ IsBuilding /\ work # <<>>
        /\ UNCHANGED <<call, pc, current, next, generation>>
        /\ ~IsInvalid(state.out1) /\ ~IsInvalid(state.out2)
        /\ seen' = [marks EXCEPT ![state.out2] = generation]
        /\ work' = Pushed(stack, marks, state.out2, generation)
    BY <1>6 DEF PopSplit, IsFilling, IsBuilding
  <2>2. state.out1 \in S /\ state.out2 \in S
    BY <2>1, PopType
  <2>3. IsFill(S, Filled, Front(work), seen, generation)
    BY <2>1, PopFill DEF ListInv, BuildDistinct
  <2>4. IsFill(S, Filled, stack, marks, generation)
    BY <2>2, <2>3, PushFill
  <2>5. MarksBounded'
    BY <2>1, <2>2, <2>3 DEF ListInv, MarksBounded, Program, IsFill
  <2> HIDE DEF stack, marks
  <2>6. IsFill(S, Filled, work', seen', generation)
    BY <2>1, <2>2, <2>4, PushFill
  <2>7. ListsDistinct' /\ Filled' = Filled
    BY <2>1 DEF ListInv, ListsDistinct, Filled
  <2>8. BuildDistinct'
    BY <2>1, <2>6, <2>7 DEF BuildDistinct, Program
  <2> QED BY <2>5, <2>7, <2>8 DEF ListInv
<1>7. CASE PopPassing
  <2> DEFINE out == State(Last(work)).out1
  <2>1. /\ IsFilling /\ pc \in {"seed", "follow"} /\ IsBuilding /\ work # <<>>
        /\ UNCHANGED <<call, pc, current, next, generation>>
        /\ ~IsInvalid(out)
        /\ seen' = [seen EXCEPT ![out] = generation]
        /\ work' = Pushed(Front(work), seen, out, generation)
    BY <1>7 DEF PopPassing, IsFilling, IsBuilding
  <2>2. out \in States(Program)
    BY <2>1, PopType
  <2>3. IsFill(States(Program), Filled, Front(work), seen, generation)
    BY <2>1, PopFill DEF ListInv, BuildDistinct
  <2>4. IsFill(States(Program), Filled, work', seen', generation)
    BY <2>1, <2>2, <2>3, PushFill
  <2>5. MarksBounded'
    BY <2>1, <2>2, <2>3 DEF ListInv, MarksBounded, Program, IsFill
  <2>6. ListsDistinct' /\ Filled' = Filled
    BY <2>1 DEF ListInv, ListsDistinct, Filled
  <2>7. BuildDistinct'
    BY <2>1, <2>4, <2>6 DEF BuildDistinct, Program
  <2> QED BY <2>5, <2>6, <2>7 DEF ListInv
<1>8. CASE PopBlocked
  <2>1. /\ pc \in {"seed", "follow"} /\ IsBuilding /\ work # <<>>
        /\ UNCHANGED <<call, pc, current, next, seen, generation>>
        /\ work' = Front(work)
    BY <1>8 DEF PopBlocked, IsFilling, IsBuilding
  <2>2. IsFill(States(Program), Filled, work', seen, generation)
    BY <2>1, PopFill DEF ListInv, BuildDistinct
  <2>3. MarksBounded' /\ ListsDistinct' /\ Filled' = Filled
    BY <2>1 DEF ListInv, MarksBounded, ListsDistinct, Filled, Program
  <2>4. BuildDistinct'
    BY <2>1, <2>2, <2>3 DEF BuildDistinct, Program
  <2> QED BY <2>3, <2>4 DEF ListInv
<1>9. CASE PopListed
  <2>1. /\ pc \in {"seed", "follow"} /\ IsBuilding /\ work # <<>>
        /\ UNCHANGED <<call, pc, seen, generation>>
        /\ work' = Front(work)
    BY <1>9 DEF PopListed, IsFilling, IsBuilding
  <2>2. /\ Filled' = Append(Filled, Last(work))
        /\ pc = "seed" => current' = Filled' /\ next' = next
        /\ pc # "seed" => next' = Filled' /\ current' = current
    BY <1>9 DEF PopListed, Filled
  <2>3. IsFill(States(Program), Filled', work', seen, generation)
    BY <2>1, <2>2, PopFill DEF ListInv, BuildDistinct
  <2>4. MarksBounded'
    BY <2>1 DEF ListInv, MarksBounded, Program
  <2>5. ListsDistinct'
    BY <2>2, <2>3 DEF ListInv, ListsDistinct, IsFill
  <2>6. BuildDistinct'
    BY <2>1, <2>3 DEF BuildDistinct, Program
  <2> QED BY <2>4, <2>5, <2>6 DEF ListInv
<1>10. CASE EndSeed
  BY <1>10
     DEF EndSeed, lists, ListInv, MarksBounded, ListsDistinct, BuildDistinct,
         IsBuilding, Program
<1>11. CASE BeginCharacter
  <2>1. /\ pc = "read" /\ pc' = "scan" /\ UNCHANGED <<call, current, work>>
        /\ next' = <<>> /\ generation' = FreshGeneration /\ seen' = FreshSeen
        /\ work = <<>>
    BY <1>11 DEF BeginCharacter, TypeInv, Position
  <2>2. /\ FreshSeen \in [States(Program) -> Nat] /\ FreshGeneration \in Nat
        /\ \A s \in States(Program) : FreshSeen[s] <= FreshGeneration
    BY <2>1, FreshType, FreshMarks DEF IsRunning, ListInv
  <2>3. MarksBounded'
    BY <2>1, <2>2 DEF MarksBounded, Program
  <2>4. ListsDistinct'
    BY <2>1, EmptyDistinct DEF ListInv, ListsDistinct
  <2>5. IsFill(States(Program), <<>>, <<>>, FreshSeen, FreshGeneration)
    BY <2>2, BeginFill
  <2>6. BuildDistinct'
    BY <2>1, <2>5 DEF BuildDistinct, Filled, Program
  <2> QED BY <2>3, <2>4, <2>6 DEF ListInv
<1>12. CASE FollowState
  <2> DEFINE out == State(current[list_index]).out1
  <2>1. /\ pc = "scan" /\ pc' = "follow" /\ IsScanning /\ IsBuilding
        /\ UNCHANGED <<call, current, next, generation>>
        /\ ~IsInvalid(out)
        /\ seen' = [seen EXCEPT ![out] = generation]
        /\ work' = Pushed(<<>>, seen, out, generation)
        /\ Filled = next /\ Filled' = next
        /\ work = <<>>
    BY <1>12 DEF FollowState, IsScanning, IsBuilding, Filled, TypeInv, Position
  <2>2. out \in States(Program)
    BY <2>1, ScanType
  <2>3. IsFill(States(Program), next, <<>>, seen, generation)
    BY <2>1 DEF ListInv, BuildDistinct
  <2>4. IsFill(States(Program), next, work', seen', generation)
    BY <2>1, <2>2, <2>3, PushFill
  <2>5. MarksBounded'
    BY <2>1, <2>2, <2>3 DEF ListInv, MarksBounded, Program, IsFill
  <2>6. ListsDistinct'
    BY <2>1 DEF ListInv, ListsDistinct
  <2>7. BuildDistinct'
    BY <2>1, <2>4 DEF BuildDistinct, Program
  <2> QED BY <2>5, <2>6, <2>7 DEF ListInv
<1>13. CASE SkipState \/ EndFollow
  <2>1. /\ pc \in {"scan", "follow"} /\ pc' = "scan" /\ UNCHANGED <<call, lists>>
    BY <1>13 DEF SkipState, IsScanning, EndFollow
  <2> QED BY <2>1 DEF lists, ListInv, MarksBounded, ListsDistinct,
                      BuildDistinct, IsBuilding, Filled, Program
<1>14. CASE EndCharacter
  <2>1. /\ pc = "scan" /\ pc' \in {"read", "finish"}
        /\ current' = next /\ next' = current
        /\ UNCHANGED <<call, seen, generation>>
    BY <1>14 DEF EndCharacter
  <2> QED BY <2>1 DEF ListInv, MarksBounded, ListsDistinct, BuildDistinct,
                      IsBuilding, Program
<1>15. CASE UNCHANGED vars
  BY <1>15
     DEF vars, lists, cursor, results, ListInv, MarksBounded, ListsDistinct,
         BuildDistinct, IsBuilding, Filled, Program
<1> QED
  BY <1>1, <1>2, <1>3, <1>4, <1>5, <1>6, <1>7, <1>8, <1>9, <1>10, <1>11, <1>12,
     <1>13, <1>14, <1>15 DEF Next

LEMMA ListInvariant == Spec => [](TypeInv /\ ListInv)
<1>1. Init => TypeInv /\ ListInv
  BY TypeInit, ListInit
<1>2. TypeInv /\ ListInv /\ [Next]_vars => TypeInv' /\ ListInv'
  BY TypeNext, ListNext
<1> QED BY <1>1, <1>2, PTL DEF Spec

(* No write of the simulation leaves its array: the stack of               *)
(* vm_add_closure and both state lists stay within program->count entries. *)
THEOREM ArraysSuffice == Spec => []WithinArrays
<1>1. TypeInv /\ ListInv => WithinArrays
  <2> SUFFICES ASSUME TypeInv, ListInv, IsRunning
               PROVE  /\ Len(work) <= Program.count
                      /\ Len(current) <= Program.count
                      /\ Len(next) <= Program.count
    BY DEF WithinArrays
  <2>1. /\ Program.count \in Nat
        /\ current \in Seq(0 .. Program.count - 1)
        /\ next \in Seq(0 .. Program.count - 1)
        /\ work \in Seq(0 .. Program.count - 1)
    BY RunningType DEF IsRunning, States
  <2>2. IsInjective(current) /\ IsInjective(next)
    BY DEF ListInv, ListsDistinct
  <2>3. IsInjective(work)
    <3>1. CASE pc \in {"seed", "follow"}
      BY <3>1 DEF ListInv, BuildDistinct, IsBuilding, IsFill
    <3>2. CASE pc \notin {"seed", "follow"}
      BY <3>2, EmptyDistinct DEF TypeInv, Position
    <3> QED BY <3>1, <3>2
  <2> QED BY <2>1, <2>2, <2>3, DistinctBound
<1> QED BY <1>1, ListInvariant, PTL

(* A state is on the stack or in the list under construction at most once, *)
(* and marked, whatever older lists left in `seen`.                        *)
LEMMA NoStateEntersTwice ==
    ASSUME TypeInv, ListInv, IsBuilding
    PROVE  /\ IsInjective(Filled \o work)
           /\ ToSet(Filled \o work) \subseteq Marked
<1> DEFINE all == Filled \o work
<1>1. IsFill(States(Program), Filled, work, seen, generation)
  BY DEF ListInv, BuildDistinct, IsBuilding
<1>2. /\ Filled \in Seq(States(Program)) /\ work \in Seq(States(Program))
      /\ IsInjective(Filled) /\ IsInjective(work)
      /\ \A i \in DOMAIN Filled, j \in DOMAIN work : Filled[i] # work[j]
      /\ \A i \in DOMAIN Filled : seen[Filled[i]] = generation
      /\ \A j \in DOMAIN work : seen[work[j]] = generation
  BY <1>1 DEF IsFill
<1>3. ASSUME NEW k \in DOMAIN all
      PROVE  \/ k \in DOMAIN Filled /\ all[k] = Filled[k]
             \/ /\ k - Len(Filled) \in DOMAIN work
                /\ all[k] = work[k - Len(Filled)]
                /\ k \notin DOMAIN Filled
  BY <1>2
<1>4. /\ DOMAIN all \subseteq Nat /\ Len(Filled) \in Nat
      /\ DOMAIN Filled \subseteq Nat /\ DOMAIN work \subseteq Nat
  BY <1>2
<1> HIDE DEF all
<1>5. ASSUME NEW k \in DOMAIN all, NEW l \in DOMAIN all, all[k] = all[l]
      PROVE  k = l
  <2>1. CASE k \in DOMAIN Filled /\ l \in DOMAIN Filled
    BY <1>2, <1>3, <1>5, <2>1 DEF IsInjective
  <2>2. CASE k \notin DOMAIN Filled /\ l \notin DOMAIN Filled
    <3>1. k - Len(Filled) = l - Len(Filled)
      BY <1>2, <1>3, <1>5, <2>2 DEF IsInjective
    <3> QED BY <3>1, <1>4
  <2>3. CASE k \in DOMAIN Filled /\ l \notin DOMAIN Filled
    BY <1>2, <1>3, <1>5, <2>3
  <2>4. CASE k \notin DOMAIN Filled /\ l \in DOMAIN Filled
    BY <1>2, <1>3, <1>5, <2>4
  <2> QED BY <2>1, <2>2, <2>3, <2>4
<1>6. \A k \in DOMAIN all : all[k] \in Marked
  BY <1>2, <1>3 DEF Marked
<1>7. ToSet(all) \subseteq Marked
  BY <1>6 DEF ToSet
<1>8. IsInjective(all)
  BY <1>5 DEF IsInjective
<1> QED BY <1>7, <1>8 DEF all

(* The four arrays are all allocated while the simulation runs and none is *)
(* left on any way out.                                                    *)
THEOREM NothingLeaks == Spec => []ArraysBalanced
<1>1. TypeInv => ArraysBalanced
  BY DEF TypeInv, Phase, ArraysBalanced
<1> QED BY <1>1, ListInvariant, PTL
-----------------------------------------------------------------------------
(* CORRECTNESS                                                             *)
(* The simulation of src/vm.c computes the reference semantics: the lists it*)
(* builds hold what is reachable.                                          *)
-----------------------------------------------------------------------------
(* The least closed set of configurations.                                 *)

LEMMA ReachableEntry ==
    ASSUME NEW p, NEW t, NEW from, <<p.start, from>> \in Configurations(p, t, from)
    PROVE  <<p.start, from>> \in Reachable(p, t, from)
  BY Zenon DEF Reachable, IsClosed

LEMMA ReachableStep ==
    ASSUME NEW p, NEW t, NEW from, NEW s, NEW q, NEW d,
           <<s, q>> \in Reachable(p, t, from), d \in Moves(p, t, s, q),
           d \in Configurations(p, t, from)
    PROVE  d \in Reachable(p, t, from)
<1>1. ASSUME NEW C \in SUBSET Configurations(p, t, from), IsClosed(p, t, from, C)
      PROVE  d \in C
  <2>1. <<s, q>> \in C
    BY <1>1, Zenon DEF Reachable
  <2>2. Moves(p, t, <<s, q>>[1], <<s, q>>[2])
           \cap Configurations(p, t, from) \subseteq C
    BY <1>1, <2>1, Zenon DEF IsClosed
  <2>3. <<s, q>>[1] = s /\ <<s, q>>[2] = q
    OBVIOUS
  <2> QED BY <2>2, <2>3
<1> QED BY <1>1 DEF Reachable

LEMMA ReachableLeast ==
    ASSUME NEW p, NEW t, NEW from, NEW C \in SUBSET Configurations(p, t, from),
           IsClosed(p, t, from, C)
    PROVE  Reachable(p, t, from) \subseteq C
  BY DEF Reachable

LEMMA ReachableType ==
    ASSUME NEW p, NEW t, NEW from, NEW c \in Reachable(p, t, from)
    PROVE  c[1] \in States(p) /\ c[2] \in from .. Len(t) /\ c = <<c[1], c[2]>>
  BY DEF Reachable, Configurations

\* A step within the text, spelled out.
LEMMA MovesCases ==
    ASSUME NEW p, NEW t, NEW s, NEW q, NEW d \in Moves(p, t, s, q)
    PROVE  \/ \E e \in EpsilonMoves(p, t, s, q) : d = <<e, q>>
           \/ Consumes(p, t, s, q) /\ d = <<p.states[s].out1, q + 1>>
  BY DEF Moves

LEMMA ClosedBySteps ==
    ASSUME NEW p, NEW t, NEW from, NEW C \in SUBSET Configurations(p, t, from),
           <<p.start, from>> \in C,
           \A c \in C : \A e \in EpsilonMoves(p, t, c[1], c[2]) :
               <<e, c[2]>> \in Configurations(p, t, from) => <<e, c[2]>> \in C,
           \A c \in C : Consumes(p, t, c[1], c[2]) =>
               LET d == <<p.states[c[1]].out1, c[2] + 1>>
               IN  d \in Configurations(p, t, from) => d \in C
    PROVE  IsClosed(p, t, from, C)
<1>1. ASSUME NEW c \in C,
             NEW d \in Moves(p, t, c[1], c[2]) \cap Configurations(p, t, from)
      PROVE  d \in C
  BY MovesCases
<1> QED BY <1>1 DEF IsClosed
-----------------------------------------------------------------------------
(* Layer 3: the list under construction.                                   *)

LEMMA ReachStep ==
    ASSUME TypeInv, IsRunning, NEW s, NEW q \in start_position .. Length,
           s \in Reach(q)
    PROVE  /\ \A e \in EpsilonMoves(Program, call.text, s, q) :
                 e \in States(Program) => e \in Reach(q)
           /\ /\ Consumes(Program, call.text, s, q)
              /\ State(s).out1 \in States(Program)
              => State(s).out1 \in Reach(q + 1)
<1>1. /\ <<s, q>> \in Reachable(Program, call.text, start_position)
      /\ start_position \in Nat /\ Length \in Nat
  BY RunningType DEF Reach, IsRunning, TypeInv, TypeOK, CursorType
<1>2. ASSUME NEW e \in EpsilonMoves(Program, call.text, s, q),
             e \in States(Program)
      PROVE  e \in Reach(q)
  <2>1. <<e, q>> \in Moves(Program, call.text, s, q)
    BY DEF Moves
  <2>2. <<e, q>> \in Configurations(Program, call.text, start_position)
    BY <1>2 DEF Configurations, Length
  <2> QED BY <1>1, <1>2, <2>1, <2>2, ReachableStep DEF Reach
<1>3. ASSUME Consumes(Program, call.text, s, q),
             State(s).out1 \in States(Program)
      PROVE  State(s).out1 \in Reach(q + 1)
  <2>1. <<State(s).out1, q + 1>> \in Moves(Program, call.text, s, q)
    BY <1>3 DEF Moves, State
  <2>2. q + 1 \in start_position .. Len(call.text)
    BY <1>1, <1>3 DEF Consumes, Length
  <2>3. <<State(s).out1, q + 1>>
           \in Configurations(Program, call.text, start_position)
    BY <1>3, <2>2 DEF Configurations
  <2> QED BY <1>1, <1>3, <2>1, <2>3, ReachableStep DEF Reach
<1> QED BY <1>2, <1>3

\* What a push does to the sets: the state is marked and not yet expanded.
IsPush(stack, marks, s, g, pushed, marked) ==
    /\ MarkedBy(marked, g) = MarkedBy(marks, g) \cup {s}
    /\ Expanded(pushed, marked, g) = Expanded(stack, marks, g)

LEMMA PushSets ==
    ASSUME NEW stack \in Seq(States(Program)),
           NEW marks \in [States(Program) -> Nat], NEW g \in Nat,
           NEW s \in States(Program)
    PROVE  IsPush(stack, marks, s, g, Pushed(stack, marks, s, g),
                  [marks EXCEPT ![s] = g])
<1> DEFINE marked == [marks EXCEPT ![s] = g]
           pushed == Pushed(stack, marks, s, g)
<1>1. MarkedBy(marked, g) = MarkedBy(marks, g) \cup {s}
  BY DEF MarkedBy
<1>2. CASE marks[s] = g
  <2>1. pushed = stack /\ marked = marks
    BY <1>2 DEF Pushed
  <2> QED BY <1>1, <2>1 DEF IsPush
<1>3. CASE marks[s] # g
  <2>1. pushed = Append(stack, s)
    BY <1>3 DEF Pushed
  <2>2. /\ DOMAIN pushed = 1 .. Len(stack) + 1 /\ DOMAIN stack = 1 .. Len(stack)
        /\ \A j \in DOMAIN stack : pushed[j] = stack[j]
        /\ pushed[Len(stack) + 1] = s
        /\ Len(stack) \in Nat
    BY <2>1
  <2>3. \A j \in DOMAIN pushed : j \in DOMAIN stack \/ j = Len(stack) + 1
    BY <2>2
  <2>4. s \notin MarkedBy(marks, g)
    BY <1>3 DEF MarkedBy
  <2>5. ASSUME NEW x
        PROVE  (\A j \in DOMAIN pushed : pushed[j] # x) <=>
                   x # s /\ \A j \in DOMAIN stack : stack[j] # x
    BY <2>2, <2>3
  <2>6. Expanded(pushed, marked, g) = Expanded(stack, marks, g)
    <3>1. ASSUME NEW x
          PROVE  x \in Expanded(pushed, marked, g) <=>
                     x \in Expanded(stack, marks, g)
      BY <1>1, <2>4, <2>5 DEF Expanded
    <3> QED BY <3>1
  <2> QED BY <1>1, <2>6 DEF IsPush
<1> QED BY <1>2, <1>3

LEMMA PopSets ==
    ASSUME NEW list, NEW stack, NEW marks, NEW g, stack # <<>>,
           IsFill(States(Program), list, stack, marks, g)
    PROVE  /\ Last(stack) \in MarkedBy(marks, g)
           /\ Expanded(Front(stack), marks, g) =
                  Expanded(stack, marks, g) \cup {Last(stack)}
<1>1. /\ stack \in Seq(States(Program)) /\ IsInjective(stack)
      /\ \A j \in DOMAIN stack : marks[stack[j]] = g
  BY DEF IsFill
<1>2. /\ Front(stack) \in Seq(States(Program)) /\ Len(stack) \in Nat \ {0}
      /\ Len(Front(stack)) = Len(stack) - 1
      /\ Last(stack) = stack[Len(stack)] /\ Last(stack) \in States(Program)
      /\ \A i \in 1 .. Len(stack) - 1 : Front(stack)[i] = stack[i]
  BY <1>1, FrontLast
<1>3. /\ DOMAIN Front(stack) = 1 .. Len(stack) - 1
      /\ DOMAIN stack = 1 .. Len(stack)
      /\ Len(stack) \in DOMAIN stack
  BY <1>1, <1>2
<1>4. Last(stack) \in MarkedBy(marks, g)
  BY <1>1, <1>2, <1>3 DEF MarkedBy
<1>5. \A j \in DOMAIN stack : j = Len(stack) \/ j \in DOMAIN Front(stack)
  BY <1>2, <1>3
<1>6. \A j \in DOMAIN Front(stack) :
         j \in DOMAIN stack /\ j # Len(stack) /\ Front(stack)[j] = stack[j]
  BY <1>2, <1>3
<1>7. \A j \in DOMAIN Front(stack) : Front(stack)[j] # Last(stack)
  BY <1>1, <1>2, <1>3, <1>6 DEF IsInjective
<1>8. ASSUME NEW x
      PROVE  (\A j \in DOMAIN Front(stack) : Front(stack)[j] # x) <=>
                 x = Last(stack) \/ \A j \in DOMAIN stack : stack[j] # x
  BY <1>2, <1>3, <1>5, <1>6, <1>7
<1>9. Expanded(Front(stack), marks, g) =
         Expanded(stack, marks, g) \cup {Last(stack)}
  BY <1>4, <1>8 DEF Expanded
<1> QED BY <1>4, <1>9

\* A state is expanded: all it leads to without a character is marked.
LEMMA ExpandExact ==
    ASSUME TypeInv, IsRunning, NEW q \in start_position .. Length,
           NEW M, NEW E, NEW list, IsExact(M, E, list, q),
           NEW s \in M, State(s).type \notin Listed,
           NEW D, D = EpsilonMoves(Program, call.text, s, q),
           D \subseteq States(Program)
    PROVE  IsExact(M \cup D, E \cup {s}, list, q)
<1>1. D \subseteq Reach(q)
  BY ReachStep DEF IsExact
<1> QED BY <1>1 DEF IsExact

LEMMA ListExact ==
    ASSUME NEW q, NEW M, NEW E, NEW list \in Seq(States(Program)),
           IsExact(M, E, list, q),
           NEW s \in M, State(s).type \in Listed
    PROVE  IsExact(M, E \cup {s}, Append(list, s), q)
<1> DEFINE longer == Append(list, s)
<1>1. /\ DOMAIN longer = 1 .. Len(list) + 1 /\ DOMAIN list = 1 .. Len(list)
      /\ \A i \in DOMAIN list : longer[i] = list[i]
      /\ longer[Len(list) + 1] = s
      /\ Len(list) \in Nat
  OBVIOUS
<1>2. /\ \A i \in DOMAIN longer : i \in DOMAIN list \/ i = Len(list) + 1
      /\ \A i \in DOMAIN list : i \in DOMAIN longer
      /\ Len(list) + 1 \in DOMAIN longer
  BY <1>1
<1>3. EpsilonMoves(Program, call.text, s, q) = {}
  BY DEF EpsilonMoves, Listed, State, Type
<1> HIDE DEF longer
<1>4. \A x \in E \cup {s} :
         State(x).type \in Listed => \E i \in DOMAIN longer : longer[i] = x
  <2>1. ASSUME NEW x \in E, State(x).type \in Listed
        PROVE  \E i \in DOMAIN longer : longer[i] = x
    <3>1. PICK i \in DOMAIN list : list[i] = x
      BY <2>1 DEF IsExact
    <3> QED BY <3>1, <1>1, <1>2
  <2>2. \E i \in DOMAIN longer : longer[i] = s
    BY <1>1, <1>2
  <2> QED BY <2>1, <2>2
<1>5. \A i \in DOMAIN longer :
         State(longer[i]).type \in Listed /\ longer[i] \in M
  BY <1>1, <1>2 DEF IsExact
<1> QED BY <1>3, <1>4, <1>5 DEF IsExact, longer

BuildInv == BuildExact /\ MovesMade /\ StartMarked

LEMMA OffsetType ==
    ASSUME TypeInv, IsBuilding
    PROVE  /\ Offset \in start_position .. Length
           /\ start_position \in Nat /\ position \in Nat /\ Length \in Nat
           /\ pc # "seed" => Offset = position + 1
           /\ IsRunning
  BY RunningType
     DEF TypeInv, TypeOK, CursorType, Position, IsBuilding, IsRunning, Offset

\* A state moved on the character leads to a state reached one offset on.
LEMMA FollowReach ==
    ASSUME TypeInv, CurrentIsExact, IsScanning,
           MatchesCharacter(State(current[list_index])),
           ~IsInvalid(State(current[list_index]).out1)
    PROVE  State(current[list_index]).out1 \in Reach(position + 1)
<1> DEFINE s == current[list_index]
<1>1. /\ pc = "scan" /\ position \in start_position .. Length
      /\ position < Length /\ IsRunning
  BY DEF IsScanning, TypeInv, Position, IsRunning
<1>2. list_index \in DOMAIN current /\ State(s).out1 \in States(Program)
  BY ScanType
<1>3. s \in Reach(position)
  <2>1. s \in ToSet(current)
    BY <1>2 DEF ToSet
  <2> QED BY <1>1, <2>1 DEF CurrentIsExact, ListedAt, Reach
<1>4. Consumes(Program, call.text, s, position)
  BY <1>1 DEF MatchesCharacter, Consumes, State, Type, Length
<1> QED BY <1>1, <1>2, <1>3, <1>4, ReachStep

LEMMA BuildNext ==
    ASSUME TypeInv, ListInv, LevelInv, [Next]_vars
    PROVE  BuildInv'
<1> USE DEF LevelInv, BuildInv
<1>1. CASE ~IsBuilding'
  BY <1>1 DEF BuildExact, MovesMade, StartMarked, IsBuilding
<1>2. CASE BeginRun
  <2>1. /\ pc = "run" /\ pc' = "seed" /\ UNCHANGED call
        /\ current' = <<>> /\ generation' = FreshGeneration
        /\ seen' = [FreshSeen EXCEPT ![Program.start] = FreshGeneration]
        /\ work' = Pushed(<<>>, FreshSeen, Program.start, FreshGeneration)
        /\ position' = start_position /\ start_position' = start_position
    BY <1>2 DEF BeginRun
  <2>2. /\ FreshSeen \in [States(Program) -> Nat] /\ FreshGeneration \in Nat
        /\ Program.start \in States(Program)
        /\ \A s \in States(Program) : FreshSeen[s] < FreshGeneration
        /\ start_position \in Nat /\ Length \in Nat
        /\ start_position \in Starts(call)
    BY <2>1, RunningType, FreshType, FreshMarks
       DEF IsRunning, ListInv, TypeInv, TypeOK, CursorType, Position
  <2>3. /\ MarkedBy(FreshSeen, FreshGeneration) = {}
        /\ Expanded(<<>>, FreshSeen, FreshGeneration) = {}
    BY <2>2 DEF MarkedBy, Expanded
  <2>4. <<>> \in Seq(States(Program))
    OBVIOUS
  <2>5. /\ MarkedBy(seen', generation') = {Program.start}
        /\ Expanded(work', seen', generation') = {}
    <3>1. /\ MarkedBy(seen', generation') =
                MarkedBy(FreshSeen, generation') \cup {Program.start}
          /\ Expanded(work', seen', generation') =
                Expanded(<<>>, FreshSeen, generation')
      <4>1. IsPush(<<>>, FreshSeen, Program.start, generation', work', seen')
        BY <2>1, <2>2, <2>4, PushSets
      <4> QED BY <4>1 DEF IsPush
    <3> QED BY <3>1, <2>1, <2>3
  <2>6. Program.start \in Reach(start_position)
    <3>1. start_position \in start_position .. Len(call.text)
      BY <2>1, <2>2, RunningType, RunnableCall DEF Starts, Length
    <3>2. <<Program.start, start_position>>
             \in Configurations(Program, call.text, start_position)
      BY <2>2, <3>1 DEF Configurations
    <3> QED BY <2>2, <3>2, ReachableEntry DEF Reach
  <2>7. IsExact({Program.start}, {}, <<>>, start_position)
    BY <2>6 DEF IsExact
  <2>8. BuildExact'
    BY <2>1, <2>5, <2>7
       DEF BuildExact, Filled, Offset, IsExact, Reach, MarkedBy, Expanded,
           Program, State
  <2>9. MovesMade' /\ StartMarked'
    BY <2>1, <2>5 DEF MovesMade, StartMarked, MarkedBy, Program
  <2> QED BY <2>8, <2>9
<1>3. CASE PopSplit \/ PopPassing \/ PopBlocked
  <2> DEFINE s == Last(work)
             q == Offset
             M == MarkedBy(seen, generation)
             E == Expanded(work, seen, generation)
             D == EpsilonMoves(Program, call.text, s, q)
  <2>1. /\ IsFilling /\ pc \in {"seed", "follow"} /\ IsBuilding /\ work # <<>>
        /\ UNCHANGED <<call, pc, current, next, generation, start_position,
                       position, list_index>>
    BY <1>3 DEF PopSplit, PopPassing, PopBlocked, IsFilling, IsBuilding, cursor
  <2>2. IsFill(States(Program), Filled, work, seen, generation)
    BY <2>1 DEF ListInv, BuildDistinct
  <2>3. /\ s \in M
        /\ Expanded(Front(work), seen, generation) = E \cup {s}
        /\ Front(work) \in Seq(States(Program))
        /\ seen \in [States(Program) -> Nat] /\ generation \in Nat
    <3>1. seen \in [States(Program) -> Nat] /\ generation \in Nat
      BY <2>2 DEF IsFill
    <3> QED BY <2>1, <2>2, <3>1, PopSets, PopType
  <2>4. /\ D \subseteq States(Program)
        /\ State(s).type \notin Listed
        /\ MarkedBy(seen', generation) = M \cup D
        /\ Expanded(work', seen', generation) = E \cup {s}
    <3>1. CASE PopSplit
      <4> DEFINE marks == [seen EXCEPT ![State(s).out1] = generation]
                 stack == Pushed(Front(work), seen, State(s).out1, generation)
      <4>1. /\ State(s).type = "SPLIT"
            /\ State(s).out1 \in States(Program)
            /\ State(s).out2 \in States(Program)
            /\ seen' = [marks EXCEPT ![State(s).out2] = generation]
            /\ work' = Pushed(stack, marks, State(s).out2, generation)
        BY <2>1, <3>1, PopType DEF PopSplit
      <4>2. D = {State(s).out1, State(s).out2}
        BY <4>1 DEF EpsilonMoves, State, Type
      <4>3. stack \in Seq(States(Program)) /\ marks \in [States(Program) -> Nat]
        BY <2>3, <4>1, PushedType
      <4>4. /\ MarkedBy(marks, generation) = M \cup {State(s).out1}
            /\ Expanded(stack, marks, generation) = E \cup {s}
        <5>1. IsPush(Front(work), seen, State(s).out1, generation, stack, marks)
          BY <2>3, <4>1, PushSets
        <5> QED BY <5>1, <2>3 DEF IsPush
      <4> HIDE DEF marks, stack
      <4>5. /\ MarkedBy(seen', generation) =
                  MarkedBy(marks, generation) \cup {State(s).out2}
            /\ Expanded(work', seen', generation) =
                  Expanded(stack, marks, generation)
        <5>1. IsPush(stack, marks, State(s).out2, generation, work', seen')
          BY <2>3, <4>1, <4>3, PushSets
        <5> QED BY <5>1 DEF IsPush
      <4> QED BY <4>1, <4>2, <4>4, <4>5 DEF Listed
    <3>2. CASE PopPassing
      <4>1. /\ Passes(State(s).type)
            /\ State(s).out1 \in States(Program)
            /\ seen' = [seen EXCEPT ![State(s).out1] = generation]
            /\ work' = Pushed(Front(work), seen, State(s).out1, generation)
        BY <2>1, <3>2, PopType DEF PopPassing
      <4>2. D = {State(s).out1} /\ State(s).type \notin Listed
        BY <4>1 DEF Passes, EpsilonMoves, State, Type, Listed, Length
      <4>3. /\ MarkedBy(seen', generation) = M \cup {State(s).out1}
            /\ Expanded(work', seen', generation) =
                  Expanded(Front(work), seen, generation)
        <5>1. IsPush(Front(work), seen, State(s).out1, generation, work', seen')
          BY <2>3, <4>1, PushSets
        <5> QED BY <5>1 DEF IsPush
      <4> QED BY <2>3, <4>1, <4>2, <4>3
    <3>3. CASE PopBlocked
      <4>1. /\ State(s).type \in {"ASSERT_START", "ASSERT_END"}
            /\ ~Passes(State(s).type)
            /\ seen' = seen /\ work' = Front(work)
        BY <3>3 DEF PopBlocked
      <4>2. D = {} /\ State(s).type \notin Listed
        BY <4>1 DEF Passes, EpsilonMoves, State, Type, Listed, Length
      <4> QED BY <2>3, <4>1, <4>2
    <3> QED BY <1>3, <3>1, <3>2, <3>3
  <2>5. IsExact(M, E, Filled, q)
    BY <2>1 DEF BuildExact
  <2>6. IsExact(M \cup D, E \cup {s}, Filled, q)
    BY <2>1, <2>3, <2>4, <2>5, OffsetType, ExpandExact
  <2> HIDE DEF M, E, D
  <2>7. /\ Filled' = Filled /\ Offset' = Offset
        /\ MarkedBy(seen, generation)' = M \cup D
        /\ Expanded(work, seen, generation)' = E \cup {s}
    BY <2>1, <2>4 DEF Filled, Offset, MarkedBy, Expanded, Program
  <2>8. BuildExact'
    BY <2>1, <2>6, <2>7 DEF BuildExact, IsExact, Reach, Program, State
  <2>9. MovesMade'
    BY <2>1, <2>7
       DEF M, MovesMade, IsMoved, MatchesCharacter, State, Program
  <2>10. StartMarked'
    BY <2>1, <2>7 DEF M, StartMarked, Program
  <2> QED BY <2>8, <2>9, <2>10
<1>4. CASE PopListed
  <2> DEFINE s == Last(work)
             q == Offset
             M == MarkedBy(seen, generation)
             E == Expanded(work, seen, generation)
  <2>1. /\ IsFilling /\ pc \in {"seed", "follow"} /\ IsBuilding /\ work # <<>>
        /\ UNCHANGED <<call, pc, seen, generation, start_position, position,
                       list_index>>
        /\ pc = "follow" => current' = current
        /\ State(s).type \in Listed
        /\ work' = Front(work)
        /\ Filled' = Append(Filled, s)
        /\ Offset' = Offset
    BY <1>4 DEF PopListed, IsFilling, IsBuilding, cursor, Filled, Offset
  <2>2. IsFill(States(Program), Filled, work, seen, generation)
    BY <2>1 DEF ListInv, BuildDistinct
  <2>3. /\ s \in M
        /\ Expanded(Front(work), seen, generation) = E \cup {s}
        /\ Filled \in Seq(States(Program))
    <3>1. Filled \in Seq(States(Program))
      BY <2>2 DEF IsFill
    <3> QED BY <2>1, <2>2, <3>1, PopSets
  <2>4. IsExact(M, E \cup {s}, Append(Filled, s), q)
    BY <2>1, <2>3, ListExact DEF BuildExact
  <2> HIDE DEF M, E
  <2>5. /\ MarkedBy(seen, generation)' = M
        /\ Expanded(work, seen, generation)' = E \cup {s}
    BY <2>1, <2>3 DEF M, MarkedBy, Expanded, Program
  <2>6. BuildExact'
    BY <2>1, <2>4, <2>5 DEF BuildExact, IsExact, Reach, Program, State
  <2>7. MovesMade'
    BY <2>1, <2>5
       DEF M, MovesMade, IsMoved, MatchesCharacter, State, Program
  <2>8. StartMarked'
    BY <2>1, <2>5 DEF M, StartMarked, Program
  <2> QED BY <2>6, <2>7, <2>8
<1>5. CASE BeginCharacter
  <2>1. /\ pc = "read" /\ pc' = "scan" /\ UNCHANGED <<call, current, work>>
        /\ next' = <<>> /\ generation' = FreshGeneration /\ seen' = FreshSeen
        /\ list_index' = 1
    BY <1>5 DEF BeginCharacter
  <2>2. /\ MarkedBy(seen, generation)' = {}
        /\ Expanded(work, seen, generation)' = {}
    <3>1. \A s \in States(Program) : FreshSeen[s] # FreshGeneration
      BY <2>1, FreshType, FreshMarks DEF IsRunning, ListInv
    <3> QED BY <2>1, <3>1 DEF MarkedBy, Expanded, Program
  <2>3. BuildExact'
    BY <2>1, <2>2 DEF BuildExact, IsExact, Filled
  <2>4. MovesMade'
    <3>1. \A i \in DOMAIN current : ~(i < 1)
      BY <2>1, RunningType
    <3> QED BY <2>1, <3>1 DEF MovesMade, IsMoved
  <2>5. StartMarked'
    BY <2>1 DEF StartMarked
  <2> QED BY <2>3, <2>4, <2>5
<1>6. CASE FollowState
  <2> DEFINE out == State(current[list_index]).out1
             M == MarkedBy(seen, generation)
             E == Expanded(work, seen, generation)
  <2>1. /\ pc = "scan" /\ pc' = "follow" /\ IsScanning /\ IsBuilding
        /\ UNCHANGED <<call, current, next, generation, start_position,
                       position, list_index>>
        /\ MatchesCharacter(State(current[list_index]))
        /\ ~IsInvalid(out)
        /\ seen' = [seen EXCEPT ![out] = generation]
        /\ work' = Pushed(<<>>, seen, out, generation)
        /\ Filled = next /\ Filled' = next
        /\ Offset = position + 1 /\ Offset' = position + 1
        /\ work = <<>>
    BY <1>6 DEF FollowState, IsScanning, IsBuilding, Filled, Offset, TypeInv,
                Position, cursor
  <2>2. /\ out \in States(Program) /\ <<>> \in Seq(States(Program))
        /\ seen \in [States(Program) -> Nat] /\ generation \in Nat
    BY <2>1, ScanType, RunningType
  <2>3. /\ MarkedBy(seen', generation) = M \cup {out}
        /\ Expanded(work', seen', generation) = Expanded(<<>>, seen, generation)
    <3>1. IsPush(<<>>, seen, out, generation, work', seen')
      BY <2>1, <2>2, PushSets
    <3> QED BY <3>1 DEF IsPush
  <2>4. /\ MarkedBy(seen, generation)' = M \cup {out}
        /\ Expanded(work, seen, generation)' = E
    BY <2>1, <2>3 DEF MarkedBy, Expanded, Program
  <2>5. out \in Reach(position + 1)
    BY <2>1, FollowReach
  <2>6. IsExact(M, E, next, position + 1)
    BY <2>1 DEF BuildExact
  <2> HIDE DEF M, E
  <2>7. IsExact(M \cup {out}, E, next, position + 1)
    BY <2>5, <2>6, SMTT(30) DEF IsExact
  <2>8. BuildExact'
    BY <2>1, <2>4, <2>7, ZenonT(60)
       DEF BuildExact, IsExact, Reach, Program, State
  <2>9. MovesMade'
    BY <2>1, <2>4 DEF M, MovesMade, IsMoved, MatchesCharacter, State, Program
  <2>10. StartMarked'
    BY <2>1 DEF StartMarked
  <2> QED BY <2>8, <2>9, <2>10
<1>7. CASE SkipState \/ EndFollow
  <2>1. /\ pc \in {"scan", "follow"} /\ pc' = "scan" /\ IsBuilding
        /\ UNCHANGED <<call, lists, start_position, position>>
        /\ list_index' = list_index + 1 /\ list_index \in Nat
        /\ pc = "scan" => ~MatchesCharacter(State(current[list_index]))
        /\ Filled' = Filled /\ Offset' = Offset
    BY <1>7 DEF SkipState, IsScanning, EndFollow, IsBuilding, lists, Filled,
                Offset, TypeInv, TypeOK, CursorType
  <2>2. BuildExact'
    BY <2>1 DEF lists, BuildExact, IsExact, Reach, MarkedBy, Expanded, Program,
                State
  <2>3. MovesMade'
    <3>1. \A i \in DOMAIN current : i \in Nat
      BY <2>1, RunningType
    <3>2. \A i \in DOMAIN current :
             i < list_index + 1 => i < list_index \/ i = list_index
      BY <2>1, <3>1
    <3> QED BY <2>1, <3>2
            DEF lists, MovesMade, IsMoved, MatchesCharacter, State, Program,
                MarkedBy
  <2>4. StartMarked'
    BY <2>1 DEF StartMarked
  <2> QED BY <2>2, <2>3, <2>4
<1>8. CASE UNCHANGED vars
  BY <1>8
     DEF vars, lists, cursor, results, BuildExact, MovesMade, StartMarked,
         IsBuilding, IsExact, IsMoved, MatchesCharacter, Reach, MarkedBy,
         Expanded, Filled, Offset, Program, State
<1>9. CASE \/ RefuseOutputs \/ RefuseText \/ RefuseStart \/ RefuseProgram
           \/ Allocate \/ AllocationFails \/ AllocationSucceeds \/ PopInvalid
           \/ EndSeed \/ FollowInvalid \/ EndCharacter
           \/ ReportMatch \/ TryNextStart \/ ReportNothing
  <2>1. ~IsBuilding'
    BY <1>9
       DEF RefuseOutputs, RefuseText, RefuseStart, RefuseProgram, Refuse,
           Allocate, AllocationFails, AllocationSucceeds, PopInvalid,
           EndSeed, FollowInvalid, FailTransition, Return, EndCharacter,
           ReportMatch, TryNextStart, ReportNothing, IsBuilding
  <2> QED BY <2>1, <1>1
<1> QED
  BY <1>2, <1>3, <1>4, <1>5, <1>6, <1>7, <1>8, <1>9 DEF Next
-----------------------------------------------------------------------------
(* Layer 3: one offset after the other.                                    *)

\* Once the stack is empty every marked state is expanded.
LEMMA AllExpanded ==
    ASSUME work = <<>>
    PROVE  Expanded(work, seen, generation) = MarkedBy(seen, generation)
  BY DEF Expanded

\* The first list: what is marked is all that the entry leads to.
LEMMA SeedReach ==
    ASSUME TypeInv, BuildInv, pc = "seed", work = <<>>
    PROVE  Reach(position) = MarkedBy(seen, generation)
<1> DEFINE M == MarkedBy(seen, generation)
           Conf == Configurations(Program, call.text, start_position)
           C == {c \in Conf : c[2] = position => c[1] \in M}
<1>1. /\ position = start_position /\ position \in start_position .. Length
      /\ start_position \in Nat /\ Length \in Nat
      /\ IsBuilding /\ Offset = position
  BY RunningType DEF TypeInv, TypeOK, CursorType, Position, IsBuilding, Offset
<1>2. /\ M \subseteq Reach(position) /\ M \subseteq States(Program)
      /\ \A s \in M : EpsilonMoves(Program, call.text, s, position) \subseteq M
      /\ Program.start \in M
  BY <1>1, AllExpanded
     DEF BuildInv, BuildExact, IsExact, StartMarked, MarkedBy
<1>3. <<Program.start, start_position>> \in C
  BY <1>1, <1>2 DEF Configurations, Length
<1>4. ASSUME NEW c \in C, NEW e \in EpsilonMoves(Program, call.text, c[1], c[2]),
             <<e, c[2]>> \in Conf
      PROVE  <<e, c[2]>> \in C
  BY <1>2, <1>4
<1>5. ASSUME NEW c \in C, Consumes(Program, call.text, c[1], c[2]),
             NEW d, d = <<Program.states[c[1]].out1, c[2] + 1>>, d \in Conf
      PROVE  d \in C
  <2>1. c[2] \in start_position .. Length
    BY DEF Configurations, Length
  <2>2. d[2] = c[2] + 1 /\ d[2] # position
    BY <1>1, <1>5, <2>1
  <2> QED BY <1>5, <2>2
<1>6. C \in SUBSET Conf
  OBVIOUS
<1> HIDE DEF C
<1>7. IsClosed(Program, call.text, start_position, C)
  BY <1>3, <1>4, <1>5, <1>6, ClosedBySteps
<1>8. Reachable(Program, call.text, start_position) \subseteq C
  BY <1>6, <1>7, ReachableLeast
<1>9. Reach(position) \subseteq M
  BY <1>8 DEF Reach, C
<1> QED BY <1>2, <1>9

\* Only the states a list holds consume a character, and they do so as the
\* simulation tests it.
LEMMA ConsumesListed ==
    ASSUME NEW s, Consumes(Program, call.text, s, position)
    PROVE  State(s).type \in Listed /\ MatchesCharacter(State(s))
  BY DEF Consumes, MatchesCharacter, State, Type, Listed

\* What every state of `current` leads to is marked when the scan is over.
LEMMA ScanMarks ==
    ASSUME TypeInv, BuildInv, CurrentIsExact, pc = "scan",
           list_index > Len(current),
           NEW s \in Reach(position), Consumes(Program, call.text, s, position)
    PROVE  State(s).out1 \in MarkedBy(seen, generation)
<1>1. State(s).type \in Listed /\ MatchesCharacter(State(s))
  BY ConsumesListed
<1>2. s \in ToSet(current)
  BY <1>1 DEF CurrentIsExact, ListedAt, Reach
<1>3. PICK i \in DOMAIN current : current[i] = s
  BY <1>2 DEF ToSet
<1>4. i < list_index
  BY RunningType, <1>3 DEF TypeInv, TypeOK, CursorType
<1> QED BY <1>1, <1>3, <1>4 DEF BuildInv, MovesMade, IsMoved

\* The next list: what is marked is all that can be reached one offset on.
LEMMA ScanReach ==
    ASSUME TypeInv, BuildInv, CurrentIsExact, pc = "scan",
           list_index > Len(current)
    PROVE  Reach(position + 1) = MarkedBy(seen, generation)
<1> DEFINE M == MarkedBy(seen, generation)
           Conf == Configurations(Program, call.text, start_position)
           R == Reachable(Program, call.text, start_position)
           C == {c \in Conf : /\ c[2] <= position => c \in R
                              /\ c[2] = position + 1 => c[1] \in M}
<1>1. /\ position \in start_position .. Length /\ position < Length
      /\ start_position \in Nat /\ Length \in Nat /\ IsRunning
      /\ work = <<>> /\ IsBuilding /\ Offset = position + 1
  BY RunningType
     DEF TypeInv, TypeOK, CursorType, Position, IsBuilding, IsRunning, Offset
<1>2. /\ M \subseteq Reach(position + 1) /\ M \subseteq States(Program)
      /\ \A s \in M :
            EpsilonMoves(Program, call.text, s, position + 1) \subseteq M
  BY <1>1, AllExpanded DEF BuildInv, BuildExact, IsExact, MarkedBy
<1>3. <<Program.start, start_position>> \in C
  <2>1. <<Program.start, start_position>> \in Conf
    BY <1>1, RunningType DEF Configurations, Length, IsRunning
  <2>2. <<Program.start, start_position>> \in R
    BY <2>1, ReachableEntry
  <2> QED BY <1>1, <2>1, <2>2
<1>4. ASSUME NEW c \in C, NEW e \in EpsilonMoves(Program, call.text, c[1], c[2]),
             <<e, c[2]>> \in Conf
      PROVE  <<e, c[2]>> \in C
  <2>1. c[2] <= position => <<e, c[2]>> \in R
    <3>1. ASSUME c[2] <= position
          PROVE  <<e, c[2]>> \in R
      <4>1. <<c[1], c[2]>> \in R
        BY <3>1, ReachableType
      <4>2. <<e, c[2]>> \in Moves(Program, call.text, c[1], c[2])
        BY DEF Moves
      <4> QED BY <1>4, <4>1, <4>2, ReachableStep
    <3> QED BY <3>1
  <2>2. c[2] = position + 1 => e \in M
    BY <1>2
  <2> QED BY <1>4, <2>1, <2>2
<1>5. ASSUME NEW c \in C, Consumes(Program, call.text, c[1], c[2]),
             NEW d, d = <<Program.states[c[1]].out1, c[2] + 1>>, d \in Conf
      PROVE  d \in C
  <2>1. /\ c[2] \in start_position .. Length /\ c[1] \in States(Program)
        /\ d[2] = c[2] + 1 /\ d[1] = State(c[1]).out1
    BY <1>5 DEF Configurations, Length, State
  <2>2. CASE c[2] < position
    <3>1. <<c[1], c[2]>> \in R
      BY <1>1, <2>1, <2>2, ReachableType
    <3>2. d \in Moves(Program, call.text, c[1], c[2])
      BY <1>5 DEF Moves
    <3>3. d \in R
      BY <1>5, <3>1, <3>2, ReachableStep
    <3> QED BY <1>1, <1>5, <2>1, <2>2, <3>3
  <2>3. CASE c[2] = position
    <3>1. <<c[1], position>> \in R
      BY <1>1, <2>1, <2>3, ReachableType
    <3>2. c[1] \in Reach(position)
      BY <2>1, <3>1 DEF Reach
    <3>3. d[1] \in M
      BY <1>5, <2>1, <2>3, <3>2, ScanMarks
    <3> QED BY <1>1, <1>5, <2>1, <2>3, <3>3
  <2>4. CASE c[2] > position
    BY <1>1, <1>5, <2>1, <2>4
  <2> QED BY <1>1, <2>1, <2>2, <2>3, <2>4
<1>6. C \in SUBSET Conf
  OBVIOUS
<1> HIDE DEF C
<1>7. IsClosed(Program, call.text, start_position, C)
  BY <1>3, <1>4, <1>5, <1>6, ClosedBySteps
<1>8. R \subseteq C
  BY <1>6, <1>7, ReachableLeast
<1>9. Reach(position + 1) \subseteq M
  BY <1>8 DEF Reach, C
<1> QED BY <1>2, <1>9

\* When no listed state is left nothing lies beyond this offset.
LEMMA NoneBeyond ==
    ASSUME TypeInv, IsRunning, NEW q \in start_position .. Length,
           \A s \in Reach(q) : State(s).type \notin Listed
    PROVE  \A c \in Reachable(Program, call.text, start_position) : c[2] <= q
<1> DEFINE Conf == Configurations(Program, call.text, start_position)
           R == Reachable(Program, call.text, start_position)
           C == {c \in R : c[2] <= q}
<1>1. /\ start_position \in Nat /\ Length \in Nat /\ q \in Nat
      /\ Program.start \in States(Program)
  BY RunningType DEF TypeInv, TypeOK, CursorType, IsRunning
<1>2. <<Program.start, start_position>> \in C
  <2>1. <<Program.start, start_position>> \in Conf
    BY <1>1 DEF Configurations, Length
  <2> QED BY <1>1, <2>1, ReachableEntry
<1>3. ASSUME NEW c \in C, NEW e \in EpsilonMoves(Program, call.text, c[1], c[2]),
             <<e, c[2]>> \in Conf
      PROVE  <<e, c[2]>> \in C
  <2>1. <<c[1], c[2]>> \in R
    BY ReachableType
  <2>2. <<e, c[2]>> \in Moves(Program, call.text, c[1], c[2])
    BY DEF Moves
  <2> QED BY <1>3, <2>1, <2>2, ReachableStep
<1>4. ASSUME NEW c \in C, Consumes(Program, call.text, c[1], c[2]),
             NEW d, d = <<Program.states[c[1]].out1, c[2] + 1>>, d \in Conf
      PROVE  d \in C
  <2>1. /\ <<c[1], c[2]>> \in R /\ c[1] \in States(Program)
        /\ c[2] \in start_position .. Length /\ c[2] <= q
    BY ReachableType DEF Length
  <2>2. d \in Moves(Program, call.text, c[1], c[2])
    BY <1>4 DEF Moves
  <2>3. d \in R
    BY <1>4, <2>1, <2>2, ReachableStep
  <2>4. State(c[1]).type \in Listed
    BY <1>4 DEF Consumes, Listed, State, Type
  <2>5. c[2] # q
    BY <2>1, <2>4 DEF Reach
  <2> QED BY <1>1, <1>4, <2>1, <2>3, <2>5
<1>5. C \in SUBSET Conf
  BY DEF Reachable
<1> HIDE DEF C
<1>6. IsClosed(Program, call.text, start_position, C)
  BY <1>2, <1>3, <1>4, <1>5, ClosedBySteps
<1>7. R \subseteq C
  BY <1>5, <1>6, ReachableLeast
<1> QED BY <1>7 DEF C

\* The list tells whether a match ends at its offset.
LEMMA EndsAt ==
    ASSUME TypeInv, IsRunning, NEW q \in start_position .. Length, NEW list,
           ToSet(list) = ListedAt(q)
    PROVE  q \in Ends(call, start_position) <=>
               /\ ContainsMatch(list)
               /\ ~call.require_text_end \/ q = Length
<1>1. ContainsMatch(list) <=> \E s \in ListedAt(q) : State(s).type = "MATCH"
  BY DEF ContainsMatch, ToSet
<1>2. ContainsMatch(list) <=>
         \E s \in States(Program) :
             /\ Type(Program, s) = "MATCH"
             /\ <<s, q>> \in Reachable(Program, call.text, start_position)
  BY <1>1 DEF ListedAt, Listed, State, Type
<1>3. q \in MatchEnds(call.program, call.text, start_position) <=>
         ContainsMatch(list)
  BY <1>2 DEF MatchEnds, Program, Length
<1> QED BY <1>3 DEF Ends, Length

LEMMA EndsType ==
    ASSUME TypeInv, IsRunning
    PROVE  Ends(call, start_position) \subseteq start_position .. Length
  BY DEF Ends, MatchEnds, Length

\* The listed states at q, once the states reached at q are known.
LEMMA FilledExact ==
    ASSUME TypeInv, ListInv, BuildInv, IsBuilding, work = <<>>,
           Reach(Offset) = MarkedBy(seen, generation)
    PROVE  /\ ToSet(Filled) = ListedAt(Offset)
           /\ \A s \in Reach(Offset) :
                 EpsilonMoves(Program, call.text, s, Offset)
                     \subseteq States(Program)
<1>1. IsExact(MarkedBy(seen, generation), MarkedBy(seen, generation), Filled,
              Offset)
  BY AllExpanded DEF BuildInv, BuildExact
<1>2. MarkedBy(seen, generation) \subseteq States(Program)
  BY DEF MarkedBy
<1>3. \A s : s \in ListedAt(Offset) <=>
               s \in Reach(Offset) /\ State(s).type \in Listed
  BY DEF ListedAt, Reach
<1> QED BY <1>1, <1>2, <1>3 DEF IsExact, ToSet

LEMMA EndSeedLevel ==
    ASSUME TypeInv, ListInv, LevelInv, EndSeed
    PROVE  /\ CurrentIsExact' /\ Unbroken' /\ FinishedWhenDone'
           /\ LongestIsMaximal' /\ EarlierStartsFail'
<1>1. /\ pc = "seed" /\ work = <<>>
      /\ longest_end' = LongestEnd(current, position)
      /\ pc' = IF position < Length THEN "read" ELSE "finish"
      /\ UNCHANGED <<call, current, start_position, position>>
  BY DEF EndSeed, lists
<1>2. /\ position = start_position /\ position \in start_position .. Length
      /\ start_position \in Nat /\ Length \in Nat
      /\ IsBuilding /\ IsRunning /\ Offset = position /\ Filled = current
  BY <1>1, RunningType
     DEF TypeInv, TypeOK, CursorType, Position, IsBuilding, IsRunning, Offset,
         Filled
<1>3. Reach(position) = MarkedBy(seen, generation)
  BY <1>1, SeedReach DEF LevelInv, BuildInv
<1>4. /\ ToSet(current) = ListedAt(position)
      /\ \A s \in Reach(position) :
            EpsilonMoves(Program, call.text, s, position) \subseteq States(Program)
  BY <1>1, <1>2, <1>3, FilledExact DEF LevelInv, BuildInv
<1>5. CurrentIsExact'
  BY <1>1, <1>4 DEF CurrentIsExact, ListedAt, Program, State
<1>6. Unbroken'
  <2>1. \A q \in start_position .. position : q = position
    BY <1>2
  <2> QED BY <1>1, <1>2, <1>4, <2>1 DEF Unbroken, Reach, Program, State
<1>7. FinishedWhenDone'
  BY <1>1, <1>2 DEF FinishedWhenDone, Length
<1>8. LongestIsMaximal'
  <2> DEFINE ends == {q \in Ends(call, start_position) :
                         pc' = "finish" \/ q <= position}
  <2>1. longest_end = NFA_INVALID_STATE
    BY <1>1 DEF LevelInv, SeedFresh
  <2>2. ends = {q \in Ends(call, start_position) : q = position}
    BY <1>1, <1>2, EndsType
  <2>3. position \in Ends(call, start_position) <=>
           ContainsMatch(current) /\ (~call.require_text_end \/ position = Length)
    BY <1>2, <1>4, EndsAt
  <2>4. IF ends = {} THEN longest_end' = NFA_INVALID_STATE
        ELSE longest_end' \in ends /\ \A q \in ends : q <= longest_end'
    BY <1>1, <1>2, <2>1, <2>2, <2>3 DEF LongestEnd
  <2> QED BY <1>1, <2>4 DEF LongestIsMaximal
<1>9. EarlierStartsFail'
  BY <1>1, <1>2 DEF LevelInv, EarlierStartsFail, IsRunning
<1> QED BY <1>5, <1>6, <1>7, <1>8, <1>9

LEMMA EndCharacterLevel ==
    ASSUME TypeInv, ListInv, LevelInv, EndCharacter
    PROVE  /\ CurrentIsExact' /\ Unbroken' /\ FinishedWhenDone'
           /\ LongestIsMaximal' /\ EarlierStartsFail'
<1>1. /\ pc = "scan" /\ list_index > Len(current)
      /\ current' = next
      /\ longest_end' = LongestEnd(next, position + 1)
      /\ position' = position + 1
      /\ pc' = IF next # <<>> /\ position + 1 < Length THEN "read" ELSE "finish"
      /\ UNCHANGED <<call, start_position>>
  BY DEF EndCharacter
<1>2. /\ position \in start_position .. Length /\ position < Length
      /\ start_position \in Nat /\ Length \in Nat
      /\ IsBuilding /\ IsRunning /\ Offset = position + 1 /\ Filled = next
      /\ work = <<>>
      /\ position + 1 \in start_position .. Length
  BY <1>1, RunningType
     DEF TypeInv, TypeOK, CursorType, Position, IsBuilding, IsRunning, Offset,
         Filled
<1>3. Reach(position + 1) = MarkedBy(seen, generation)
  BY <1>1, ScanReach DEF LevelInv, BuildInv
<1>4. /\ ToSet(next) = ListedAt(position + 1)
      /\ \A s \in Reach(position + 1) :
            EpsilonMoves(Program, call.text, s, position + 1)
                \subseteq States(Program)
  BY <1>1, <1>2, <1>3, FilledExact DEF LevelInv, BuildInv
<1>5. CurrentIsExact'
  BY <1>1, <1>4 DEF CurrentIsExact, ListedAt, Program, State
<1>6. Unbroken'
  <2>1. ASSUME NEW q \in start_position .. position + 1, NEW s \in Reach(q)
        PROVE  /\ EpsilonMoves(Program, call.text, s, q)
                     \subseteq States(Program)
               /\ q < position + 1 /\ Consumes(Program, call.text, s, q) =>
                     State(s).out1 \in States(Program)
    <3>1. CASE q = position + 1
      BY <1>2, <1>4, <3>1
    <3>2. CASE q = position
      <4>1. Consumes(Program, call.text, s, q) =>
               State(s).out1 \in MarkedBy(seen, generation)
        BY <1>1, <3>2, ScanMarks DEF LevelInv, BuildInv
      <4> QED BY <1>1, <1>2, <3>2, <4>1 DEF LevelInv, Unbroken, MarkedBy
    <3>3. CASE q < position
      BY <1>1, <1>2, <3>3 DEF LevelInv, Unbroken
    <3> QED BY <1>2, <3>1, <3>2, <3>3
  <2> QED BY <1>1, <2>1 DEF Unbroken, Reach, Program, State
<1>7. FinishedWhenDone'
  BY <1>1, <1>2 DEF FinishedWhenDone, Length
<1>8. LongestIsMaximal'
  <2> DEFINE all == Ends(call, start_position)
             before == {q \in all : q <= position}
             ends == {q \in all : pc' = "finish" \/ q <= position + 1}
  <2>1. IF before = {} THEN longest_end = NFA_INVALID_STATE
        ELSE longest_end \in before /\ \A q \in before : q <= longest_end
    BY <1>1 DEF LevelInv, LongestIsMaximal
  <2>2. position + 1 \in all <=>
           ContainsMatch(next) /\ (~call.require_text_end \/ position + 1 = Length)
    BY <1>2, <1>4, EndsAt
  <2>3. all \subseteq start_position .. Length
    BY <1>2, EndsType
  <2>4. pc' = "finish" => \A q \in all : q <= position + 1
    <3>1. CASE position + 1 = Length
      BY <1>2, <2>3, <3>1
    <3>2. CASE next = <<>>
      <4>1. \A s \in Reach(position + 1) : State(s).type \notin Listed
        BY <1>4, <3>2 DEF ListedAt, Reach, ToSet
      <4>2. \A c \in Reachable(Program, call.text, start_position) :
               c[2] <= position + 1
        BY <1>2, <4>1, NoneBeyond
      <4>3. ASSUME NEW q \in all
            PROVE  q <= position + 1
        <5>1. PICK s \in States(Program) :
                 <<s, q>> \in Reachable(Program, call.text, start_position)
          BY DEF Ends, MatchEnds, Program
        <5> QED BY <4>2, <5>1
      <4> QED BY <4>3
    <3> QED BY <1>1, <1>2, <3>1, <3>2
  <2> HIDE DEF all
  <2>5. \A q \in all : q \in ends <=> q \in before \/ q = position + 1
    BY <1>2, <2>3, <2>4
  <2>6. IF ends = {} THEN longest_end' = NFA_INVALID_STATE
        ELSE longest_end' \in ends /\ \A q \in ends : q <= longest_end'
    <3>1. CASE position + 1 \in all
      <4>1. longest_end' = position + 1
        BY <1>1, <2>2, <3>1 DEF LongestEnd
      <4>2. position + 1 \in ends /\ \A q \in ends : q <= position + 1
        BY <1>2, <2>3, <2>5, <3>1
      <4> QED BY <4>1, <4>2
    <3>2. CASE position + 1 \notin all
      <4>1. longest_end' = longest_end
        BY <1>1, <2>2, <3>2 DEF LongestEnd
      <4>2. ends = before
        BY <2>5, <3>2
      <4> QED BY <2>1, <4>1, <4>2
    <3> QED BY <3>1, <3>2
  <2> QED BY <1>1, <2>6 DEF LongestIsMaximal, all
<1>9. EarlierStartsFail'
  BY <1>1, <1>2 DEF LevelInv, EarlierStartsFail, IsRunning
<1> QED BY <1>5, <1>6, <1>7, <1>8, <1>9

-----------------------------------------------------------------------------
(* The layers of LevelInv above BuildInv, one kind of step at a time.      *)

RunInv == /\ SeedFresh /\ CurrentIsExact /\ Unbroken /\ FinishedWhenDone
          /\ LongestIsMaximal /\ EarlierStartsFail

\* A step in the middle of a character.
LEMMA SameRun ==
    ASSUME LevelInv, pc \in {"read", "scan", "follow"},
           pc' \in {"read", "scan", "follow"},
           UNCHANGED <<call, current, start_position, position, longest_end>>
    PROVE  RunInv'
<1>1. SeedFresh' /\ FinishedWhenDone'
  BY DEF SeedFresh, FinishedWhenDone
<1>2. CurrentIsExact'
  BY DEF LevelInv, CurrentIsExact, ListedAt, Program, State
<1>3. Unbroken'
  BY DEF LevelInv, Unbroken, Reach, Program, State
<1>4. LongestIsMaximal'
  BY DEF LevelInv, LongestIsMaximal
<1>5. EarlierStartsFail'
  BY DEF LevelInv, EarlierStartsFail, IsRunning
<1> QED BY <1>1, <1>2, <1>3, <1>4, <1>5 DEF RunInv

\* A step that fills the first list of a run, or begins it.
LEMMA SeedRun ==
    ASSUME LevelInv, IsRunning, pc' = "seed", longest_end' = NFA_INVALID_STATE,
           UNCHANGED <<call, start_position>>
    PROVE  RunInv'
  BY DEF LevelInv, RunInv, SeedFresh, CurrentIsExact, Unbroken,
         FinishedWhenDone, LongestIsMaximal, EarlierStartsFail, IsRunning

\* A step outside of a run.
LEMMA OutsideRun ==
    ASSUME pc' \in {"enter", "allocated", "run", "done"},
           pc' = "run" => EarlierStartsFail'
    PROVE  RunInv'
  BY DEF RunInv, SeedFresh, CurrentIsExact, Unbroken, FinishedWhenDone,
         LongestIsMaximal, EarlierStartsFail, IsRunning

\* A run that is over met no transition out of the program.
LEMMA NotBroken ==
    ASSUME TypeInv, LevelInv, pc = "finish"
    PROVE  ~IsBroken(Program, call.text, start_position)
<1> DEFINE R == Reachable(Program, call.text, start_position)
           Conf == Configurations(Program, call.text, start_position)
<1>1. /\ position \in start_position .. Length /\ IsRunning
      /\ start_position \in Nat /\ Length \in Nat
  BY RunningType DEF TypeInv, TypeOK, CursorType, Position, IsRunning
<1>2. \A c \in R : c[2] <= position
  <2>1. CASE position = Length
    BY <1>1, <2>1, ReachableType DEF Length
  <2>2. CASE current = <<>>
    <3>1. \A s \in Reach(position) : State(s).type \notin Listed
      BY <2>2 DEF LevelInv, CurrentIsExact, ListedAt, Reach, ToSet
    <3> QED BY <1>1, <3>1, NoneBeyond
  <2> QED BY <2>1, <2>2 DEF LevelInv, FinishedWhenDone
<1>3. ASSUME NEW c \in R, NEW d \in Moves(Program, call.text, c[1], c[2])
      PROVE  d \in Conf
  <2>1. /\ c[1] \in States(Program) /\ c[2] \in start_position .. position
        /\ c = <<c[1], c[2]>>
    BY <1>1, <1>2, ReachableType DEF Length
  <2>2. c[1] \in Reach(c[2])
    BY <2>1 DEF Reach
  <2>3. /\ EpsilonMoves(Program, call.text, c[1], c[2]) \subseteq States(Program)
        /\ c[2] < position /\ Consumes(Program, call.text, c[1], c[2]) =>
              State(c[1]).out1 \in States(Program)
    BY <2>1, <2>2 DEF LevelInv, Unbroken
  <2>4. CASE \E e \in EpsilonMoves(Program, call.text, c[1], c[2]) : d = <<e, c[2]>>
    BY <1>1, <2>1, <2>3, <2>4 DEF Configurations, Length
  <2>5. CASE /\ Consumes(Program, call.text, c[1], c[2])
             /\ d = <<Program.states[c[1]].out1, c[2] + 1>>
    <3>1. c[2] < Length
      BY <2>5 DEF Consumes, Length
    <3>2. c[2] # position
      <4>1. CASE position = Length
        BY <1>1, <2>1, <3>1, <4>1
      <4>2. CASE current = <<>>
        <5>1. State(c[1]).type \in Listed
          BY <2>5 DEF Consumes, Listed, State, Type
        <5> QED BY <2>1, <2>2, <4>2, <5>1
                DEF LevelInv, CurrentIsExact, ListedAt, Reach, ToSet
      <4> QED BY <4>1, <4>2 DEF LevelInv, FinishedWhenDone
    <3> QED BY <1>1, <2>1, <2>3, <2>5, <3>1, <3>2
            DEF Configurations, Length, State
  <2> QED BY <2>4, <2>5, MovesCases
<1> QED BY <1>3 DEF IsBroken

LEMMA NothingDecided ==
    ASSUME TypeInv, LevelInv, pc = "finish", longest_end = NFA_INVALID_STATE
    PROVE  ~Decides(call, start_position)
<1>1. Ends(call, start_position) = {}
  <2>1. NFA_INVALID_STATE \notin Ends(call, start_position)
    BY EndsType, RunningType
       DEF IsRunning, NFA_INVALID_STATE, TypeInv, TypeOK, CursorType
  <2> QED BY <2>1 DEF LevelInv, LongestIsMaximal
<1> QED BY <1>1, NotBroken DEF Decides, Program

LEMMA RunNext ==
    ASSUME TypeInv, ListInv, LevelInv, [Next]_vars
    PROVE  RunInv'
<1>1. CASE RefuseOutputs \/ RefuseText \/ RefuseStart \/ RefuseProgram
  <2>1. pc' = "done"
    BY <1>1 DEF RefuseOutputs, RefuseText, RefuseStart, RefuseProgram, Refuse
  <2> QED BY <2>1, OutsideRun
<1>2. CASE \/ AllocationFails \/ PopInvalid \/ FollowInvalid \/ ReportMatch
           \/ ReportNothing
  <2>1. pc' = "done"
    BY <1>2 DEF AllocationFails, PopInvalid, FollowInvalid, ReportMatch,
                ReportNothing, FailTransition, Return
  <2> QED BY <2>1, OutsideRun
<1>3. CASE Allocate
  BY <1>3, OutsideRun DEF Allocate
<1>4. CASE AllocationSucceeds
  <2>1. /\ pc = "allocated" /\ pc' = "run"
        /\ UNCHANGED <<call, start_position>>
    BY <1>4 DEF AllocationSucceeds, cursor
  <2>2. /\ start_position = call.search_start /\ start_position \in Nat
        /\ Length \in Nat
        /\ call.require_text_end => call.search_start = 0
    BY <2>1, RunningType DEF TypeInv, TypeOK, CursorType, Position, Calls
  <2>3. \A s \in Starts(call) : ~(s < start_position)
    BY <2>2 DEF Starts, Length
  <2>4. EarlierStartsFail'
    BY <2>1, <2>3 DEF EarlierStartsFail
  <2> QED BY <2>1, <2>4, OutsideRun
<1>5. CASE BeginRun
  <2>1. IsRunning /\ pc' = "seed" /\ longest_end' = NFA_INVALID_STATE
        /\ UNCHANGED <<call, start_position>>
    BY <1>5 DEF BeginRun, IsRunning
  <2> QED BY <2>1, SeedRun
<1>6. CASE PopSplit \/ PopPassing \/ PopBlocked \/ PopListed
  <2>1. /\ pc \in {"seed", "follow"} /\ pc' = pc
        /\ pc = "follow" => current' = current
        /\ UNCHANGED <<call, start_position, position, longest_end>>
    BY <1>6 DEF PopSplit, PopPassing, PopBlocked, PopListed, IsFilling, cursor
  <2>2. CASE pc = "seed"
    <3>1. longest_end = NFA_INVALID_STATE
      BY <2>2 DEF LevelInv, SeedFresh
    <3> QED BY <2>1, <2>2, <3>1, SeedRun DEF IsRunning
  <2>3. CASE pc = "follow"
    BY <2>1, <2>3, SameRun
  <2> QED BY <2>1, <2>2, <2>3
<1>7. CASE EndSeed
  <2>1. pc' # "seed"
    BY <1>7 DEF EndSeed
  <2> QED BY <1>7, <2>1, EndSeedLevel DEF RunInv, SeedFresh
<1>8. CASE BeginCharacter
  <2>1. /\ pc = "read" /\ pc' = "scan"
        /\ UNCHANGED <<call, current, start_position, position, longest_end>>
    BY <1>8 DEF BeginCharacter
  <2> QED BY <2>1, SameRun
<1>9. CASE FollowState \/ SkipState \/ EndFollow
  <2>1. /\ pc \in {"scan", "follow"} /\ pc' \in {"scan", "follow"}
        /\ UNCHANGED <<call, current, start_position, position, longest_end>>
    BY <1>9 DEF FollowState, SkipState, EndFollow, IsScanning, cursor, lists
  <2> QED BY <2>1, SameRun
<1>10. CASE EndCharacter
  <2>1. pc' # "seed"
    BY <1>10 DEF EndCharacter
  <2> QED BY <1>10, <2>1, EndCharacterLevel DEF RunInv, SeedFresh
<1>11. CASE TryNextStart
  <2>1. /\ pc = "finish" /\ pc' = "run" /\ longest_end = NFA_INVALID_STATE
        /\ start_position' = start_position + 1 /\ call' = call
    BY <1>11 DEF TryNextStart
  <2>2. ~Decides(call, start_position)
    BY <2>1, NothingDecided
  <2>3. /\ start_position \in Nat
        /\ call.search_start \in Nat /\ Len(call.text) \in Nat
    BY <2>1, RunningType, RunnableCall DEF TypeInv, TypeOK, CursorType
  <2>4. EarlierStartsFail'
    BY <2>1, <2>2, <2>3 DEF LevelInv, EarlierStartsFail, IsRunning, Starts
  <2> QED BY <2>1, <2>4, OutsideRun
<1>12. CASE UNCHANGED vars
  <2>1. UNCHANGED <<call, pc, current, start_position, position, longest_end>>
    BY <1>12 DEF vars, lists, cursor
  <2>2. CurrentIsExact' /\ FinishedWhenDone' /\ SeedFresh'
    BY <2>1 DEF LevelInv, CurrentIsExact, ListedAt, Program, State,
                FinishedWhenDone, SeedFresh, Length
  <2>3. Unbroken'
    BY <2>1 DEF LevelInv, Unbroken, Reach, Program, State
  <2>4. LongestIsMaximal' /\ EarlierStartsFail'
    BY <2>1 DEF LevelInv, LongestIsMaximal, EarlierStartsFail, IsRunning
  <2> QED BY <2>2, <2>3, <2>4 DEF RunInv
<1> QED
  BY <1>1, <1>2, <1>3, <1>4, <1>5, <1>6, <1>7, <1>8, <1>9, <1>10, <1>11, <1>12
     DEF Next

LEMMA LevelInit == Init => LevelInv
  BY DEF Init, LevelInv, BuildExact, MovesMade, StartMarked, SeedFresh,
         CurrentIsExact, Unbroken, FinishedWhenDone, LongestIsMaximal,
         EarlierStartsFail, IsBuilding, IsRunning

\* The inductive invariant.
THEOREM Invariant == Spec => []IInv
<1>1. Init => IInv
  BY TypeInit, ListInit, LevelInit DEF IInv
<1>2. IInv /\ [Next]_vars => IInv'
  <2> SUFFICES ASSUME IInv, [Next]_vars
               PROVE  IInv'
    OBVIOUS
  <2>1. TypeInv' /\ ListInv'
    BY TypeNext, ListNext DEF IInv
  <2>2. BuildInv' /\ RunInv'
    BY BuildNext, RunNext DEF IInv
  <2>3. LevelInv'
    BY <2>2 DEF LevelInv, BuildInv, RunInv
  <2> QED BY <2>1, <2>3 DEF IInv
<1> QED BY <1>1, <1>2, PTL DEF Spec

(* No mark of an older list counts for the list under construction: what   *)
(* is marked is on the stack or was handled for this list, and no state is *)
(* in the two of them twice, for every program and every UINT_MAX.         *)
THEOREM NoMarkIsStale == Spec => []MarksAreOfThisList
<1>1. IInv => MarksAreOfThisList
  <2> SUFFICES ASSUME IInv, IsBuilding
               PROVE  /\ IsInjective(Filled \o work)
                      /\ ToSet(Filled \o work) \subseteq Marked
                      /\ \A s \in Marked \ ToSet(work) :
                            /\ State(s).type \in Listed => s \in ToSet(Filled)
                            /\ EpsilonMoves(Program, call.text, s, Offset)
                                  \subseteq Marked
    BY DEF MarksAreOfThisList, IsBuilding
  <2>1. /\ IsInjective(Filled \o work)
        /\ ToSet(Filled \o work) \subseteq Marked
    BY NoStateEntersTwice DEF IInv
  <2>2. IsExact(Marked, Expanded(work, seen, generation), Filled, Offset)
    BY DEF IInv, LevelInv, BuildExact, Marked, MarkedBy
  <2>3. ASSUME NEW s \in Marked \ ToSet(work)
        PROVE  /\ State(s).type \in Listed => s \in ToSet(Filled)
               /\ EpsilonMoves(Program, call.text, s, Offset) \subseteq Marked
    <3>1. s \in Expanded(work, seen, generation)
      BY DEF Expanded, Marked, MarkedBy, ToSet
    <3>2. State(s).type \in Listed => \E i \in DOMAIN Filled : Filled[i] = s
      BY <2>2, <3>1 DEF IsExact
    <3>3. EpsilonMoves(Program, call.text, s, Offset) \subseteq Marked
      BY <2>2, <3>1 DEF IsExact
    <3> QED BY <3>2, <3>3 DEF ToSet
  <2> QED BY <2>1, <2>3
<1> QED BY <1>1, Invariant, PTL

(* Between two characters the state list is the reference semantics' set   *)
(* of states, whatever lists were built before it.                         *)
THEOREM ListIsExact == Spec => []CurrentIsExact
<1>1. IInv => CurrentIsExact
  BY DEF IInv, LevelInv
<1> QED BY <1>1, Invariant, PTL

(* The end a run reports is the longest there is.                          *)
THEOREM LongestEndFound == Spec => []LongestIsMaximal
<1>1. IInv => LongestIsMaximal
  BY DEF IInv, LevelInv
<1> QED BY <1>1, Invariant, PTL

(* The search passes over a start only if no match begins there and the    *)
(* run from it met no invalid transition.                                  *)
THEOREM SearchIsLeftmost == Spec => []EarlierStartsFail
<1>1. IInv => EarlierStartsFail
  BY DEF IInv, LevelInv
<1> QED BY <1>1, Invariant, PTL
-----------------------------------------------------------------------------
(* REFINEMENT                                                              *)
(* NfaVm implements MatchSpec: every way the detailed call ends is an      *)
(* answer the abstract call may give, and every other step stutters.       *)
-----------------------------------------------------------------------------
(* The instance means by its operators what NfaVm means by them.           *)

LEMMA SameReachable ==
    ASSUME NEW p, NEW t, NEW from
    PROVE  Abs!Reachable(p, t, from) = Reachable(p, t, from)
<1>1. Abs!Configurations(p, t, from) = Configurations(p, t, from)
  BY DEF Abs!Configurations, Configurations, Abs!States, States
<1>2. \A s, q : Abs!EpsilonMoves(p, t, s, q) = EpsilonMoves(p, t, s, q)
  BY DEF Abs!EpsilonMoves, EpsilonMoves, Abs!Type, Type
<1>3. \A s, q : Abs!Consumes(p, t, s, q) <=> Consumes(p, t, s, q)
  BY DEF Abs!Consumes, Consumes, Abs!Type, Type
<1>4. \A s, q : Abs!Moves(p, t, s, q) = Moves(p, t, s, q)
  BY <1>2, <1>3 DEF Abs!Moves, Moves
<1>5. \A C : Abs!IsClosed(p, t, from, C) <=> IsClosed(p, t, from, C)
  BY <1>1, <1>4 DEF Abs!IsClosed, IsClosed
<1> QED BY <1>1, <1>5 DEF Abs!Reachable, Reachable

LEMMA SameBroken ==
    ASSUME NEW p, NEW t, NEW from
    PROVE  Abs!IsBroken(p, t, from) <=> IsBroken(p, t, from)
<1>1. Abs!Configurations(p, t, from) = Configurations(p, t, from)
  BY DEF Abs!Configurations, Configurations, Abs!States, States
<1>2. \A s, q : Abs!EpsilonMoves(p, t, s, q) = EpsilonMoves(p, t, s, q)
  BY DEF Abs!EpsilonMoves, EpsilonMoves, Abs!Type, Type
<1>3. \A s, q : Abs!Consumes(p, t, s, q) <=> Consumes(p, t, s, q)
  BY DEF Abs!Consumes, Consumes, Abs!Type, Type
<1>4. \A s, q : Abs!Moves(p, t, s, q) = Moves(p, t, s, q)
  BY <1>2, <1>3 DEF Abs!Moves, Moves
<1> QED BY <1>1, <1>4, SameReachable DEF Abs!IsBroken, IsBroken

LEMMA SameEnds ==
    ASSUME NEW c, NEW from
    PROVE  Abs!Ends(c, from) = Ends(c, from)
<1>1. \A p, t : Abs!MatchEnds(p, t, from) = MatchEnds(p, t, from)
  BY SameReachable
     DEF Abs!MatchEnds, MatchEnds, Abs!States, States, Abs!Type, Type
<1> QED BY <1>1 DEF Abs!Ends, Ends

LEMMA SameDecides ==
    ASSUME NEW c, NEW from
    PROVE  Abs!Decides(c, from) <=> Decides(c, from)
  BY SameBroken, SameEnds DEF Abs!Decides, Decides

LEMMA SameStarts ==
    ASSUME NEW c
    PROVE  Abs!Starts(c) = Starts(c)
  BY DEF Abs!Starts, Starts

LEMMA SameLegal ==
    ASSUME NEW c
    PROVE  Abs!IsLegal(c) <=> IsLegal(c)
  BY DEF Abs!IsLegal, IsLegal, Abs!IsRunnable, IsRunnable, Abs!States, States

LEMMA SameFailed ==
    ASSUME NEW c, NEW why
    PROVE  /\ Abs!Failed(c, why) = Failed(c, why)
           /\ Abs!NotFound(c) = NotFound(c)
  BY DEF Abs!Failed, Failed, Abs!NothingIn, NothingIn, Abs!EmptyMatch,
         EmptyMatch, Abs!NotFound, NotFound, Abs!NoError, NoError

LEMMA SameDecision ==
    ASSUME NEW c, NEW a, Decision(c, a)
    PROVE  Abs!Decision(c, a)
<1>1. CASE /\ \A s \in Starts(c) : ~Decides(c, s)
           /\ a = NotFound(c)
  BY <1>1, SameStarts, SameDecides, SameFailed DEF Abs!Decision
<1>2. ASSUME NEW from \in Starts(c), IsFirst(c, from),
             \/ /\ IsBroken(c.program, c.text, from)
                /\ a = Failed(c, "NFA contains an invalid transition")
             \/ /\ ~IsBroken(c.program, c.text, from)
                /\ \E to \in Ends(c, from) :
                      IsLongest(c, from, to) /\ a = Found(c, from, to)
      PROVE  Abs!Decision(c, a)
  <2>1. Abs!IsFirst(c, from)
    BY <1>2, SameStarts, SameDecides DEF Abs!IsFirst, IsFirst
  <2>2. CASE /\ IsBroken(c.program, c.text, from)
             /\ a = Failed(c, "NFA contains an invalid transition")
    BY <1>2, <2>1, <2>2, SameStarts, SameBroken, SameFailed DEF Abs!Decision
  <2>3. ASSUME ~IsBroken(c.program, c.text, from),
               NEW to \in Ends(c, from), IsLongest(c, from, to),
               a = Found(c, from, to)
        PROVE  Abs!Decision(c, a)
    <3>1. Abs!IsLongest(c, from, to)
      BY <2>3, SameEnds DEF Abs!IsLongest, IsLongest
    <3>2. a = Abs!Found(c, from, to)
      BY <2>3 DEF Abs!Found, Found, Abs!NoError, NoError
    <3>3. to \in Abs!Ends(c, from) /\ from \in Abs!Starts(c)
      BY <2>3, SameEnds, SameStarts
    <3>4. ~Abs!IsBroken(c.program, c.text, from)
      BY <2>3, SameBroken
    <3> QED BY <2>1, <3>1, <3>2, <3>3, <3>4 DEF Abs!Decision
  <2> QED BY <1>2, <2>2, <2>3
<1> QED BY <1>1, <1>2 DEF Decision
-----------------------------------------------------------------------------
(* The ways the call ends.                                                 *)

Outcome == [error |-> error, matched |-> matched, match |-> match]

LEMMA RefusalAnswers ==
    ASSUME TypeInv,
           RefuseOutputs \/ RefuseText \/ RefuseStart \/ RefuseProgram
    PROVE  Refusal(call, Outcome')
<1>1. Outcome'.error = error' /\ Outcome'.matched = matched'
  BY DEF Outcome
<1>2. call \in Calls
  BY DEF TypeInv, TypeOK, ControlType
<1>3. error' \in VmErrors
  BY DEF RefuseOutputs, RefuseText, RefuseStart, RefuseProgram, Refuse, VmErrors
<1>4. matched' # TRUE
  <2>1. CASE RefuseOutputs
    <3>1. matched' = NULL
      BY <2>1, Zenon DEF RefuseOutputs, Refuse, TypeInv, Phase
    <3>2. NULL # TRUE
      BY CallsAssumption, Zenon
    <3> QED BY <3>1, <3>2, Zenon
  <2>2. CASE RefuseText \/ RefuseStart \/ RefuseProgram
    BY <2>2, Zenon DEF RefuseText, RefuseStart, RefuseProgram, ClearOutputs
  <2> QED BY <2>1, <2>2
<1>5. ~IsLegal(call)
  <2>1. CASE RefuseOutputs \/ RefuseText
    BY <2>1 DEF RefuseOutputs, RefuseText, IsLegal
  <2>2. CASE RefuseStart \/ RefuseProgram
    <3> SUFFICES ASSUME IsLegal(call)
                 PROVE  FALSE
      OBVIOUS
    <3>1. /\ Program.count \in Nat \ {0} /\ Program.start \in States(Program)
          /\ call.search_start \in Nat /\ Length \in Nat
          /\ call.search_start <= Length
      BY <1>2, RunnableCall DEF Program, Length
    <3>2. Program.start \in Nat /\ Program.start < Program.count
      BY <3>1 DEF States
    <3>3. Program # NULL
      BY DEF IsLegal, Program
    <3>4. CASE RefuseStart
      <4>1. call.search_start > Length
        BY <3>4 DEF RefuseStart
      <4> QED BY <3>1, <4>1
    <3>5. CASE RefuseProgram
      <4>1. \/ Program.count = 0 \/ Program.start = NFA_INVALID_STATE
            \/ Program.start >= Program.count
        BY <3>3, <3>5 DEF RefuseProgram
      <4> QED BY <3>1, <3>2, <4>1 DEF NFA_INVALID_STATE
    <3> QED BY <2>2, <3>4, <3>5
  <2> QED BY <2>1, <2>2
<1> QED BY <1>1, <1>3, <1>4, <1>5 DEF Refusal

\* A failure after the entry leaves the outputs as they were cleared.
LEMMA FailureOutcome ==
    ASSUME TypeInv, pc \notin {"enter", "done"}, NEW why, error' = why,
           UNCHANGED <<call, matched, match>>
    PROVE  Outcome' = Failed(call, why)
<1>1. matched = FALSE /\ match = NothingIn(call)
  BY Zenon DEF TypeInv, Phase
<1> QED BY <1>1, Zenon DEF Outcome, Failed

LEMMA AllocationAnswers ==
    ASSUME TypeInv, AllocationFails
    PROVE  OutOfMemory(call, Outcome')
<1>1. /\ pc = "allocated" /\ UNCHANGED <<call, matched, match>>
      /\ error' = "failed to allocate VM state lists"
  BY Zenon DEF AllocationFails, Return
<1>2. IsLegal(call)
  BY <1>1, RunningType
<1>3. Outcome' = Failed(call, "failed to allocate VM state lists")
  BY <1>1, FailureOutcome
<1> QED BY <1>2, <1>3 DEF OutOfMemory

\* The start a run is from is the first that decides, if it does.
LEMMA FirstStart ==
    ASSUME TypeInv, LevelInv, IsRunning, Decides(call, start_position)
    PROVE  IsFirst(call, start_position) /\ start_position \in Starts(call)
<1>1. start_position \in Starts(call) /\ start_position \in Nat
  BY DEF TypeInv, TypeOK, CursorType, Position, IsRunning
<1>2. \A s \in Starts(call) : s \in Nat
  BY RunningType, RunnableCall DEF IsRunning, Starts
<1> QED BY <1>1, <1>2 DEF LevelInv, EarlierStartsFail, IsFirst

LEMMA BrokenAnswers ==
    ASSUME TypeInv, LevelInv, IsRunning,
           IsBroken(Program, call.text, start_position),
           Outcome' = Failed(call, "NFA contains an invalid transition")
    PROVE  Decision(call, Outcome')
<1>1. IsFirst(call, start_position) /\ start_position \in Starts(call)
  BY FirstStart DEF Decides, Program
<1> QED BY <1>1 DEF Decision, Program

\* A move out of the program.
LEMMA BrokenBy ==
    ASSUME NEW p, NEW t, NEW from, NEW s, NEW q, NEW e, NEW r,
           <<s, q>> \in Reachable(p, t, from), <<e, r>> \in Moves(p, t, s, q),
           e \notin States(p)
    PROVE  IsBroken(p, t, from)
<1>1. <<e, r>> \notin Configurations(p, t, from)
  BY DEF Configurations
<1>2. <<s, q>>[1] = s /\ <<s, q>>[2] = q
  OBVIOUS
<1> QED BY <1>1, <1>2 DEF IsBroken

LEMMA InvalidTarget ==
    ASSUME TypeInv, IsRunning, NEW e, IsInvalid(e)
    PROVE  e \notin States(Program)
<1>1. Program.count \in Nat
  BY RunningType DEF IsRunning
<1> QED BY <1>1 DEF IsInvalid, States, NFA_INVALID_STATE

LEMMA PopInvalidAnswers ==
    ASSUME TypeInv, ListInv, LevelInv, PopInvalid
    PROVE  Decision(call, Outcome')
<1> DEFINE s == Last(work)
           state == State(Last(work))
<1>1. /\ IsFilling /\ pc \in {"seed", "follow"} /\ work # <<>>
      /\ UNCHANGED <<call, matched, match>>
      /\ error' = "NFA contains an invalid transition"
      /\ pc \notin {"enter", "done"} /\ IsBuilding /\ IsRunning
  BY DEF PopInvalid, IsFilling, FailTransition, Return, IsBuilding, IsRunning
<1>2. Outcome' = Failed(call, "NFA contains an invalid transition")
  BY <1>1, FailureOutcome
<1>3. IsFill(States(Program), Filled, work, seen, generation)
  BY <1>1 DEF ListInv, BuildDistinct
<1>4. s \in MarkedBy(seen, generation)
  BY <1>1, <1>3, PopSets
<1>5. <<s, Offset>> \in Reachable(Program, call.text, start_position)
  BY <1>1, <1>4 DEF LevelInv, BuildExact, IsExact, Reach
<1>6. PICK e \in EpsilonMoves(Program, call.text, s, Offset) : IsInvalid(e)
  <2>1. CASE state.type = "SPLIT"
    BY <2>1 DEF PopInvalid, EpsilonMoves, Type, State, Passes
  <2>2. CASE Passes(state.type) /\ IsInvalid(state.out1)
    BY <2>2 DEF EpsilonMoves, Type, State, Passes, Length
  <2> QED BY <2>1, <2>2 DEF PopInvalid
<1>7. <<e, Offset>> \in Moves(Program, call.text, s, Offset)
  BY DEF Moves
<1>8. e \notin States(Program)
  BY <1>1, <1>6, InvalidTarget
<1>9. IsBroken(Program, call.text, start_position)
  BY <1>5, <1>7, <1>8, BrokenBy
<1> QED BY <1>1, <1>2, <1>9, BrokenAnswers

LEMMA FollowInvalidAnswers ==
    ASSUME TypeInv, ListInv, LevelInv, FollowInvalid
    PROVE  Decision(call, Outcome')
<1> DEFINE s == current[list_index]
<1>1. /\ IsScanning /\ pc = "scan"
      /\ MatchesCharacter(State(s)) /\ IsInvalid(State(s).out1)
      /\ UNCHANGED <<call, matched, match>>
      /\ error' = "NFA contains an invalid transition"
      /\ pc \notin {"enter", "done"} /\ IsRunning
  BY DEF FollowInvalid, IsScanning, FailTransition, Return, IsRunning
<1>2. Outcome' = Failed(call, "NFA contains an invalid transition")
  BY <1>1, FailureOutcome
<1>3. s \in ToSet(current)
  BY <1>1, ScanType DEF ToSet
<1>4. <<s, position>> \in Reachable(Program, call.text, start_position)
  BY <1>1, <1>3 DEF LevelInv, CurrentIsExact, ListedAt
<1>5. position < Len(call.text)
  BY <1>1 DEF TypeInv, Position, Length
<1>6. Consumes(Program, call.text, s, position)
  BY <1>1, <1>5 DEF Consumes, MatchesCharacter, Type, State
<1>7. <<State(s).out1, position + 1>> \in Moves(Program, call.text, s, position)
  BY <1>6 DEF Moves, State
<1>8. State(s).out1 \notin States(Program)
  BY <1>1, InvalidTarget
<1>9. IsBroken(Program, call.text, start_position)
  BY <1>4, <1>7, <1>8, BrokenBy
<1> QED BY <1>1, <1>2, <1>9, BrokenAnswers

LEMMA MatchAnswers ==
    ASSUME TypeInv, LevelInv, ReportMatch
    PROVE  Decision(call, Outcome')
<1>1. /\ pc = "finish" /\ longest_end # NFA_INVALID_STATE
      /\ matched' = TRUE
      /\ match' = IF call.require_text_end THEN match
                  ELSE [start |-> start_position, end |-> longest_end]
      /\ error' = error /\ IsRunning
  BY Zenon DEF ReportMatch, IsRunning
<1>2. error = NoError /\ match = NothingIn(call)
  BY <1>1, Zenon DEF TypeInv, Phase
<1>3. Outcome' = Found(call, start_position, longest_end)
  <2>1. match' = IF call.require_text_end THEN NULL
                 ELSE [start |-> start_position, end |-> longest_end]
    BY <1>1, <1>2 DEF NothingIn
  <2> QED BY <1>1, <1>2, <2>1, Zenon DEF Outcome, Found
<1>4. /\ longest_end \in Ends(call, start_position)
      /\ \A q \in Ends(call, start_position) : q <= longest_end
  BY <1>1 DEF LevelInv, LongestIsMaximal
<1>5. IsLongest(call, start_position, longest_end)
  BY <1>4 DEF IsLongest
<1>6. ~IsBroken(Program, call.text, start_position)
  BY <1>1, NotBroken
<1>7. IsFirst(call, start_position) /\ start_position \in Starts(call)
  BY <1>1, <1>4, FirstStart DEF Decides
<1> QED BY <1>3, <1>4, <1>5, <1>6, <1>7 DEF Decision, Program

LEMMA NothingAnswers ==
    ASSUME TypeInv, LevelInv, ReportNothing
    PROVE  Decision(call, Outcome')
<1>1. /\ pc = "finish" /\ longest_end = NFA_INVALID_STATE
      /\ call.require_text_end \/ start_position = Length
      /\ UNCHANGED <<call, matched, match, error>>
      /\ IsRunning /\ pc \notin {"enter", "done"}
  BY DEF ReportNothing, Return, results, IsRunning
<1>2. error' = NoError
  BY <1>1 DEF TypeInv, Phase
<1>3. Outcome' = NotFound(call)
  BY <1>1, <1>2, FailureOutcome DEF NotFound
<1>4. /\ start_position \in Starts(call) /\ start_position \in Nat
      /\ call.search_start \in Nat /\ Len(call.text) \in Nat
  BY <1>1, RunningType, RunnableCall DEF TypeInv, TypeOK, CursorType, Position
<1>5. ~Decides(call, start_position)
  BY <1>1, NothingDecided
<1>6. ASSUME NEW s \in Starts(call)
      PROVE  ~Decides(call, s)
  <2>1. s \in Nat /\ s <= start_position
    BY <1>1, <1>4 DEF Starts, Length
  <2>2. CASE s = start_position
    BY <1>5, <2>2
  <2>3. CASE s < start_position
    BY <1>1, <2>3 DEF LevelInv, EarlierStartsFail
  <2> QED BY <1>4, <2>1, <2>2, <2>3
<1> QED BY <1>3, <1>6 DEF Decision
-----------------------------------------------------------------------------
\* The step that ends the call is the abstract one.
LEMMA EndAnswers ==
    ASSUME TypeInv, pc # "done", pc' = "done", call' = call,
           error' \in VmErrors \cup {NoError},
           \/ Refusal(call, Outcome')
           \/ OutOfMemory(call, Outcome')
           \/ IsLegal(call) /\ Decision(call, Outcome')
    PROVE  Abs!Answer
<1>1. Answer = Abs!Pending
  BY DEF Answer, Abs!Pending
<1>2. Answer' = Outcome'
  BY Zenon DEF Answer, Outcome
<1>3. Answer' # Abs!Pending
  <2>1. Answer'.error = error'
    BY <1>2 DEF Outcome
  <2>2. Abs!Pending.error = "pending"
    BY DEF Abs!Pending
  <2>3. error' # "pending"
    BY DEF VmErrors, NoError
  <2> QED BY <2>1, <2>2, <2>3, Zenon
<1>4. CASE Refusal(call, Outcome')
  <2>1. Abs!Refusal(call, Answer')
    BY <1>2, <1>4, SameLegal DEF Abs!Refusal, Refusal, Abs!VmErrors, VmErrors
  <2> QED BY <1>1, <1>3, <2>1 DEF Abs!Answer
<1>5. CASE OutOfMemory(call, Outcome')
  <2>1. Abs!OutOfMemory(call, Answer')
    BY <1>2, <1>5, SameLegal, SameFailed DEF Abs!OutOfMemory, OutOfMemory
  <2> QED BY <1>1, <1>3, <2>1 DEF Abs!Answer
<1>6. CASE IsLegal(call) /\ Decision(call, Outcome')
  <2>1. Abs!IsLegal(call) /\ Abs!Decision(call, Answer')
    BY <1>2, <1>6, SameLegal, SameDecision
  <2> QED BY <1>1, <1>3, <2>1 DEF Abs!Answer
<1> QED BY <1>4, <1>5, <1>6

\* Until it ends the call has no answer.
LEMMA Pending ==
    ASSUME pc # "done", pc' # "done"
    PROVE  Answer' = Answer
  BY DEF Answer

LEMMA StepAnswers ==
    ASSUME IInv, IInv', [Next]_vars
    PROVE  [Abs!Answer]_(Abs!vars)
<1>1. TypeInv /\ ListInv /\ LevelInv
  BY DEF IInv
<1>2. error' \in VmErrors \cup {NoError}
  BY DEF IInv, TypeInv, TypeOK, ResultType
<1>3. CASE RefuseOutputs \/ RefuseText \/ RefuseStart \/ RefuseProgram
  <2>1. pc # "done" /\ pc' = "done" /\ call' = call
    BY <1>3 DEF RefuseOutputs, RefuseText, RefuseStart, RefuseProgram, Refuse
  <2>2. Refusal(call, Outcome')
    BY <1>1, <1>3, RefusalAnswers
  <2> QED BY <1>1, <1>2, <2>1, <2>2, EndAnswers
<1>4. CASE AllocationFails
  <2>1. pc # "done" /\ pc' = "done" /\ call' = call
    BY <1>4 DEF AllocationFails, Return
  <2> QED BY <1>1, <1>2, <1>4, <2>1, AllocationAnswers, EndAnswers
<1>5. CASE PopInvalid \/ FollowInvalid \/ ReportMatch \/ ReportNothing
  <2>1. /\ pc # "done" /\ pc # "enter" /\ pc' = "done" /\ call' = call
    BY <1>5 DEF PopInvalid, FollowInvalid, ReportMatch, ReportNothing,
                FailTransition, Return, IsFilling, IsScanning
  <2>2. IsLegal(call)
    BY <1>1, <2>1, RunningType
  <2>3. Decision(call, Outcome')
    BY <1>1, <1>5, PopInvalidAnswers, FollowInvalidAnswers, MatchAnswers,
       NothingAnswers
  <2> QED BY <1>1, <1>2, <2>1, <2>2, <2>3, EndAnswers
<1>6. CASE \/ Allocate \/ AllocationSucceeds \/ BeginRun \/ PopSplit
           \/ PopPassing \/ PopBlocked \/ PopListed \/ EndSeed
           \/ BeginCharacter \/ FollowState \/ SkipState \/ EndFollow
           \/ EndCharacter \/ TryNextStart
  <2>1. pc # "done" /\ pc' # "done" /\ call' = call
    BY <1>6 DEF Allocate, AllocationSucceeds, BeginRun, PopSplit, PopPassing,
                PopBlocked, PopListed, EndSeed, BeginCharacter, FollowState,
                SkipState, EndFollow, EndCharacter, TryNextStart, IsFilling,
                IsScanning
  <2>2. Answer' = Answer
    BY <2>1, Pending
  <2> QED BY <2>1, <2>2 DEF Abs!vars
<1>7. CASE UNCHANGED vars
  <2>1. UNCHANGED <<call, pc, error, matched, match>>
    BY <1>7 DEF vars, results
  <2> QED BY <2>1, Zenon DEF Abs!vars, Answer
<1> QED BY <1>3, <1>4, <1>5, <1>6, <1>7 DEF Next

(* The call gives the answer of the reference semantics: the leftmost      *)
(* start that matches with its longest end, nothing if there is none, an   *)
(* error if the program is left on the way or memory runs out, a refusal   *)
(* of an illegal call; and it gives it once.                               *)
THEOREM AnswersAreRight == Spec => ImplementsMatchSpec
<1>1. Init => Abs!Init
  BY Zenon DEF Init, Abs!Init, Abs!Calls, Calls, Answer, Abs!Pending
<1>2. IInv /\ IInv' /\ [Next]_vars => [Abs!Answer]_(Abs!vars)
  BY StepAnswers
<1> QED BY <1>1, <1>2, Invariant, PTL DEF Spec, Abs!Safety, ImplementsMatchSpec
-----------------------------------------------------------------------------
(* What RegexFindAll takes from here.                                      *)

\* The matches of a call's program in its text, as FindAllSpec has them.
MatchesOf(c) == [i \in 0 .. Len(c.text) |-> MatchEnds(c.program, c.text, i)]

(* One search of regex_find_all, when no transition leaves the program:    *)
(* the first start at or after search_start that has a match, with its     *)
(* longest end, or nothing when there is none.                             *)
THEOREM SearchContract ==
    ASSUME NEW c \in Calls, IsLegal(c), ~c.require_text_end, NEW a,
           \A s \in Starts(c) : ~IsBroken(c.program, c.text, s),
           Decision(c, a)
    PROVE  \/ /\ \A s \in c.search_start .. Len(c.text) : MatchesOf(c)[s] = {}
              /\ a = NotFound(c)
           \/ \E from \in c.search_start .. Len(c.text) :
                 \E to \in MatchesOf(c)[from] :
                    /\ \A s \in c.search_start .. from - 1 : MatchesOf(c)[s] = {}
                    /\ \A e \in MatchesOf(c)[from] : e <= to
                    /\ a = Found(c, from, to)
<1>1. /\ Starts(c) = c.search_start .. Len(c.text)
      /\ c.search_start \in Nat /\ Len(c.text) \in Nat
  BY RunnableCall DEF Starts
<1>2. \A s \in Starts(c) : /\ MatchesOf(c)[s] = Ends(c, s)
                           /\ Decides(c, s) <=> MatchesOf(c)[s] # {}
  BY <1>1 DEF MatchesOf, Ends, Decides
<1>3. CASE (\A s \in Starts(c) : ~Decides(c, s)) /\ a = NotFound(c)
  BY <1>1, <1>2, <1>3
<1>4. ASSUME NEW from \in Starts(c), IsFirst(c, from),
             NEW to \in Ends(c, from), IsLongest(c, from, to),
             a = Found(c, from, to)
      PROVE  \E f \in c.search_start .. Len(c.text) :
                 \E e \in MatchesOf(c)[f] :
                    /\ \A s \in c.search_start .. f - 1 : MatchesOf(c)[s] = {}
                    /\ \A q \in MatchesOf(c)[f] : q <= e
                    /\ a = Found(c, f, e)
  <2>1. ASSUME NEW s \in c.search_start .. from - 1
        PROVE  MatchesOf(c)[s] = {}
    <3>1. s \in Starts(c) /\ ~(from <= s)
      BY <1>1
    <3> QED BY <1>2, <1>4, <3>1 DEF IsFirst
  <2> QED BY <1>1, <1>2, <1>4, <2>1 DEF IsLongest
<1> QED BY <1>1, <1>3, <1>4 DEF Decision
=============================================================================
