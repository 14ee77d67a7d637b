----------------------------- MODULE RegexProofs -----------------------------
(***************************************************************************)
(* That regex.c owns every block once, reports each call's own result, and *)
(* answers for the pattern of the handle, for any patterns, texts, handles *)
(* and addresses, and whatever malloc returns.                             *)
(*                                                                         *)
(* The invariant, IInv, says what a call knows at each place it can be at. *)
(* The argument for BlocksOwnedOnce is one of bookkeeping: each action     *)
(* gives a new block to one owner (Gained), hands a block from one owner   *)
(* to another (Handed), or frees the block of the owner that is at its     *)
(* turn.                                                                   *)
(***************************************************************************)
EXTENDS Regex, TLAPS

Matching == {"full", "search", "find_all"}

\* What the arguments of the call are where it is.
CallOK ==
    /\ call.op \in {"none", "compile"} \cup Matching
    /\ pc = "idle" => call.op = "none"
    /\ pc = "free" => call.op \in {"none", "compile"}
    /\ pc \in {"parse", "allocate", "program"} =>
          /\ call.op = "compile"
          /\ call.slot \in Slots /\ handle[call.slot] = NULL
    /\ pc \in {"allocate", "program"} => call.pattern \in Valid
    /\ pc = "vm" => /\ call.op \in Matching
                    /\ call.slot \in Handles /\ call.text \in Texts
                    /\ call.op = "search" => call.match
                    /\ call.op = "find_all" => list = NULL

\* What the caller's variables hold till the call answers, and, where a
\* compilation frees what it does not keep, the report that it has made.
OutputsOK ==
    /\ call.matched => matched = 0
    /\ call.match /\ call.op = "search" => match = NO_MATCH
    /\ pc \notin {"idle", "free"} /\ call.error => error = NO_ERROR
    /\ pc = "free" /\ call.op = "compile" =>
          /\ returned \in BOOLEAN
          /\ call.error => (error = NO_ERROR <=> returned)

\* What the variables of regex_compile point to.
LocalsOK ==
    /\ pc \in {"allocate", "program"} =>
          /\ root \in DOMAIN heap
          /\ heap[root] = Block("ast", call.pattern, NULL)
    /\ pc = "program" => regex \in DOMAIN heap
    /\ pc # "free" => frees = <<>>
    /\ \A s \in Handles : compiled[s] \in Valid

IInv == BlocksOwnedOnce /\ CallOK /\ OutputsOK /\ LocalsOK
-----------------------------------------------------------------------------
(* The bookkeeping, for any sets of owners and blocks.                      *)

OwnedOnce(owners, blocks) ==
    /\ {o[3] : o \in owners} = blocks
    /\ \A o \in owners, p \in owners : o[3] = p[3] => o = p

\* A block that was not there has one owner, if it is given to one.
LEMMA Gained ==
    ASSUME NEW owners, NEW blocks, OwnedOnce(owners, blocks),
           NEW o, o[3] \notin blocks
    PROVE  OwnedOnce(owners \cup {o}, blocks \cup {o[3]})
BY DEF OwnedOnce

\* One that is handed on has one owner still.
LEMMA Handed ==
    ASSUME NEW owners, NEW blocks, OwnedOnce(owners, blocks),
           NEW o \in owners, NEW p, p[3] = o[3]
    PROVE  OwnedOnce((owners \ {o}) \cup {p}, blocks)
<1>1. {q[3] : q \in (owners \ {o}) \cup {p}} = blocks
  BY DEF OwnedOnce
<1>2. ASSUME NEW q \in (owners \ {o}) \cup {p},
             NEW r \in (owners \ {o}) \cup {p}, q[3] = r[3]
      PROVE  q = r
  BY <1>2 DEF OwnedOnce
<1> QED
  BY <1>1, <1>2 DEF OwnedOnce

\* The owners, one kind after the other.
LEMMA OwnersAre ==
    \A o : o \in Owners <=>
        /\ o[3] # NULL
        /\ \/ \E s \in Slots : o = <<"regex", s, handle[s]>>
           \/ \E s \in Handles : o = <<"states", s, heap[handle[s]].states>>
           \/ o = <<"list", 1, list>>
           \/ \E i \in DOMAIN frees : o = <<"free", i, frees[i]>>
           \/ pc \in {"allocate", "program"} /\ o = <<"root", 1, root>>
           \/ pc = "program" /\ o = <<"new", 1, regex>>
BY DEF Owners

LEMMA OwnedAs == BlocksOwnedOnce <=> TypeOK /\ OwnedOnce(Owners, DOMAIN heap)
BY DEF BlocksOwnedOnce, OwnedOnce

\* A step that leaves blocks and pointers alone leaves the owners alone.
LEMMA SameOwners ==
    ASSUME BlocksOwnedOnce, UNCHANGED <<heap, handle, list, frees>>,
           pc \notin {"allocate", "program"},
           pc' \notin {"allocate", "program"}
    PROVE  OwnedOnce(Owners, DOMAIN heap)'
<1>1. Owners' = Owners
  <2>1. Handles' = Handles
    BY DEF Handles
  <2> QED
    BY <2>1 DEF Owners
<1> QED
  BY <1>1, OwnedAs DEF OwnedOnce

LEMMA InitIInv == Init => IInv
<1> SUFFICES ASSUME Init PROVE IInv
  OBVIOUS
<1> USE DEF Init
<1>1. /\ DOMAIN heap = {} /\ DOMAIN frees = {} /\ Handles = {}
      /\ frees \in Seq(Addresses \cup {NULL})
  BY DEF Handles
<1>2. TypeOK
  BY <1>1 DEF TypeOK, NO_MATCH
<1>3. Owners = {}
  BY <1>1, OwnersAre
<1>4. OwnedOnce(Owners, DOMAIN heap)
  BY <1>1, <1>3 DEF OwnedOnce
<1>5. CallOK /\ OutputsOK
  BY DEF CallOK, OutputsOK, NoCall
<1>6. LocalsOK
  BY <1>1 DEF LocalsOK
<1> QED
  BY <1>2, <1>4, <1>5, <1>6, OwnedAs DEF IInv

\* The invariant, from its parts.
LEMMA Assembled ==
    TypeOK' /\ OwnedOnce(Owners, DOMAIN heap)' /\ CallOK' /\ OutputsOK'
    /\ LocalsOK' => IInv'
<1>1. OwnedAs'
  BY OwnedAs, PTL
<1> QED
  BY <1>1, Zenon DEF IInv

LEMMA CompileKeepsIInv == IInv /\ Compile => IInv'
<1> SUFFICES ASSUME IInv, Compile PROVE IInv'
  OBVIOUS
<1>0. PICK s \in Slots, p \in Patterns \cup {NULL}, e \in BOOLEAN :
         /\ pc = "idle" /\ handle[s] = NULL
         /\ call' = Call([op |-> "compile", slot |-> s, pattern |-> p,
                          error |-> e])
         /\ regex_error_clear(call')
         /\ pc' = IF p = NULL THEN "refuse" ELSE "parse"
  BY Zenon DEF Compile
<1>1. UNCHANGED <<heap, client, matched, match, locals, returned>>
  BY DEF Compile
<1>2. /\ call'.op = "compile" /\ call'.slot = s /\ call'.pattern = p
      /\ call'.error = e /\ call'.matched = FALSE /\ call'.match = FALSE
  BY <1>0 DEF Call, NoCall
<1>3. TypeOK'
  BY <1>0, <1>1 DEF IInv, BlocksOwnedOnce, TypeOK, client, locals, Handles
<1>4. OwnedOnce(Owners, DOMAIN heap)'
  BY <1>0, <1>1, SameOwners DEF IInv, client, locals
<1>5. CallOK'
  BY <1>0, <1>1, <1>2 DEF CallOK, client, Matching
<1>6. OutputsOK'
  BY <1>0, <1>1, <1>2 DEF OutputsOK, regex_error_clear, Report
<1>7. LocalsOK'
  BY <1>0, <1>1 DEF IInv, LocalsOK, client, locals, Handles
<1> QED
  BY <1>3, <1>4, <1>5, <1>6, <1>7, Assembled

LEMMA MatchKeepsIInv == IInv /\ Match => IInv'
<1> SUFFICES ASSUME IInv, Match PROVE IInv'
  OBVIOUS
<1>0. PICK op \in Matching, s \in Slots, t \in Texts \cup {NULL},
           m \in BOOLEAN, r \in BOOLEAN, e \in BOOLEAN :
         /\ pc = "idle"
         /\ op = "find_all" => list = NULL /\ ~m
         /\ call' = Call([op |-> op, slot |-> s, text |-> t,
                          matched |-> m, match |-> r, error |-> e])
         /\ IF op = "find_all" THEN UNCHANGED <<matched, match>>
            ELSE ClearOutputs(call')
         /\ regex_error_clear(call')
         /\ pc' = IF IsIncomplete(call') THEN "refuse" ELSE "vm"
  BY DEF Match, Matching
<1>1. UNCHANGED <<heap, client, locals, returned>>
  BY DEF Match
<1>2. /\ call'.op = op /\ call'.slot = s /\ call'.text = t
      /\ call'.matched = m /\ call'.match = r /\ call'.error = e
  BY <1>0 DEF Call, NoCall
<1>3. TypeOK'
  <2>1. matched' \in {0, 1} /\ match' \in Nat \X Nat
    BY <1>0 DEF IInv, BlocksOwnedOnce, TypeOK, ClearOutputs, NO_MATCH
  <2> QED
    BY <2>1, <1>0, <1>1
    DEF IInv, BlocksOwnedOnce, TypeOK, client, locals, Handles
<1>4. OwnedOnce(Owners, DOMAIN heap)'
  BY <1>0, <1>1, SameOwners DEF IInv, client, locals
<1>5. CallOK'
  BY <1>0, <1>1, <1>2
  DEF CallOK, client, Matching, IsIncomplete, Handles
<1>6. OutputsOK'
  <2>1. m /\ op # "find_all" => matched' = 0
    BY <1>0, <1>2 DEF ClearOutputs
  <2>2. r /\ op = "search" => match' = NO_MATCH
    BY <1>0, <1>2 DEF ClearOutputs
  <2>3. e => error' = NO_ERROR
    BY <1>0, <1>2 DEF regex_error_clear, Report
  <2> QED
    BY <1>0, <1>2, <2>1, <2>2, <2>3 DEF OutputsOK
<1>7. LocalsOK'
  BY <1>0, <1>1 DEF IInv, LocalsOK, client, locals, Handles
<1> QED
  BY <1>3, <1>4, <1>5, <1>6, <1>7, Assembled

\* The calls that fail before they have allocated a block.
LEMMA RefusalKeepsIInv == IInv /\ (Refuse \/ ParseFails \/ VmFails) => IInv'
<1> SUFFICES ASSUME IInv, Refuse \/ ParseFails \/ VmFails PROVE IInv'
  OBVIOUS
<1>1. /\ pc \in {"refuse", "parse", "vm"} /\ pc' = "idle"
      /\ call' = NoCall /\ returned' = FALSE
      /\ UNCHANGED <<heap, client, matched, match, locals>>
  BY DEF Refuse, ParseFails, VmFails, Failed, Return
<1>2. TypeOK'
  BY <1>1 DEF IInv, BlocksOwnedOnce, TypeOK, client, locals, Handles
<1>3. OwnedOnce(Owners, DOMAIN heap)'
  BY <1>1, SameOwners DEF IInv, client, locals
<1>4. CallOK' /\ OutputsOK'
  BY <1>1 DEF CallOK, OutputsOK, NoCall
<1>5. LocalsOK'
  BY <1>1 DEF IInv, LocalsOK, client, locals, Handles
<1> QED
  BY <1>2, <1>3, <1>4, <1>5, Assembled

LEMMA ReturnFreedKeepsIInv == IInv /\ ReturnFreed => IInv'
<1> SUFFICES ASSUME IInv, ReturnFreed PROVE IInv'
  OBVIOUS
<1>1. /\ pc = "free" /\ pc' = "idle" /\ frees = <<>>
      /\ call' = NoCall /\ returned' = returned
      /\ root' = NULL /\ regex' = NULL
      /\ UNCHANGED <<heap, client, output, frees>>
  BY DEF ReturnFreed, Return
<1>2. TypeOK'
  BY <1>1 DEF IInv, BlocksOwnedOnce, TypeOK, client, output, Handles
<1>3. OwnedOnce(Owners, DOMAIN heap)'
  BY <1>1, SameOwners DEF IInv, client
<1>4. CallOK' /\ OutputsOK'
  BY <1>1 DEF CallOK, OutputsOK, NoCall
<1>5. LocalsOK'
  BY <1>1 DEF IInv, LocalsOK, client, Handles
<1> QED
  BY <1>2, <1>3, <1>4, <1>5, Assembled

LEMMA UnusedIsFree == \A a \in Unused : a \in Addresses /\ a \notin DOMAIN heap
BY RegexAssumption DEF Unused

LEMMA MallocGrows ==
    ASSUME NEW a, NEW block, Malloc(a, block)
    PROVE  /\ a \in Addresses /\ a # NULL /\ a \notin DOMAIN heap
           /\ DOMAIN heap' = DOMAIN heap \cup {a}
           /\ heap'[a] = block
           /\ \A b \in DOMAIN heap : heap'[b] = heap[b]
BY UnusedIsFree, RegexAssumption DEF Malloc

LEMMA NewOwner ==
    ASSUME BlocksOwnedOnce, NEW o, o[3] \notin DOMAIN heap,
           DOMAIN heap' = DOMAIN heap \cup {o[3]},
           \A p : p \in Owners' <=> p \in Owners \cup {o}
    PROVE  OwnedOnce(Owners, DOMAIN heap)'
<1>1. Owners' = Owners \cup {o}
  OBVIOUS
<1>2. OwnedOnce(Owners, DOMAIN heap)
  BY OwnedAs
<1>3. OwnedOnce(Owners \cup {o}, DOMAIN heap \cup {o[3]})
  BY <1>2, Gained
<1> QED
  BY <1>1, <1>3 DEF OwnedOnce

LEMMA ParseKeepsIInv == IInv /\ Parse => IInv'
<1> SUFFICES ASSUME IInv, Parse PROVE IInv'
  OBVIOUS
<1>0. /\ pc = "parse" /\ pc' = "allocate" /\ call.pattern \in Valid
      /\ UNCHANGED <<client, output, call, regex, frees, returned>>
  BY DEF Parse
<1>1. PICK a \in Addresses :
         Malloc(a, Block("ast", call.pattern, NULL)) /\ root' = a
  BY DEF Parse
<1>2. /\ a # NULL /\ a \notin DOMAIN heap
      /\ DOMAIN heap' = DOMAIN heap \cup {a}
      /\ heap'[a] = Block("ast", call.pattern, NULL)
      /\ \A b \in DOMAIN heap : heap'[b] = heap[b]
  BY <1>1, MallocGrows
<1>3. TypeOK'
  BY <1>0, <1>1, <1>2
  DEF IInv, BlocksOwnedOnce, TypeOK, client, output, Handles
<1>4. OwnedOnce(Owners, DOMAIN heap)'
  <2> DEFINE o == <<"root", 1, a>>
  <2>1. \A p : p \in Owners' <=> p \in Owners \cup {o}
    <3>1. OwnersAre'
      BY OwnersAre, PTL
    <3>2. \A s \in Handles : heap'[handle[s]] = heap[handle[s]]
      BY <1>2 DEF IInv, BlocksOwnedOnce, TypeOK
    <3> QED
      BY <3>1, <3>2, <1>0, <1>1, <1>2, OwnersAre DEF client, Handles
  <2> QED
    BY <2>1, <1>2, NewOwner DEF IInv
<1>5. CallOK'
  BY <1>0 DEF IInv, CallOK, client
<1>6. OutputsOK'
  BY <1>0 DEF IInv, OutputsOK, output
<1>7. LocalsOK'
  BY <1>0, <1>1, <1>2 DEF IInv, LocalsOK, client, Handles
<1> QED
  BY <1>3, <1>4, <1>5, <1>6, <1>7, Assembled

LEMMA AllocateRegexKeepsIInv == IInv /\ AllocateRegex => IInv'
<1> SUFFICES ASSUME IInv, AllocateRegex PROVE IInv'
  OBVIOUS
<1>0. /\ pc = "allocate" /\ pc' = "program"
      /\ UNCHANGED <<client, output, call, root, frees, returned>>
  BY DEF AllocateRegex
<1>1. PICK a \in Addresses :
         Malloc(a, Block("regex", NULL, NULL)) /\ regex' = a
  BY DEF AllocateRegex
<1>2. /\ a # NULL /\ a \notin DOMAIN heap
      /\ DOMAIN heap' = DOMAIN heap \cup {a}
      /\ heap'[a] = Block("regex", NULL, NULL)
      /\ \A b \in DOMAIN heap : heap'[b] = heap[b]
  BY <1>1, MallocGrows
<1>3. TypeOK'
  BY <1>0, <1>1, <1>2
  DEF IInv, BlocksOwnedOnce, TypeOK, client, output, Handles
<1>4. OwnedOnce(Owners, DOMAIN heap)'
  <2> DEFINE o == <<"new", 1, a>>
  <2>1. \A p : p \in Owners' <=> p \in Owners \cup {o}
    <3>1. OwnersAre'
      BY OwnersAre, PTL
    <3>2. \A s \in Handles : heap'[handle[s]] = heap[handle[s]]
      BY <1>2 DEF IInv, BlocksOwnedOnce, TypeOK
    <3> QED
      BY <3>1, <3>2, <1>0, <1>1, <1>2, OwnersAre DEF client, Handles
  <2> QED
    BY <2>1, <1>2, NewOwner DEF IInv
<1>5. CallOK'
  BY <1>0 DEF IInv, CallOK, client
<1>6. OutputsOK'
  BY <1>0 DEF IInv, OutputsOK, output
<1>7. LocalsOK'
  BY <1>0, <1>1, <1>2 DEF IInv, LocalsOK, client, Handles
<1> QED
  BY <1>3, <1>4, <1>5, <1>6, <1>7, Assembled

\* The block that each owner holds is handed to one other, or to none that
\* is an owner yet.
LEMMA HandedOn ==
    ASSUME BlocksOwnedOnce, DOMAIN heap' = DOMAIN heap,
           NEW o \in Owners, NEW p, p[3] = o[3],
           \A q : q \in Owners' <=> q \in (Owners \ {o}) \cup {p}
    PROVE  OwnedOnce(Owners, DOMAIN heap)'
<1>1. Owners' = (Owners \ {o}) \cup {p}
  OBVIOUS
<1>2. OwnedOnce(Owners, DOMAIN heap)
  BY OwnedAs
<1>3. OwnedOnce((Owners \ {o}) \cup {p}, DOMAIN heap)
  BY <1>2, Handed
<1> QED
  BY <1>1, <1>3 DEF OwnedOnce

LEMMA AllocateRegexFailsKeepsIInv == IInv /\ AllocateRegexFails => IInv'
<1> SUFFICES ASSUME IInv, AllocateRegexFails PROVE IInv'
  OBVIOUS
<1>0. /\ pc = "allocate" /\ pc' = "free" /\ frees' = <<root>>
      /\ Report(call, "memory") /\ returned' = FALSE
      /\ UNCHANGED <<heap, client, matched, match, call, root, regex>>
  BY DEF AllocateRegexFails, FailAndFree
<1>1. root \in DOMAIN heap /\ root # NULL /\ root \in Addresses
      /\ frees = <<>>
  BY <1>0, RegexAssumption DEF IInv, LocalsOK, BlocksOwnedOnce, TypeOK
<1>2. DOMAIN frees = {} /\ DOMAIN frees' = {1} /\ frees'[1] = root
  BY <1>0, <1>1
<1>3. TypeOK'
  <2>1. frees' \in Seq(Addresses \cup {NULL})
    BY <1>0, <1>1
  <2> QED
    BY <1>0, <2>1 DEF IInv, BlocksOwnedOnce, TypeOK, client, Handles
<1>4. OwnedOnce(Owners, DOMAIN heap)'
  <2> DEFINE o == <<"root", 1, root>>
             p == <<"free", 1, root>>
  <2>1. o \in Owners
    BY <1>0, <1>1, OwnersAre
  <2>2. \A q : q \in Owners' <=> q \in (Owners \ {o}) \cup {p}
    <3>1. OwnersAre'
      BY OwnersAre, PTL
    <3> QED
      BY <3>1, <1>0, <1>1, <1>2, OwnersAre DEF client, Handles
  <2> QED
    BY <2>1, <2>2, <1>0, HandedOn DEF IInv
<1>5. CallOK'
  BY <1>0 DEF IInv, CallOK, client
<1>6. OutputsOK'
  BY <1>0 DEF IInv, CallOK, OutputsOK, Report, NO_ERROR
<1>7. LocalsOK'
  BY <1>0, <1>1 DEF IInv, LocalsOK, client, Handles
<1> QED
  BY <1>3, <1>4, <1>5, <1>6, <1>7, Assembled

\* regex_compile's own blocks.
LEMMA AtProgram ==
    ASSUME IInv, pc = "program"
    PROVE  /\ root \in DOMAIN heap /\ root \in Addresses /\ root # NULL
           /\ regex \in DOMAIN heap /\ regex \in Addresses /\ regex # NULL
           /\ heap[root] = Block("ast", call.pattern, NULL)
           /\ frees = <<>> /\ DOMAIN frees = {}
           /\ call.slot \in Slots /\ handle[call.slot] = NULL
           /\ <<"root", 1, root>> \in Owners
           /\ <<"new", 1, regex>> \in Owners
           /\ root # regex
<1>1. /\ root \in DOMAIN heap /\ root \in Addresses /\ root # NULL
      /\ regex \in DOMAIN heap /\ regex \in Addresses /\ regex # NULL
      /\ heap[root] = Block("ast", call.pattern, NULL)
      /\ frees = <<>> /\ DOMAIN frees = {}
      /\ call.slot \in Slots /\ handle[call.slot] = NULL
  BY RegexAssumption DEF IInv, LocalsOK, CallOK, BlocksOwnedOnce, TypeOK
<1>2. <<"root", 1, root>> \in Owners /\ <<"new", 1, regex>> \in Owners
  BY <1>1, OwnersAre
<1>3. root # regex
  BY <1>2 DEF IInv, BlocksOwnedOnce
<1> QED
  BY <1>1, <1>2, <1>3

LEMMA CompileProgramKeepsIInv == IInv /\ CompileProgram => IInv'
<1> SUFFICES ASSUME IInv, CompileProgram PROVE IInv'
  OBVIOUS
<1>0. /\ pc = "program" /\ pc' = "free" /\ returned' = TRUE
      /\ frees' = <<root>>
      /\ handle' = [handle EXCEPT ![call.slot] = regex]
      /\ compiled' = [compiled EXCEPT ![call.slot] = call.pattern]
      /\ UNCHANGED <<list, output, call, root, regex>>
  BY DEF CompileProgram, GiveHandle
<1>1. PICK a \in Unused :
         heap' = [b \in DOMAIN heap \cup {a} |->
                     CASE b = a -> Block("states", heap[root].pattern, NULL)
                       [] b = regex -> Block("regex", NULL, a)
                       [] OTHER -> heap[b]]
  BY DEF CompileProgram
<1> DEFINE slot == call.slot
<1>2. /\ root \in DOMAIN heap /\ root \in Addresses /\ root # NULL
      /\ regex \in DOMAIN heap /\ regex \in Addresses /\ regex # NULL
      /\ heap[root] = Block("ast", call.pattern, NULL)
      /\ frees = <<>> /\ DOMAIN frees = {}
      /\ slot \in Slots /\ handle[slot] = NULL
      /\ <<"root", 1, root>> \in Owners
      /\ <<"new", 1, regex>> \in Owners
      /\ root # regex
  BY <1>0, AtProgram
<1>3. a \in Addresses /\ a \notin DOMAIN heap /\ a # NULL
  BY <1>1, UnusedIsFree, RegexAssumption
<1>4. /\ DOMAIN heap' = DOMAIN heap \cup {a}
      /\ heap'[a] = Block("states", call.pattern, NULL)
      /\ heap'[regex] = Block("regex", NULL, a)
      /\ \A b \in DOMAIN heap : b # regex => heap'[b] = heap[b]
  <2>1. heap[root].pattern = call.pattern
    BY <1>2 DEF Block
  <2> QED
    BY <2>1, <1>1, <1>2, <1>3
<1>5. /\ DOMAIN frees' = {1} /\ frees'[1] = root
      /\ frees' \in Seq(Addresses \cup {NULL})
  BY <1>0, <1>2
<1>6. /\ handle' \in [Slots -> Addresses \cup {NULL}]
      /\ handle'[slot] = regex
      /\ \A s \in Slots : s # slot => handle'[s] = handle[s]
      /\ compiled' \in [Slots -> Valid \cup {NULL}]
      /\ compiled'[slot] = call.pattern
      /\ \A s \in Slots : s # slot => compiled'[s] = compiled[s]
      /\ call.pattern \in Valid
  BY <1>0, <1>2 DEF IInv, BlocksOwnedOnce, TypeOK, CallOK
\* What the other handles point to has not changed.
<1>7. \A s \in Handles :
         /\ s # slot /\ s \in Slots /\ s \in Handles'
         /\ handle'[s] = handle[s] /\ heap'[handle[s]] = heap[handle[s]]
         /\ heap'[heap[handle[s]].states] = heap[heap[handle[s]].states]
         /\ handle[s] \in DOMAIN heap /\ heap[handle[s]].states \in DOMAIN heap
  <2> SUFFICES ASSUME NEW s \in Handles
               PROVE  /\ s # slot /\ s \in Slots /\ s \in Handles'
                      /\ handle'[s] = handle[s]
                      /\ heap'[handle[s]] = heap[handle[s]]
                      /\ heap'[heap[handle[s]].states]
                            = heap[heap[handle[s]].states]
                      /\ handle[s] \in DOMAIN heap
                      /\ heap[handle[s]].states \in DOMAIN heap
    OBVIOUS
  <2>1. /\ s \in Slots /\ handle[s] # NULL /\ s # slot
        /\ handle[s] \in DOMAIN heap /\ heap[handle[s]].states \in DOMAIN heap
    BY <1>2 DEF IInv, BlocksOwnedOnce, TypeOK, Handles
  <2>2. heap[handle[s]].states # NULL
    BY <2>1, RegexAssumption DEF IInv, BlocksOwnedOnce, TypeOK
  <2>3. /\ <<"regex", s, handle[s]>> \in Owners
        /\ <<"states", s, heap[handle[s]].states>> \in Owners
    BY <2>1, <2>2, OwnersAre
  <2>4. handle[s] # regex /\ heap[handle[s]].states # regex
    BY <2>3, <1>2 DEF IInv, BlocksOwnedOnce
  <2> QED
    BY <2>1, <2>4, <1>4, <1>6 DEF Handles
<1>8. slot \in Handles' /\ Handles' = Handles \cup {slot}
  BY <1>2, <1>6, <1>7 DEF Handles
<1>9. TypeOK'
  <2>1. ASSUME NEW s \in Handles'
        PROVE  /\ handle'[s] \in DOMAIN heap'
               /\ heap'[handle'[s]].kind = "regex"
               /\ heap'[handle'[s]].states \in DOMAIN heap'
               /\ heap'[heap'[handle'[s]].states]
                     = Block("states", compiled'[s], NULL)
    <3>1. CASE s = slot
      BY <3>1, <1>2, <1>4, <1>6 DEF Block
    <3>2. CASE s \in Handles
      BY <3>2, <1>4, <1>6, <1>7 DEF IInv, BlocksOwnedOnce, TypeOK
    <3> QED
      BY <3>1, <3>2, <1>8
  <2> QED
    BY <2>1, <1>0, <1>3, <1>4, <1>5, <1>6
    DEF IInv, BlocksOwnedOnce, TypeOK, output
<1>10. OwnedOnce(Owners, DOMAIN heap)'
  <2> DEFINE tree == <<"root", 1, root>>
             freed == <<"free", 1, root>>
             new == <<"new", 1, regex>>
             given == <<"regex", slot, regex>>
             states == <<"states", slot, a>>
             one == (Owners \ {tree}) \cup {freed}
             two == (one \ {new}) \cup {given}
             three == two \cup {states}
  <2>1. \A q : q \in Owners' <=> q \in three
    <3>1. OwnersAre'
      BY OwnersAre, PTL
    <3>2. heap'[handle'[slot]].states = a
      BY <1>4, <1>6 DEF Block
    <3>3. \A s \in Handles :
             s # slot /\ heap'[handle'[s]].states = heap[handle[s]].states
      BY <1>7
    <3> DEFINE Others(q) ==
                  \/ \E s \in Slots \ {slot} : q = <<"regex", s, handle[s]>>
                  \/ \E s \in Handles :
                        q = <<"states", s, heap[handle[s]].states>>
                  \/ q = <<"list", 1, list>>
               Now(q) ==
                  \/ \E s \in Slots : q = <<"regex", s, handle'[s]>>
                  \/ \E s \in Handles' :
                        q = <<"states", s, heap'[handle'[s]].states>>
                  \/ q = <<"list", 1, list'>>
                  \/ q = freed
    <3>4. \A q : Now(q) <=> q = given \/ q = states \/ q = freed \/ Others(q)
      BY <1>0, <1>2, <1>6, <1>8, <3>2, <3>3
    <3>5. \A q : q \in Owners /\ q # tree /\ q # new
                  <=> q[3] # NULL /\ Others(q)
      BY <1>0, <1>2, OwnersAre
    <3>6. \A q : q \in Owners' <=> q[3] # NULL /\ Now(q)
      BY <3>1, <1>0, <1>5
    <3>7. given[3] # NULL /\ states[3] # NULL /\ freed[3] # NULL
      BY <1>2, <1>3
    <3>8. freed # new /\ given # new /\ given # tree
      OBVIOUS
    <3>9. \A q : q \in Owners'
             <=> \/ q = given \/ q = states \/ q = freed
                 \/ q \in Owners /\ q # tree /\ q # new
      <4> HIDE DEF given, states, freed, tree, new, slot, Others, Now
      <4> QED
        BY <3>4, <3>5, <3>6, <3>7
    <3> HIDE DEF given, states, freed, tree, new
    <3> QED
      BY <3>8, <3>9
  <2>2. OwnedOnce(Owners, DOMAIN heap)
    BY OwnedAs DEF IInv
  <2>3. OwnedOnce(one, DOMAIN heap)
    BY <2>2, <1>2, Handed
  <2>4. new \in one /\ given[3] = new[3]
    BY <1>2
  <2> HIDE DEF one
  <2>5. OwnedOnce(two, DOMAIN heap)
    BY <2>3, <2>4, Handed
  <2>6. states[3] = a
    OBVIOUS
  <2> HIDE DEF two, states
  <2>7. OwnedOnce(three, DOMAIN heap \cup {a})
    BY <2>5, <2>6, <1>3, Gained
  <2>8. Owners' = three
    BY <2>1
  <2> QED
    BY <2>7, <2>8, <1>4 DEF OwnedOnce
<1>11. CallOK'
  BY <1>0 DEF IInv, CallOK
<1>12. OutputsOK'
  BY <1>0 DEF IInv, CallOK, OutputsOK, output
<1>13. LocalsOK'
  BY <1>0, <1>6, <1>7, <1>8 DEF IInv, LocalsOK
<1> QED
  BY <1>9, <1>10, <1>11, <1>12, <1>13, Assembled

LEMMA CompileFailsKeepsIInv == IInv /\ CompileFails => IInv'
<1> SUFFICES ASSUME IInv, CompileFails PROVE IInv'
  OBVIOUS
<1>0. /\ pc = "program" /\ pc' = "free" /\ frees' = <<NULL, regex, root>>
      /\ Report(call, "compiler") /\ returned' = FALSE
      /\ UNCHANGED <<heap, client, matched, match, call, root, regex>>
  BY DEF CompileFails, FailAndFree, StatesAfterFailure
<1>1. /\ root \in DOMAIN heap /\ root \in Addresses /\ root # NULL
      /\ regex \in DOMAIN heap /\ regex \in Addresses /\ regex # NULL
      /\ frees = <<>> /\ DOMAIN frees = {}
      /\ <<"root", 1, root>> \in Owners
      /\ <<"new", 1, regex>> \in Owners
  BY <1>0, AtProgram
<1>2. /\ DOMAIN frees' = {1, 2, 3}
      /\ frees'[1] = NULL /\ frees'[2] = regex /\ frees'[3] = root
      /\ frees' \in Seq(Addresses \cup {NULL})
  BY <1>0, <1>1
<1>3. TypeOK'
  BY <1>0, <1>2 DEF IInv, BlocksOwnedOnce, TypeOK, client, Handles
<1>4. OwnedOnce(Owners, DOMAIN heap)'
  <2> DEFINE tree == <<"root", 1, root>>
             new == <<"new", 1, regex>>
             third == <<"free", 3, root>>
             second == <<"free", 2, regex>>
             one == (Owners \ {tree}) \cup {third}
             two == (one \ {new}) \cup {second}
  <2>1. \A q : q \in Owners' <=> q \in two
    <3>1. OwnersAre'
      BY OwnersAre, PTL
    <3> DEFINE Others(q) ==
                  \/ \E s \in Slots : q = <<"regex", s, handle[s]>>
                  \/ \E s \in Handles :
                        q = <<"states", s, heap[handle[s]].states>>
                  \/ q = <<"list", 1, list>>
    <3>2. \A q : q \in Owners
                  <=> q[3] # NULL /\ (Others(q) \/ q = tree \/ q = new)
      BY <1>0, <1>1, OwnersAre
    <3>3. \A q : q \in Owners'
                  <=> q[3] # NULL /\ (Others(q) \/ q = second \/ q = third)
      <4>1. \A q : (\E i \in DOMAIN frees' : q = <<"free", i, frees'[i]>>)
                    <=> q = <<"free", 1, NULL>> \/ q = second \/ q = third
        BY <1>2
      <4> QED
        BY <3>1, <4>1, <1>0 DEF client, Handles
    <3>4. \A q : Others(q) => q # tree /\ q # new
      OBVIOUS
    <3>5. /\ second # tree /\ second # new /\ third # tree /\ third # new
          /\ second[3] # NULL /\ third[3] # NULL
      BY <1>1
    <3> HIDE DEF Others, second, third, tree, new
    <3> QED
      BY <3>2, <3>3, <3>4, <3>5
  <2>2. OwnedOnce(Owners, DOMAIN heap)
    BY OwnedAs DEF IInv
  <2>3. OwnedOnce(one, DOMAIN heap)
    BY <2>2, <1>1, Handed
  <2>4. new \in one /\ second[3] = new[3]
    BY <1>1
  <2> HIDE DEF one
  <2>5. OwnedOnce(two, DOMAIN heap)
    BY <2>3, <2>4, Handed
  <2>6. Owners' = two
    BY <2>1
  <2> QED
    BY <2>5, <2>6, <1>0 DEF OwnedOnce
<1>5. CallOK'
  BY <1>0 DEF IInv, CallOK, client
<1>6. OutputsOK'
  BY <1>0 DEF IInv, CallOK, OutputsOK, Report, NO_ERROR
<1>7. LocalsOK'
  BY <1>0 DEF IInv, LocalsOK, client, Handles
<1> QED
  BY <1>3, <1>4, <1>5, <1>6, <1>7, Assembled

LEMMA MatchListFreeKeepsIInv == IInv /\ MatchListFree => IInv'
<1> SUFFICES ASSUME IInv, MatchListFree PROVE IInv'
  OBVIOUS
<1>0. /\ pc = "idle" /\ pc' = "free" /\ returned' = NULL
      /\ frees' = <<list>> /\ list' = NULL
      /\ UNCHANGED <<heap, handle, compiled, output, call, root, regex>>
  BY DEF MatchListFree
<1>1. /\ frees = <<>> /\ DOMAIN frees = {}
      /\ DOMAIN frees' = {1} /\ frees'[1] = list
      /\ frees' \in Seq(Addresses \cup {NULL})
  BY <1>0 DEF IInv, LocalsOK, BlocksOwnedOnce, TypeOK
<1>2. TypeOK'
  BY <1>0, <1>1 DEF IInv, BlocksOwnedOnce, TypeOK, output, Handles
<1>3. OwnedOnce(Owners, DOMAIN heap)'
  <2> DEFINE o == <<"list", 1, list>>
             p == <<"free", 1, list>>
             Others(q) ==
                \/ \E s \in Slots : q = <<"regex", s, handle[s]>>
                \/ \E s \in Handles :
                      q = <<"states", s, heap[handle[s]].states>>
  <2>1. OwnersAre'
    BY OwnersAre, PTL
  <2>2. \A q : q \in Owners <=> q[3] # NULL /\ (Others(q) \/ q = o)
    BY <1>0, <1>1, OwnersAre
  <2>3. \A q : q \in Owners' <=> q[3] # NULL /\ (Others(q) \/ q = p)
    BY <2>1, <1>0, <1>1 DEF Handles
  <2>4. \A q : Others(q) => q # o
    OBVIOUS
  <2>5. o[3] = list /\ p[3] = list /\ o # p
    OBVIOUS
  <2> HIDE DEF o, p, Others
  <2>6. CASE list = NULL
    <3>1. Owners' = Owners
      BY <2>2, <2>3, <2>5, <2>6
    <3> QED
      BY <3>1, <1>0, OwnedAs DEF IInv, OwnedOnce
  <2>7. CASE list # NULL
    <3>1. \A q : q \in Owners' <=> q \in (Owners \ {o}) \cup {p}
      BY <2>2, <2>3, <2>4, <2>5, <2>7
    <3>2. o \in Owners
      BY <2>2, <2>5, <2>7
    <3> QED
      BY <3>1, <3>2, <2>5, <1>0, HandedOn DEF IInv
  <2> QED
    BY <2>6, <2>7
<1>4. CallOK'
  BY <1>0 DEF IInv, CallOK
<1>5. OutputsOK'
  BY <1>0 DEF IInv, CallOK, OutputsOK, output
<1>6. LocalsOK'
  BY <1>0 DEF IInv, LocalsOK, Handles
<1> QED
  BY <1>2, <1>3, <1>4, <1>5, <1>6, Assembled

LEMMA RegexFreeKeepsIInv == IInv /\ RegexFree => IInv'
<1> SUFFICES ASSUME IInv, RegexFree PROVE IInv'
  OBVIOUS
<1>0. /\ pc = "idle" /\ pc' = "free" /\ returned' = NULL
      /\ UNCHANGED <<heap, list, output, call, root, regex>>
  BY DEF RegexFree
<1>1. PICK s \in Slots :
         /\ frees' = IF handle[s] = NULL THEN <<>>
                     ELSE <<heap[handle[s]].states, handle[s]>>
         /\ handle' = [handle EXCEPT ![s] = NULL]
         /\ compiled' = [compiled EXCEPT ![s] = NULL]
  BY DEF RegexFree
<1>2. frees = <<>> /\ DOMAIN frees = {}
  BY <1>0 DEF IInv, LocalsOK
<1>3. /\ handle' \in [Slots -> Addresses \cup {NULL}] /\ handle'[s] = NULL
      /\ compiled' \in [Slots -> Valid \cup {NULL}]
      /\ \A r \in Slots \ {s} :
            handle'[r] = handle[r] /\ compiled'[r] = compiled[r]
      /\ Handles' = Handles \ {s}
  BY <1>1 DEF IInv, BlocksOwnedOnce, TypeOK, Handles
<1>4. ASSUME handle[s] # NULL
      PROVE  /\ s \in Handles
             /\ handle[s] \in DOMAIN heap
             /\ heap[handle[s]].states \in DOMAIN heap
             /\ heap[handle[s]].states # NULL
             /\ DOMAIN frees' = {1, 2}
             /\ frees'[1] = heap[handle[s]].states /\ frees'[2] = handle[s]
             /\ frees' \in Seq(Addresses \cup {NULL})
  <2>1. /\ s \in Handles /\ handle[s] \in DOMAIN heap
        /\ heap[handle[s]].states \in DOMAIN heap
        /\ DOMAIN heap \subseteq Addresses
    BY <1>4 DEF IInv, BlocksOwnedOnce, TypeOK, Handles
  <2>2. frees' = <<heap[handle[s]].states, handle[s]>>
    BY <1>1, <1>4
  <2> QED
    BY <2>1, <2>2, RegexAssumption
<1>5. handle[s] = NULL => frees' = <<>> /\ DOMAIN frees' = {}
  BY <1>1
<1>6. TypeOK'
  <2>1. frees' \in Seq(Addresses \cup {NULL})
    <3>1. << >> \in Seq(Addresses \cup {NULL})
      OBVIOUS
    <3> QED
      BY <3>1, <1>4, <1>5
  <2>2. \A r \in Handles' : /\ r \in Handles /\ handle'[r] = handle[r]
                            /\ compiled'[r] = compiled[r]
    BY <1>3 DEF Handles
  <2> QED
    BY <2>1, <2>2, <1>0, <1>3 DEF IInv, BlocksOwnedOnce, TypeOK, output
<1>7. OwnedOnce(Owners, DOMAIN heap)'
  <2> DEFINE Others(q) ==
                \/ \E r \in Slots \ {s} : q = <<"regex", r, handle[r]>>
                \/ \E r \in Handles \ {s} :
                      q = <<"states", r, heap[handle[r]].states>>
                \/ q = <<"list", 1, list>>
  <2>1. OwnersAre'
    BY OwnersAre, PTL
  <2>2. \A q : q \in Owners
                <=> q[3] # NULL /\ (\/ Others(q)
                                   \/ q = <<"regex", s, handle[s]>>
                                   \/ /\ s \in Handles
                                      /\ q = <<"states", s, heap[handle[s]].states>>)
    BY <1>0, <1>2, OwnersAre
  <2>3. \A q : q \in Owners'
                <=> q[3] # NULL /\ (\/ Others(q)
                                   \/ \E i \in DOMAIN frees' :
                                         q = <<"free", i, frees'[i]>>)
    <3>1. \A q : q[3] # NULL =>
              ((\E r \in Slots : q = <<"regex", r, handle'[r]>>)
               <=> \E r \in Slots \ {s} : q = <<"regex", r, handle[r]>>)
      BY <1>3
    <3>2. \A q : (\E r \in Handles' : q = <<"states", r, heap'[handle'[r]].states>>)
                <=> \E r \in Handles \ {s} :
                       q = <<"states", r, heap[handle[r]].states>>
      BY <1>0, <1>3 DEF Handles
    <3> QED
      BY <2>1, <3>1, <3>2, <1>0
  <2>4. CASE handle[s] = NULL
    <3>1. s \notin Handles
      BY <2>4 DEF Handles
    <3>2. Owners' = Owners
      <4> HIDE DEF Others
      <4> QED
        BY <2>2, <2>3, <2>4, <3>1, <1>5
    <3> QED
      BY <3>2, <1>0, OwnedAs DEF IInv, OwnedOnce
  <2>5. CASE handle[s] # NULL
    <3> DEFINE block == <<"regex", s, handle[s]>>
               states == <<"states", s, heap[handle[s]].states>>
               first == <<"free", 1, heap[handle[s]].states>>
               second == <<"free", 2, handle[s]>>
               one == (Owners \ {block}) \cup {second}
               two == (one \ {states}) \cup {first}
    <3>1. \A q : q \in Owners <=> q[3] # NULL /\ (Others(q) \/ q = block \/ q = states)
      <4> HIDE DEF Others
      <4> QED
        BY <2>2, <2>5, <1>4
    <3>2. \A q : q \in Owners' <=> q[3] # NULL /\ (Others(q) \/ q = first \/ q = second)
      <4>1. \A q : (\E i \in DOMAIN frees' : q = <<"free", i, frees'[i]>>)
                    <=> q = first \/ q = second
        BY <2>5, <1>4
      <4> HIDE DEF Others, first, second
      <4> QED
        BY <4>1, <2>3
    <3>3. \A q : Others(q) => q # block /\ q # states
      OBVIOUS
    <3>4. /\ block[3] = second[3] /\ states[3] = first[3]
          /\ block[3] # NULL /\ states[3] # NULL
          /\ block # states /\ block # second /\ states # second
          /\ block # first /\ states # first
      BY <2>5, <1>4
    <3> HIDE DEF Others, first, second, block, states
    <3>5. \A q : q \in Owners' <=> q \in two
      BY <3>1, <3>2, <3>3, <3>4
    <3>6. OwnedOnce(Owners, DOMAIN heap)
      BY OwnedAs DEF IInv
    <3>7. OwnedOnce(one, DOMAIN heap)
      BY <3>1, <3>4, <3>6, Handed
    <3>8. states \in one
      BY <3>1, <3>4
    <3> HIDE DEF one
    <3>9. OwnedOnce(two, DOMAIN heap)
      BY <3>4, <3>7, <3>8, Handed
    <3>10. Owners' = two
      BY <3>5
    <3> QED
      BY <3>9, <3>10, <1>0 DEF OwnedOnce
  <2> QED
    BY <2>4, <2>5
<1>8. CallOK'
  BY <1>0 DEF IInv, CallOK
<1>9. OutputsOK'
  BY <1>0 DEF IInv, CallOK, OutputsOK, output
<1>10. LocalsOK'
  BY <1>0, <1>3 DEF IInv, LocalsOK, Handles
<1> QED
  BY <1>6, <1>7, <1>8, <1>9, <1>10, Assembled

LEMMA FreeKeepsIInv == IInv /\ Free => IInv'
<1> SUFFICES ASSUME IInv, Free PROVE IInv'
  OBVIOUS
<1> DEFINE head == Head(frees)
<1>0. /\ pc = "free" /\ frees # <<>>
      /\ heap' = [a \in DOMAIN heap \ {head} |-> heap[a]]
      /\ frees' = Tail(frees)
      /\ UNCHANGED <<client, output, pc, call, root, regex, returned>>
  BY DEF Free
<1>1. /\ frees \in Seq(Addresses \cup {NULL})
      /\ 1 \in DOMAIN frees /\ head = frees[1]
      /\ frees' \in Seq(Addresses \cup {NULL})
      /\ \A i \in DOMAIN frees' : i + 1 \in DOMAIN frees /\ frees'[i] = frees[i + 1]
      /\ \A i \in DOMAIN frees : i # 1 => i - 1 \in DOMAIN frees'
      /\ DOMAIN frees \subseteq Nat \ {0} /\ DOMAIN frees' \subseteq Nat \ {0}
  BY <1>0 DEF IInv, BlocksOwnedOnce, TypeOK
<1>2. /\ DOMAIN heap' = DOMAIN heap \ {head}
      /\ \A a \in DOMAIN heap \ {head} : heap'[a] = heap[a]
  BY <1>0
\* Nobody else has what is freed.
<1>3. \A o \in Owners : o[3] = head => o = <<"free", 1, head>>
  <2>1. head # NULL => <<"free", 1, head>> \in Owners
    BY <1>1, OwnersAre
  <2> QED
    BY <2>1, OwnersAre DEF IInv, BlocksOwnedOnce
<1>4. \A s \in Handles :
         /\ s \in Slots
         /\ handle[s] \in DOMAIN heap /\ handle[s] # head
         /\ heap[handle[s]].states \in DOMAIN heap
         /\ heap[handle[s]].states # head
  <2> SUFFICES ASSUME NEW s \in Handles
               PROVE  /\ s \in Slots
                      /\ handle[s] \in DOMAIN heap /\ handle[s] # head
                      /\ heap[handle[s]].states \in DOMAIN heap
                      /\ heap[handle[s]].states # head
    OBVIOUS
  <2>1. /\ s \in Slots /\ handle[s] # NULL
        /\ handle[s] \in DOMAIN heap /\ heap[handle[s]].states \in DOMAIN heap
        /\ heap[handle[s]].states # NULL
    BY RegexAssumption DEF IInv, BlocksOwnedOnce, TypeOK, Handles
  <2>2. /\ <<"regex", s, handle[s]>> \in Owners
        /\ <<"states", s, heap[handle[s]].states>> \in Owners
    BY <2>1, OwnersAre
  <2> QED
    BY <2>1, <2>2, <1>3
<1>5. TypeOK'
  BY <1>0, <1>1, <1>2, <1>4
  DEF IInv, BlocksOwnedOnce, TypeOK, client, output, Handles
<1>6. OwnedOnce(Owners, DOMAIN heap)'
  <2> DEFINE Others(q) ==
                \/ \E s \in Slots : q = <<"regex", s, handle[s]>>
                \/ \E s \in Handles :
                      q = <<"states", s, heap[handle[s]].states>>
                \/ q = <<"list", 1, list>>
             Freed(q) == \E i \in DOMAIN frees : q = <<"free", i, frees[i]>>
             FreedNow(q) == \E i \in DOMAIN frees' : q = <<"free", i, frees'[i]>>
             Back(q) == IF q[1] = "free" THEN <<"free", q[2] + 1, q[3]>> ELSE q
  <2>1. OwnersAre'
    BY OwnersAre, PTL
  <2>2. \A q : q \in Owners <=> q[3] # NULL /\ (Others(q) \/ Freed(q))
    BY <1>0, OwnersAre
  <2>3. \A q : q \in Owners' <=> q[3] # NULL /\ (Others(q) \/ FreedNow(q))
    <3>1. \A s \in Handles : heap'[handle[s]] = heap[handle[s]]
      BY <1>2, <1>4
    <3>2. \A q : (\E r \in Handles' : q = <<"states", r, heap'[handle'[r]].states>>)
                <=> \E r \in Handles :
                       q = <<"states", r, heap[handle[r]].states>>
      BY <3>1, <1>0 DEF client, Handles
    <3>3. pc' = "free" /\ handle' = handle /\ list' = list
      BY <1>0 DEF client
    <3> QED
      BY <2>1, <3>2, <3>3
  <2>4. \A q : Others(q) => q[1] # "free"
    OBVIOUS
  \* Each owner is one of before, where what is still to be freed has moved up.
  <2>5. ASSUME NEW q \in Owners'
        PROVE  Back(q) \in Owners /\ Back(q)[3] = q[3] /\ q[3] # head
    <3>1. CASE Others(q)
      <4>1. q \in Owners /\ q[1] # "free"
        BY <2>2, <2>3, <2>4, <3>1
      <4> QED
        BY <4>1, <1>3
    <3>2. CASE FreedNow(q)
      <4>1. PICK i \in DOMAIN frees' : q = <<"free", i, frees'[i]>>
        BY <3>2
      <4>2. /\ Back(q) = <<"free", i + 1, frees[i + 1]>>
            /\ i + 1 \in DOMAIN frees /\ q[3] = frees[i + 1] /\ i + 1 # 1
        BY <4>1, <1>1
      <4>3. Freed(Back(q))
        BY <4>2
      <4>4. Back(q)[3] = q[3] /\ q[3] # NULL
        BY <4>2, <2>3
      <4> HIDE DEF Others
      <4>5. Back(q) \in Owners
        BY <4>3, <4>4, <2>2
      <4> QED
        BY <4>2, <4>4, <4>5, <1>3
    <3> HIDE DEF Others, FreedNow
    <3> QED
      BY <3>1, <3>2, <2>3
  <2>6. ASSUME NEW q \in Owners', NEW r \in Owners', Back(q) = Back(r)
        PROVE  q = r
    <3>1. \A o \in Owners' : /\ o[1] = "free" => o = <<"free", o[2], o[3]>>
                             /\ o[1] = "free" => o[2] \in Nat
      <4>1. \A o : FreedNow(o) => o = <<"free", o[2], o[3]>> /\ o[2] \in Nat
        BY <1>1
      <4> HIDE DEF Others, FreedNow
      <4> QED
        BY <4>1, <2>3, <2>4
    <3>2. Back(q)[1] = q[1] /\ Back(r)[1] = r[1]
      OBVIOUS
    <3>3. CASE q[1] = "free"
      <4>1. r[1] = "free"
        BY <3>2, <3>3, <2>6
      <4>2. q[2] + 1 = r[2] + 1 /\ q[3] = r[3]
        BY <3>3, <4>1, <2>6
      <4> QED
        BY <3>1, <3>3, <4>1, <4>2
    <3>4. CASE q[1] # "free"
      BY <3>2, <3>4, <2>6
    <3> QED
      BY <3>3, <3>4
  <2> HIDE DEF Back
  <2>7. \A q \in Owners', r \in Owners' : q[3] = r[3] => q = r
    BY <2>5, <2>6 DEF IInv, BlocksOwnedOnce
  <2>8. \A q \in Owners' : q[3] \in DOMAIN heap'
    BY <2>5, <1>2 DEF IInv, BlocksOwnedOnce
  <2>9. ASSUME NEW a \in DOMAIN heap' PROVE \E q \in Owners' : q[3] = a
    <3>1. PICK o \in Owners : o[3] = a
      BY <1>2 DEF IInv, BlocksOwnedOnce
    <3>2. a # head /\ a # NULL
      BY <1>2, <3>1, OwnersAre
    <3>3. CASE Others(o)
      <4> HIDE DEF Others
      <4> QED
        BY <2>3, <3>1, <3>2, <3>3
    <3>4. CASE Freed(o)
      <4>1. PICK i \in DOMAIN frees : o = <<"free", i, frees[i]>>
        BY <3>4
      <4>2. i # 1 /\ frees[i] = a
        BY <4>1, <3>1, <3>2, <1>1
      <4>3. i - 1 \in DOMAIN frees' /\ frees'[i - 1] = a
        BY <4>2, <1>1
      <4> DEFINE q == <<"free", i - 1, a>>
      <4>4. FreedNow(q) /\ q[3] = a
        BY <4>3
      <4> HIDE DEF Others, FreedNow, q
      <4>5. q \in Owners'
        BY <4>4, <3>2, <2>3
      <4> QED
        BY <4>4, <4>5
    <3> HIDE DEF Others, Freed
    <3> QED
      BY <3>1, <3>3, <3>4, <2>2
  <2> QED
    <3>1. {q[3] : q \in Owners'} = DOMAIN heap'
      BY <2>8, <2>9
    <3> QED
      BY <2>7, <3>1 DEF OwnedOnce
<1>7. CallOK'
  BY <1>0 DEF IInv, CallOK, client
<1>8. OutputsOK'
  BY <1>0 DEF IInv, OutputsOK, output
<1>9. LocalsOK'
  BY <1>0 DEF IInv, LocalsOK, client, Handles
<1> QED
  BY <1>5, <1>6, <1>7, <1>8, <1>9, Assembled

\* What the VM says is said of a pattern and a text.
LEMMA FoundIsOfHandle ==
    ASSUME IInv, pc = "vm"
    PROVE  /\ Program = compiled[call.slot]
           /\ Found.full \in BOOLEAN
           /\ Found.first \in {<<>>} \cup (Nat \X Nat)
<1>1. /\ call.slot \in Handles /\ call.text \in Texts
      /\ compiled[call.slot] \in Valid
  BY DEF IInv, CallOK, LocalsOK
<1>2. Program = compiled[call.slot]
  <2>1. heap[heap[handle[call.slot]].states]
           = Block("states", compiled[call.slot], NULL)
    BY <1>1 DEF IInv, BlocksOwnedOnce, TypeOK
  <2> QED
    BY <2>1 DEF Program, Block
<1>3. Found \in [full : BOOLEAN, first : {<<>>} \cup (Nat \X Nat)]
  BY <1>1, <1>2, MeaningAssumption DEF Found
<1> QED
  BY <1>2, <1>3

LEMMA VmAnswersKeepsIInv == IInv /\ VmAnswers => IInv'
<1> SUFFICES ASSUME IInv, VmAnswers PROVE IInv'
  OBVIOUS
<1>0. /\ pc = "vm" /\ pc' = "idle" /\ call' = NoCall /\ returned' = TRUE
      /\ UNCHANGED <<handle, compiled, error, locals>>
  BY DEF VmAnswers, Return
<1>1. matched' \in {0, 1} /\ match' \in Nat \X Nat
  BY <1>0, FoundIsOfHandle DEF VmAnswers, IInv, BlocksOwnedOnce, TypeOK
<1>2. CallOK' /\ OutputsOK'
  BY <1>0 DEF CallOK, OutputsOK, NoCall
<1>3. CASE UNCHANGED <<heap, list>>
  <2>1. TypeOK'
    BY <1>0, <1>1, <1>3
    DEF IInv, BlocksOwnedOnce, TypeOK, locals, Handles
  <2>2. OwnedOnce(Owners, DOMAIN heap)'
    BY <1>0, <1>3, SameOwners DEF IInv, locals
  <2>3. LocalsOK'
    BY <1>0, <1>3 DEF IInv, LocalsOK, locals, Handles
  <2> QED
    BY <1>2, <2>1, <2>2, <2>3, Assembled
<1>4. ASSUME call.op = "find_all",
             NEW a \in Addresses, Malloc(a, Block("list", Program, NULL)),
             list' = a
      PROVE  IInv'
  <2>1. /\ a # NULL /\ a \notin DOMAIN heap
        /\ DOMAIN heap' = DOMAIN heap \cup {a}
        /\ \A b \in DOMAIN heap : heap'[b] = heap[b]
    BY <1>4, MallocGrows
  <2>2. list = NULL
    BY <1>0, <1>4 DEF IInv, CallOK
  <2>3. TypeOK'
    BY <1>0, <1>1, <1>4, <2>1
    DEF IInv, BlocksOwnedOnce, TypeOK, locals, Handles
  <2>4. OwnedOnce(Owners, DOMAIN heap)'
    <3> DEFINE o == <<"list", 1, a>>
    <3>1. \A p : p \in Owners' <=> p \in Owners \cup {o}
      <4>1. OwnersAre'
        BY OwnersAre, PTL
      <4>2. \A s \in Handles : heap'[handle[s]] = heap[handle[s]]
        BY <2>1 DEF IInv, BlocksOwnedOnce, TypeOK
      <4> QED
        BY <4>1, <4>2, <1>0, <1>4, <2>1, <2>2, OwnersAre DEF locals, Handles
    <3> QED
      BY <3>1, <2>1, NewOwner DEF IInv
  <2>5. LocalsOK'
    BY <1>0, <2>1 DEF IInv, LocalsOK, locals, Handles
  <2> QED
    BY <1>2, <2>3, <2>4, <2>5, Assembled
<1> QED
  BY <1>3, <1>4, Zenon DEF VmAnswers

LEMMA StutterKeepsIInv == IInv /\ UNCHANGED vars => IInv'
<1> SUFFICES ASSUME IInv, UNCHANGED vars PROVE IInv'
  OBVIOUS
<1> USE DEF vars, client, output, locals
<1>1. Handles' = Handles
  BY DEF Handles
<1>2. Owners' = Owners
  BY <1>1 DEF Owners
<1>3. TypeOK'
  BY <1>1 DEF IInv, BlocksOwnedOnce, TypeOK
<1>4. OwnedOnce(Owners, DOMAIN heap)'
  BY <1>2, OwnedAs DEF IInv, OwnedOnce
<1>5. CallOK' /\ OutputsOK' /\ LocalsOK'
  BY <1>1 DEF IInv, CallOK, OutputsOK, LocalsOK
<1> QED
  BY <1>3, <1>4, <1>5, Assembled

LEMMA StepIInv == IInv /\ [Next]_vars => IInv'
BY CompileKeepsIInv, MatchKeepsIInv, RefusalKeepsIInv, ReturnFreedKeepsIInv,
   ParseKeepsIInv, AllocateRegexKeepsIInv, AllocateRegexFailsKeepsIInv,
   CompileProgramKeepsIInv, CompileFailsKeepsIInv, MatchListFreeKeepsIInv,
   RegexFreeKeepsIInv, FreeKeepsIInv, VmAnswersKeepsIInv, StutterKeepsIInv
DEF Next

LEMMA Invariance == Spec => []IInv
BY InitIInv, StepIInv, PTL DEF Spec
-----------------------------------------------------------------------------
\* Whatever a client compiles, matches and frees, and wherever a call of it
\* fails, every block is to be freed once: none is lost and none is freed
\* twice (regex.c:155-190).
THEOREM OwnedOnceEach == Spec => []BlocksOwnedOnce
<1>1. IInv => BlocksOwnedOnce
  BY DEF IInv
<1> QED
  BY <1>1, Invariance, PTL
-----------------------------------------------------------------------------
\* The steps by which a call returns.
LEMMA ReturningSteps ==
    ASSUME IInv, Next, Returns
    PROVE  Refuse \/ ParseFails \/ VmFails \/ ReturnFreed \/ VmAnswers
<1>1. call' # call /\ pc # "idle"
  BY DEF Returns, NoCall, IInv, CallOK
<1>2. ~Compile /\ ~Match /\ ~RegexFree /\ ~MatchListFree
  <2>1. Compile => pc = "idle"
    BY DEF Compile
  <2>2. Match => pc = "idle"
    BY DEF Match
  <2> QED
    BY <1>1, <2>1, <2>2 DEF RegexFree, MatchListFree
<1>3. ~Parse /\ ~AllocateRegex /\ ~AllocateRegexFails
  BY <1>1 DEF Parse, AllocateRegex, AllocateRegexFails
<1>4. ~CompileProgram /\ ~CompileFails /\ ~Free
  BY <1>1 DEF CompileProgram, CompileFails, Free
<1> QED
  BY <1>2, <1>3, <1>4 DEF Next

LEMMA ReportStep ==
    IInv /\ [Next]_vars => [Returns => \A c \in {call} : IsReportOf(c)']_vars
<1> SUFFICES ASSUME IInv, Next, Returns, NEW c \in {call}
             PROVE  IsReportOf(c)'
  BY Zenon
<1>1. c = call /\ call.op # "none" /\ call' # call
  BY DEF Returns, NoCall
<1>2. CASE Refuse \/ ParseFails \/ VmFails
  <2>1. /\ returned' = FALSE /\ UNCHANGED <<matched, match>>
        /\ call.error => error' \in {"argument", "parser", "vm"}
    BY <1>2 DEF Refuse, ParseFails, VmFails, Failed, Return, Report
  <2> QED
    BY <2>1, <1>1 DEF IInv, OutputsOK, IsReportOf, NO_ERROR
<1>3. CASE ReturnFreed
  <2>1. /\ pc = "free" /\ call.op = "compile"
        /\ returned' = returned /\ UNCHANGED output
    BY <1>1, <1>3 DEF ReturnFreed, Return, IInv, CallOK
  <2> QED
    BY <2>1, <1>1 DEF IInv, OutputsOK, IsReportOf, output
<1>4. CASE VmAnswers
  <2>1. pc = "vm" /\ returned' = TRUE /\ error' = error
    BY <1>4 DEF VmAnswers, Return
  <2> QED
    BY <2>1, <1>1 DEF IInv, OutputsOK, IsReportOf
<1> QED
  BY <1>2, <1>3, <1>4, ReturningSteps

\* A call that returns leaves its own report in the variables it was given,
\* and nothing that an earlier call has left there (regex.c:126, 207-232,
\* 276-325).
THEOREM RepliesAreOwn == Spec => ReplyIsThisCalls
BY Invariance, ReportStep, PTL DEF Spec, ReplyIsThisCalls

LEMMA AnswerStep ==
    IInv /\ [Next]_vars =>
       [Returns /\ call.op # "compile" /\ returned' =>
           \A c \in {call} : IsAnswer(c, compiled[c.slot])']_vars
<1> SUFFICES ASSUME IInv, Next, Returns, call.op # "compile", returned',
                    NEW c \in {call}
             PROVE  IsAnswer(c, compiled[c.slot])'
  BY Zenon
<1>1. c = call /\ call.op # "none" /\ call' # call
  BY DEF Returns, NoCall
<1>2. VmAnswers
  <2>1. returned' # FALSE /\ pc # "free"
    BY <1>1 DEF IInv, CallOK
  <2>2. ~Refuse /\ ~ParseFails /\ ~VmFails /\ ~ReturnFreed
    BY <2>1 DEF Refuse, ParseFails, VmFails, ReturnFreed, Failed, Return
  <2> QED
    BY <2>2, ReturningSteps
<1>3. pc = "vm" /\ compiled' = compiled
  BY <1>2 DEF VmAnswers
<1>4. Found = Meaning[<<compiled[c.slot], c.text>>]
  BY <1>1, <1>3, FoundIsOfHandle DEF Found
<1>5. /\ call.op = "search" => match = NO_MATCH
      /\ call.op = "find_all" => list = NULL
  BY <1>3 DEF IInv, CallOK, OutputsOK
<1>6. CASE call.op = "full"
  BY <1>1, <1>2, <1>3, <1>4, <1>6 DEF VmAnswers, IsAnswer
<1>7. CASE call.op = "search"
  BY <1>1, <1>2, <1>3, <1>4, <1>5, <1>7 DEF VmAnswers, IsAnswer
<1>8. CASE call.op = "find_all"
  <2>1. Found.first = <<>> <=> list' = NULL
    BY <1>2, <1>5, <1>8, RegexAssumption DEF VmAnswers
  <2> QED
    BY <1>1, <1>3, <1>4, <1>8, <2>1 DEF IsAnswer
<1> QED
  BY <1>3, <1>6, <1>7, <1>8 DEF IInv, CallOK, Matching

\* A call that succeeds answers for the pattern the client has compiled to
\* the handle, whatever was compiled, matched and freed since.
THEOREM AnswersAreOfHandle == Spec => AnswersAreRight
BY Invariance, AnswerStep, PTL DEF Spec, AnswersAreRight
=============================================================================
