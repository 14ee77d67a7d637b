--------------------------- MODULE LoweringProofs ----------------------------
(***************************************************************************)
(* For token sequences of any length and stacks of any capacity, of the    *)
(* lowering that follows the parser: every node of its result is owned     *)
(* once, whichever allocation fails, its calls are no deeper than the      *)
(* parse tree is high, it keeps the promise of ParserSpec, and the tree it *)
(* returns means what the pattern means.                                   *)
(***************************************************************************)
EXTENDS LoweringMeaning, ParserProofs
-----------------------------------------------------------------------------
(* The lowering: its invariant.                                            *)

ListProductions == {"ALTERNATION", "CONCATENATION"}
ListTails == {"ALTERNATION_TAIL_PIPE", "CONCATENATION_TAIL_REPETITION"}
EmptyTails == {"ALTERNATION_TAIL_EMPTY", "CONCATENATION_TAIL_EMPTY"}
Callable == ListProductions \cup {"REPETITION"} \cup AtomProductions

\* The tree that the lower_ functions are given is whole.
Parsed == /\ pc = "done" /\ tokens \in Inputs
          /\ TreeOK(tree) /\ ExpandedOK(tree) /\ TokensOK(tree)
          /\ PendingOK(tree, <<>>)

\* A waiting call is of a function for its node, and only one that lowers a
\* tail holds something.
WaitsOK(f) ==
    /\ f.node \in DOMAIN tree
    /\ f.waits = "first" => tree[f.node].production \in ListProductions
    /\ f.waits = "atom" => tree[f.node].production = "REPETITION"
    /\ f.waits = "next" => tree[f.node].production \in ListTails
    /\ f.held = NULL_NODE <=> f.waits # "next"

\* What is on its way, while the lowering is in this mode.
OnItsWay(m, l) == IF m = "call" THEN NULL_NODE ELSE l

\* That and what the calls hold.
Holding(first, frs) == [i \in 0 .. Len(frs) |->
                           IF i > 0 THEN frs[i].held ELSE first]

\* None of it twice.
HeldOnce(held) ==
    \A i \in DOMAIN held, j \in DOMAIN held :
        held[i] = held[j] => held[i] = NULL_NODE \/ i = j

HeldBy(held) == {held[i] : i \in DOMAIN held} \ {NULL_NODE}

\* The nodes `own` are trees that have these roots and share nothing.
OwnedOK(ns, own, roots) ==
    /\ own \subseteq DOMAIN ns /\ roots \subseteq own
    /\ \A n \in own : Children(ns[n]) \subseteq own \cap 1 .. n - 1
    /\ \A p \in own, q \in own : \A c \in Children(ns[p]) :
          c \in Children(ns[q]) => p = q
    /\ \A n \in own :
          n \in roots <=> \A p \in own : n \notin Children(ns[p])

\* HeightOf, for every node.
Heights == LET height[n \in DOMAIN tree] ==
                   IF tree[n].children = <<>> THEN 1
                   ELSE 1 + Max({height[c] :
                                    c \in ToSet(tree[n].children)})
           IN  height

\* The calls: each is of a node below the one that its caller is of.
CallsOK(m, t, l, frs) ==
    /\ t \in 0 .. Len(tree) /\ frs \in Seq(Frame)
    /\ \A i \in DOMAIN frs :
          WaitsOK(frs[i]) /\ Heights[frs[i].node] + i <= Heights[ROOT]
    /\ m \in {"call", "tail"} =>
          t \in DOMAIN tree /\ Heights[t] + Len(frs) < Heights[ROOT]
    /\ m = "call" => tree[t].production \in Callable
    /\ m = "tail" => /\ tree[t].production \in ListTails \cup EmptyTails
                     /\ l # NULL_NODE

\* What is lowered already, and who has it.
ResultOK(m, l, frs, ns, pos, own) ==
    /\ ns \in Seq(AstNode) /\ pos \in [DOMAIN ns -> 0 .. Len(tokens)]
    /\ l \in 0 .. Len(ns)
    /\ HeldOnce(Holding(OnItsWay(m, l), frs))
    /\ OwnedOK(ns, own, HeldBy(Holding(OnItsWay(m, l), frs)))

MessageOK == /\ error \in {NoError} \cup ParserErrors \cup LoweringErrors
             /\ position \in 0 .. Len(tokens)

LoweringIInv ==
    /\ mode \in {"idle", "call", "tail", "return", "over"}
    /\ parsed \in BOOLEAN
    /\ mode = "idle" =>
          /\ IInv
          /\ target = NULL_NODE /\ left = NULL_NODE /\ frames = <<>>
          /\ ast = <<>> /\ positions = <<>> /\ owned = {}
          /\ parsed => pc = "done" /\ error # NoError
    /\ mode # "idle" =>
          /\ StateOK /\ MessageOK /\ Parsed
          /\ CallsOK(mode, target, left, frames)
          /\ ResultOK(mode, left, frames, ast, positions, owned)
          /\ parsed <=> mode = "over"
          /\ live = IF parsed THEN {} ELSE DOMAIN tree
    /\ mode = "over" => frames = <<>>
-----------------------------------------------------------------------------
\* The trees that ast_free releases.
Rooted(ns, own, root, found) ==
    /\ root \in found /\ found \subseteq own
    /\ \A n \in found : Children(ns[n]) \subseteq found
    /\ \A m \in found :
          m = root \/ \E p \in found : m \in Children(ns[p])

\* TreeOf finds the nodes below a root and no others.
LEMMA TreeOfIsRooted ==
    ASSUME NEW N \in Nat, N = Len(ast), NEW own, NEW root, root \in own,
           own \subseteq 1 .. N,
           \A n \in own : Children(ast[n]) \subseteq own \cap 1 .. n - 1
    PROVE  Rooted(ast, own, root, TreeOf(root))
<1> DEFINE Via(n, found) == IF n \in found THEN found \cup Children(ast[n])
                            ELSE found
           From == CHOOSE from : from = [n \in 1 .. N + 1 |->
                                            IF n = N + 1 THEN {root}
                                            ELSE Via(n, from[n + 1])]
           S == SUBSET own
           step == [k \in 1 .. N |-> [found \in S |-> Via(N + 1 - k, found)]]
<1>2. TreeOf(root) = From[1]
  BY DEF TreeOf
<1>3. \A n \in 1 .. N : \A found \in S : Via(n, found) \in S
  OBVIOUS
<1> HIDE DEF Via
<1>4. step \in [1 .. N -> [S -> S]]
  <2>1. \A k \in 1 .. N : N + 1 - k \in 1 .. N
    OBVIOUS
  <2> QED
    BY <1>3, <2>1
<1>5. \A k \in 1 .. N : \A found \in S :
         step[k][found] = Via(N + 1 - k, found)
  OBVIOUS
<1> HIDE DEF step
<1>6. \E from \in [1 .. N + 1 -> S] :
         from = [n \in 1 .. N + 1 |-> IF n = N + 1 THEN {root}
                                      ELSE Via(n, from[n + 1])]
  <2> DEFINE first == {root}
  <2>1. first \in S /\ N \in Nat /\ StepsUp(step, N, S)
    BY <1>4 DEF StepsUp
  <2> HIDE DEF first, S
  <2>2. PICK f \in [0 .. N -> S] :
              /\ f[0] = first
              /\ \A k \in 1 .. N : f[k] = step[k][f[k - 1]]
    BY ONLY <2>1, UpwardFunction
  <2> DEFINE from == [n \in 1 .. N + 1 |-> f[N + 1 - n]]
  <2>3. \A n \in 1 .. N + 1 : N + 1 - n \in 0 .. N
    OBVIOUS
  <2>4. from \in [1 .. N + 1 -> S]
        /\ \A n \in 1 .. N + 1 : from[n] = f[N + 1 - n]
    BY <2>3
  <2> HIDE DEF from
  <2>5. N + 1 \in 1 .. N + 1 /\ from[N + 1] = first
    <3>1. N + 1 \in 1 .. N + 1 /\ N + 1 - (N + 1) = 0
      OBVIOUS
    <3> QED
      BY <3>1, <2>2, <2>4
  <2>6. ASSUME NEW n \in 1 .. N PROVE from[n] = Via(n, from[n + 1])
    <3> DEFINE k == N + 1 - n
    <3>1. /\ k \in 1 .. N /\ k - 1 \in 0 .. N /\ N + 1 - k = n
          /\ n \in 1 .. N + 1 /\ n + 1 \in 1 .. N + 1
          /\ N + 1 - (n + 1) = k - 1
      OBVIOUS
    <3> HIDE DEF k
    <3>2. from[n] = f[k] /\ from[n + 1] = f[k - 1] /\ f[k - 1] \in S
      BY <3>1, <2>4 DEF k
    <3>3. f[k] = step[k][f[k - 1]]
      BY <3>1, <2>2, Zenon
    <3>4. step[k][f[k - 1]] = Via(N + 1 - k, f[k - 1])
      BY <3>1, <3>2, <1>5, Zenon
    <3> QED
      BY ONLY <3>1, <3>2, <3>3, <3>4
  <2>7. from = [n \in 1 .. N + 1 |-> IF n = N + 1 THEN {root}
                                     ELSE Via(n, from[n + 1])]
    <3>1. \A n \in 1 .. N + 1 : n = N + 1 \/ n \in 1 .. N
      OBVIOUS
    <3> QED
      BY <3>1, <2>4, <2>5, <2>6 DEF first
  <2> QED
    BY <2>4, <2>7
<1>7. From = [n \in 1 .. N + 1 |-> IF n = N + 1 THEN {root}
                                   ELSE Via(n, From[n + 1])]
  BY <1>6
<1> HIDE DEF From
<1>8. /\ From[N + 1] = {root}
      /\ \A n \in 1 .. N : From[n] = Via(n, From[n + 1])
  <2>1. N + 1 \in 1 .. N + 1 /\ \A n \in 1 .. N : n \in 1 .. N + 1 /\ n # N + 1
    OBVIOUS
  <2> QED
    BY <1>7, <2>1
<1> DEFINE Fine(n) ==
      /\ root \in From[n] /\ From[n] \subseteq own
      /\ \A m \in From[n] : m >= n => Children(ast[m]) \subseteq From[n]
      /\ \A m \in From[n] :
            m = root \/ \E p \in From[n] : m \in Children(ast[p])
<1>9. Fine(N + 1)
  BY <1>8
<1>10. ASSUME NEW n \in 1 .. N, Fine(n + 1) PROVE Fine(n)
  <2>1. From[n] = Via(n, From[n + 1])
    BY <1>8
  <2>4. \A m \in From[n + 1] : m \in Nat
    <3>1. From[n + 1] \subseteq own
      BY <1>10
    <3>2. own \subseteq Nat
      OBVIOUS
    <3> QED
      BY ONLY <3>1, <3>2
  <2>2. CASE n \notin From[n + 1]
    <3>1. From[n] = From[n + 1]
      BY <2>1, <2>2 DEF Via
    <3>2. \A m \in From[n] : m >= n => m >= n + 1
      <4>1. \A m \in From[n] : m \in Nat /\ m # n
        BY ONLY <3>1, <2>2, <2>4
      <4> QED
        BY <4>1
    <3> QED
      BY <3>1, <3>2, <1>10
  <2>3. CASE n \in From[n + 1]
    <3>1. From[n] = From[n + 1] \cup Children(ast[n])
      BY <2>1, <2>3 DEF Via
    <3>2. n \in own /\ Children(ast[n]) \subseteq own
          /\ Children(ast[n]) \subseteq 1 .. n - 1
      BY <2>3, <1>10
    <3>3. \A m \in From[n] : m >= n =>
             m = n \/ (m \in From[n + 1] /\ m >= n + 1)
      <4>1. \A m \in From[n + 1] : m \in Nat
        BY <2>4
      <4>2. \A m \in Children(ast[n]) : m \in Nat /\ m < n
        BY <3>2
      <4> QED
        BY <3>1, <4>1, <4>2
    <3>4. \A m \in From[n] : m >= n => Children(ast[m]) \subseteq From[n]
      BY <3>1, <3>3, <1>10
    <3>5. ASSUME NEW m \in From[n]
          PROVE  m = root \/ \E p \in From[n] : m \in Children(ast[p])
      BY <3>1, <2>3, <1>10
    <3> QED
      BY <3>1, <3>2, <3>4, <3>5, <1>10
  <2> QED
    BY <2>2, <2>3
<1> DEFINE G == {k \in 0 .. N : Fine(N + 1 - k)}
<1>11. 0 \in G
  <2>1. N + 1 - 0 = N + 1 /\ 0 \in 0 .. N
    OBVIOUS
  <2> HIDE DEF Fine
  <2> QED
    BY <2>1, <1>9
<1>12. ASSUME NEW k \in 1 .. N, k - 1 \in G PROVE k \in G
  <2> HIDE DEF Fine
  <2>1. /\ N + 1 - k \in 1 .. N /\ N + 1 - (k - 1) = (N + 1 - k) + 1
        /\ k \in 0 .. N
    OBVIOUS
  <2> QED
    BY <2>1, <1>10, <1>12
<1>13. N \in G
  <2> HIDE DEF G
  <2>1. 0 .. N \subseteq G
    BY ONLY N \in Nat, <1>11, <1>12, Upwards
  <2> QED
    BY <2>1
<1>14. Fine(1)
  <2> HIDE DEF Fine
  <2>1. N + 1 - N = 1
    OBVIOUS
  <2> QED
    BY <2>1, <1>13
<1>15. \A m \in From[1] : m >= 1
  <2>1. \A m \in From[1] : m \in 1 .. N
    BY <1>14
  <2> QED
    BY <2>1
<1> QED
  BY <1>2, <1>14, <1>15 DEF Rooted

\* ast_free of some of the roots leaves the other trees.
LEMMA Freed ==
    ASSUME NEW N \in Nat, N = Len(ast), DOMAIN ast = 1 .. N,
           NEW own, NEW roots, OwnedOK(ast, own, roots),
           NEW R, R \subseteq roots
    PROVE  OwnedOK(ast, own \ UNION {TreeOf(root) : root \in R}, roots \ R)
<1> DEFINE gone == UNION {TreeOf(root) : root \in R}
<1>1. /\ own \subseteq 1 .. N /\ roots \subseteq own
      /\ \A n \in own : Children(ast[n]) \subseteq own \cap 1 .. n - 1
      /\ \A p \in own, q \in own : \A c \in Children(ast[p]) :
            c \in Children(ast[q]) => p = q
      /\ \A n \in own :
            n \in roots <=> \A p \in own : n \notin Children(ast[p])
  BY DEF OwnedOK
<1>2. ASSUME NEW root \in R PROVE Rooted(ast, own, root, TreeOf(root))
  <2>1. root \in own
    BY <1>1
  <2> QED
    BY ONLY N \in Nat, N = Len(ast), <1>1, <2>1, TreeOfIsRooted
<1>3. /\ R \subseteq gone /\ gone \subseteq own
      /\ \A n \in gone : Children(ast[n]) \subseteq gone
      /\ \A m \in gone : m \in R \/ \E p \in gone : m \in Children(ast[p])
  BY <1>2 DEF Rooted
<1> HIDE DEF gone
<1>4. own \ gone \subseteq 1 .. N
  BY <1>1
<1>5. roots \ R \subseteq own \ gone
  <2> SUFFICES ASSUME NEW r \in roots, r \notin R, r \in gone PROVE FALSE
    BY <1>1
  <2>1. PICK p \in gone : r \in Children(ast[p])
    BY <1>3
  <2> QED
    BY <2>1, <1>1, <1>3
<1>6. ASSUME NEW n \in own \ gone
      PROVE  Children(ast[n]) \subseteq (own \ gone) \cap 1 .. n - 1
  <2> SUFFICES ASSUME NEW c \in Children(ast[n]), c \in gone PROVE FALSE
    BY <1>1
  <2>1. c \notin roots
    BY <1>1, <1>3
  <2>2. PICK p \in gone : c \in Children(ast[p])
    BY <2>1, <1>3
  <2>3. p = n
    BY <2>2, <1>1, <1>3
  <2> QED
    BY <2>2, <2>3
<1>7. \A p \in own \ gone, q \in own \ gone : \A c \in Children(ast[p]) :
         c \in Children(ast[q]) => p = q
  BY <1>1
<1>8. ASSUME NEW n \in own \ gone
      PROVE  n \in roots \ R <=>
                \A p \in own \ gone : n \notin Children(ast[p])
  BY <1>1, <1>3
<1> QED
  BY <1>4, <1>5, <1>6, <1>7, <1>8 DEF OwnedOK, gone

\* A new node takes over some of the roots as its children.
LEMMA Made ==
    ASSUME NEW N \in Nat, DOMAIN ast = 1 .. N,
           NEW own, NEW roots, OwnedOK(ast, own, roots),
           NEW new, DOMAIN new = 1 .. N + 1,
           \A n \in 1 .. N : new[n] = ast[n],
           NEW R, R = Children(new[N + 1]), R \subseteq roots
    PROVE  OwnedOK(new, own \cup {N + 1}, (roots \ R) \cup {N + 1})
<1> DEFINE M == N + 1
<1>1. /\ own \subseteq 1 .. N /\ roots \subseteq own
      /\ \A n \in own : Children(ast[n]) \subseteq own \cap 1 .. n - 1
      /\ \A p \in own, q \in own : \A c \in Children(ast[p]) :
            c \in Children(ast[q]) => p = q
      /\ \A n \in own :
            n \in roots <=> \A p \in own : n \notin Children(ast[p])
  BY DEF OwnedOK
<1>2. M \notin own /\ M - 1 = N /\ own \cup {M} \subseteq 1 .. M
  BY <1>1
<1>3. \A n \in own : Children(new[n]) = Children(ast[n])
  BY <1>1
<1>4. R = Children(new[M]) /\ DOMAIN new = 1 .. M
  OBVIOUS
<1> HIDE DEF M
<1>5. (roots \ R) \cup {M} \subseteq own \cup {M}
  BY <1>1
<1>6. \A n \in own \cup {M} :
         Children(new[n]) \subseteq (own \cup {M}) \cap 1 .. n - 1
  <2>1. R \subseteq own \cap 1 .. M - 1
    BY <1>1, <1>2
  <2> QED
    BY <2>1, <1>1, <1>3, <1>4
<1>7. ASSUME NEW p \in own \cup {M}, NEW q \in own \cup {M},
             NEW c \in Children(new[p]), c \in Children(new[q])
      PROVE  p = q
  <2>1. CASE p \in own /\ q \in own
    BY <2>1, <1>1, <1>3, <1>7
  <2>2. \A r \in own : \A e \in Children(new[r]) : e \notin R
    BY <1>1, <1>3
  <2>3. CASE p = M \/ q = M
    BY <2>2, <2>3, <1>4, <1>7
  <2> QED
    BY <2>1, <2>3
<1>8. ASSUME NEW n \in own \cup {M}
      PROVE  n \in (roots \ R) \cup {M} <=>
                \A p \in own \cup {M} : n \notin Children(new[p])
  <2>1. CASE n = M
    <3>1. \A p \in own \cup {M} : Children(new[p]) \subseteq own
      BY <1>1, <1>3, <1>4
    <3> QED
      BY <2>1, <3>1, <1>2
  <2>2. CASE n # M
    BY <2>2, <1>1, <1>3, <1>4
  <2> QED
    BY <2>1, <2>2
<1>9. OwnedOK(new, own \cup {M}, (roots \ R) \cup {M})
  BY <1>2, <1>4, <1>5, <1>6, <1>7, <1>8 DEF OwnedOK
<1> QED
  BY <1>9 DEF M
-----------------------------------------------------------------------------
(* Who holds what.                                                         *)

\* A frame is pushed that holds what was on its way.
LEMMA HoldsPushed ==
    ASSUME NEW first, NEW frs, NEW K \in Nat, Len(frs) = K,
           NEW frs2, Len(frs2) = K + 1,
           \A i \in 1 .. K : frs2[i] = frs[i], frs2[K + 1].held = first,
           HeldOnce(Holding(first, frs))
    PROVE  /\ HeldOnce(Holding(NULL_NODE, frs2))
           /\ HeldBy(Holding(NULL_NODE, frs2)) = HeldBy(Holding(first, frs))
<1> DEFINE h == Holding(first, frs)
           g == Holding(NULL_NODE, frs2)
<1>1. /\ DOMAIN h = 0 .. K /\ h[0] = first
      /\ \A i \in 1 .. K : h[i] = frs[i].held
  BY DEF Holding
<1>2. /\ DOMAIN g = 0 .. K + 1 /\ g[0] = NULL_NODE
      /\ \A i \in 1 .. K : g[i] = frs[i].held
      /\ g[K + 1] = first
  BY DEF Holding
<1>3. \A i \in 0 .. K, j \in 0 .. K :
         h[i] = h[j] => h[i] = NULL_NODE \/ i = j
  BY <1>1 DEF HeldOnce
<1> HIDE DEF h, g
<1> DEFINE Old(i) == IF i = K + 1 THEN 0 ELSE i
<1>4. \A i \in 0 .. K + 1 : /\ Old(i) \in 0 .. K
                            /\ i # 0 => g[i] = h[Old(i)]
  BY <1>1, <1>2
<1>5. \A i \in 1 .. K + 1, j \in 1 .. K + 1 : Old(i) = Old(j) => i = j
  OBVIOUS
<1>6. \A i \in 0 .. K + 1 : i = 0 \/ i \in 1 .. K + 1
  OBVIOUS
<1>7. \A i \in 0 .. K : \E j \in 1 .. K + 1 : i = Old(j)
  <2> TAKE i \in 0 .. K
  <2>1. CASE i = 0
    BY <2>1
  <2>2. CASE i # 0
    BY <2>2
  <2> QED
    BY <2>1, <2>2
<1> HIDE DEF Old
<1>8. \A i \in 0 .. K + 1, j \in 0 .. K + 1 :
         g[i] = g[j] => g[i] = NULL_NODE \/ i = j
  BY <1>2, <1>3, <1>4, <1>5, <1>6, SMTT(30)
<1>9. \A i \in 1 .. K + 1 : i \in 0 .. K + 1
  OBVIOUS
<1>10. HeldBy(g) = HeldBy(h)
  <2>1. /\ HeldBy(g) = {g[i] : i \in 0 .. K + 1} \ {NULL_NODE}
        /\ HeldBy(h) = {h[i] : i \in 0 .. K} \ {NULL_NODE}
    BY <1>1, <1>2 DEF HeldBy
  <2>2. ASSUME NEW v \in HeldBy(g) PROVE v \in HeldBy(h)
    <3>1. PICK i \in 0 .. K + 1 : v = g[i] /\ v # NULL_NODE
      BY <2>1
    <3>2. i # 0
      BY <3>1, <1>2
    <3> QED
      BY <2>1, <3>1, <3>2, <1>4
  <2>3. ASSUME NEW v \in HeldBy(h) PROVE v \in HeldBy(g)
    <3>1. PICK i \in 0 .. K : v = h[i] /\ v # NULL_NODE
      BY <2>1
    <3>2. PICK j \in 1 .. K + 1 : i = Old(j)
      BY <1>7
    <3>3. j \in 0 .. K + 1 /\ j # 0
      BY <1>9
    <3> QED
      BY <2>1, <3>1, <3>2, <3>3, <1>4
  <2> QED
    BY <2>2, <2>3
<1>11. HeldOnce(g)
  BY <1>2, <1>8 DEF HeldOnce
<1> QED
  BY <1>10, <1>11 DEF g, h

\* What is on its way is replaced, and the call on top leaves or holds no
\* more: by something new, by nothing, or not at all.
LEMMA HoldsChanged ==
    ASSUME NEW first, NEW frs, NEW K \in Nat \ {0}, Len(frs) = K,
           NEW K2 \in K - 1 .. K, NEW frs2, Len(frs2) = K2,
           \A i \in 1 .. K - 1 : frs2[i] = frs[i],
           K2 = K => frs2[K].held = NULL_NODE,
           HeldOnce(Holding(first, frs)),
           NEW y, \/ y \in {first, NULL_NODE}
                  \/ y \notin HeldBy(Holding(first, frs))
    PROVE  /\ HeldOnce(Holding(y, frs2))
           /\ HeldBy(Holding(y, frs2)) =
                 (HeldBy(Holding(first, frs)) \ {first, frs[K].held})
                    \cup ({y} \ {NULL_NODE})
<1> DEFINE h == Holding(first, frs)
           g == Holding(y, frs2)
<1>1. /\ DOMAIN h = 0 .. K /\ h[0] = first /\ h[K] = frs[K].held
      /\ \A i \in 1 .. K : h[i] = frs[i].held
  BY DEF Holding
<1>2. /\ DOMAIN g = 0 .. K2 /\ g[0] = y
      /\ \A i \in 1 .. K - 1 : g[i] = h[i]
      /\ K2 = K => g[K] = NULL_NODE
  BY <1>1 DEF Holding
<1>3. \A i \in 0 .. K, j \in 0 .. K :
         h[i] = h[j] => h[i] = NULL_NODE \/ i = j
  BY <1>1 DEF HeldOnce
<1>4. y \in {first, NULL_NODE} \/ y \notin HeldBy(h)
  OBVIOUS
<1>5. HeldBy(h) = {h[i] : i \in 0 .. K} \ {NULL_NODE}
  BY <1>1 DEF HeldBy
<1>6. HeldBy(g) = {g[i] : i \in 0 .. K2} \ {NULL_NODE}
  BY <1>2 DEF HeldBy
<1> HIDE DEF h, g
<1>7. /\ \A i \in 0 .. K2 : i = 0 \/ i \in 1 .. K - 1 \/ (i = K /\ K2 = K)
      /\ \A i \in 0 .. K : i = 0 \/ i \in 1 .. K - 1 \/ i = K
      /\ \A i \in 1 .. K - 1 : i \in 0 .. K2 /\ i \in 0 .. K /\ i # 0 /\ i # K
      /\ 0 \in 0 .. K2 /\ 0 \in 0 .. K /\ K \in 0 .. K
  OBVIOUS
<1>8. \A i \in 1 .. K - 1 : h[i] # NULL_NODE => h[i] # first /\ h[i] # h[K]
  BY <1>1, <1>3, <1>7
<1>9. \A i \in 1 .. K - 1 : h[i] = y => h[i] = NULL_NODE
  BY <1>4, <1>5, <1>7, <1>8
<1>10. ASSUME NEW i \in 0 .. K2, NEW j \in 0 .. K2, g[i] = g[j]
       PROVE  g[i] = NULL_NODE \/ i = j
  BY <1>2, <1>3, <1>7, <1>9, <1>10
<1>11. HeldOnce(g)
  BY <1>2, <1>10 DEF HeldOnce
<1>12. HeldBy(g) = (HeldBy(h) \ {first, h[K]}) \cup ({y} \ {NULL_NODE})
  <2>1. ASSUME NEW v \in HeldBy(g)
        PROVE  v \in (HeldBy(h) \ {first, h[K]}) \cup ({y} \ {NULL_NODE})
    BY <1>2, <1>5, <1>6, <1>7, <1>8
  <2>2. ASSUME NEW v \in HeldBy(h) \ {first, h[K]} PROVE v \in HeldBy(g)
    BY <1>1, <1>2, <1>5, <1>6, <1>7
  <2>3. y # NULL_NODE => y \in HeldBy(g)
    BY <1>2, <1>6, <1>7
  <2> QED
    BY <2>1, <2>2, <2>3
<1> QED
  BY <1>1, <1>11, <1>12 DEF g, h

\* What is on its way is replaced and the calls stay.
LEMMA HoldsReplaced ==
    ASSUME NEW first, NEW frs, NEW K \in Nat, Len(frs) = K,
           HeldOnce(Holding(first, frs)),
           NEW y, \/ y \in {first, NULL_NODE}
                  \/ y \notin HeldBy(Holding(first, frs))
    PROVE  /\ HeldOnce(Holding(y, frs))
           /\ HeldBy(Holding(y, frs)) =
                 (HeldBy(Holding(first, frs)) \ {first})
                    \cup ({y} \ {NULL_NODE})
<1> DEFINE h == Holding(first, frs)
           g == Holding(y, frs)
<1>1. DOMAIN h = 0 .. K /\ h[0] = first
  BY DEF Holding
<1>2. DOMAIN g = 0 .. K /\ g[0] = y /\ \A i \in 1 .. K : g[i] = h[i]
  BY DEF Holding
<1>3. \A i \in 0 .. K, j \in 0 .. K :
         h[i] = h[j] => h[i] = NULL_NODE \/ i = j
  BY <1>1 DEF HeldOnce
<1>4. y \in {first, NULL_NODE} \/ y \notin HeldBy(h)
  OBVIOUS
<1>5. HeldBy(h) = {h[i] : i \in 0 .. K} \ {NULL_NODE}
  BY <1>1 DEF HeldBy
<1>6. HeldBy(g) = {g[i] : i \in 0 .. K} \ {NULL_NODE}
  BY <1>2 DEF HeldBy
<1> HIDE DEF h, g
<1>7. /\ \A i \in 0 .. K : i = 0 \/ i \in 1 .. K
      /\ \A i \in 1 .. K : i \in 0 .. K /\ i # 0
      /\ 0 \in 0 .. K
  OBVIOUS
<1>8. \A i \in 1 .. K : h[i] # NULL_NODE => h[i] # first
  BY <1>1, <1>3, <1>7
<1>9. \A i \in 1 .. K : h[i] = y => h[i] = NULL_NODE
  BY <1>4, <1>5, <1>7, <1>8
<1>10. ASSUME NEW i \in 0 .. K, NEW j \in 0 .. K, g[i] = g[j]
       PROVE  g[i] = NULL_NODE \/ i = j
  BY <1>2, <1>3, <1>7, <1>9, <1>10
<1>11. HeldOnce(g)
  BY <1>2, <1>10 DEF HeldOnce
<1>12. HeldBy(g) = (HeldBy(h) \ {first}) \cup ({y} \ {NULL_NODE})
  <2>1. ASSUME NEW v \in HeldBy(g)
        PROVE  v \in (HeldBy(h) \ {first}) \cup ({y} \ {NULL_NODE})
    BY <1>2, <1>5, <1>6, <1>7, <1>8
  <2>2. ASSUME NEW v \in HeldBy(h) \ {first} PROVE v \in HeldBy(g)
    BY <1>1, <1>2, <1>5, <1>6, <1>7
  <2>3. y # NULL_NODE => y \in HeldBy(g)
    BY <1>2, <1>6, <1>7
  <2> QED
    BY <2>1, <2>2, <2>3
<1> QED
  BY <1>11, <1>12 DEF g, h
-----------------------------------------------------------------------------
(* How high the tree is.                                                   *)

\* Max of what up to three values are.
LEMMA MaxOfThree ==
    ASSUME NEW k \in 1 .. 3, NEW value, \A i \in 1 .. k : value[i] \in Nat
    PROVE  LET m == Max({value[i] : i \in 1 .. k})
           IN  m \in Nat /\ \A i \in 1 .. k : value[i] <= m
<1> DEFINE S == {value[i] : i \in 1 .. k}
<1>1. \E x \in S : \A y \in S : x >= y
  <2>1. CASE k = 1
    <3>1. 1 .. k = {1}
      BY <2>1
    <3> QED
      BY <3>1
  <2>2. CASE k = 2
    <3>1. 1 .. k = {1, 2}
      BY <2>2
    <3> QED
      BY <3>1
  <2>3. CASE k = 3
    <3>1. 1 .. k = {1, 2, 3}
      BY <2>3
    <3> QED
      BY <3>1
  <2> QED
    BY <2>1, <2>2, <2>3
<1>2. Max(S) \in S /\ \A y \in S : Max(S) >= y
  BY <1>1 DEF Max
<1>3. \A y \in S : y \in Nat
  OBVIOUS
<1> QED
  BY <1>2, <1>3

\* A node of a tree that is whole is higher than its children.
LEMMA HeightsFall ==
    ASSUME TreeOK(tree), ExpandedOK(tree)
    PROVE  \A n \in DOMAIN tree :
              /\ Heights[n] \in Nat \ {0}
              /\ \A i \in DOMAIN tree[n].children :
                    /\ tree[n].children[i] \in DOMAIN tree
                    /\ Heights[tree[n].children[i]] + 1 <= Heights[n]
<1> DEFINE N == Len(tree)
           Step(n, h) == IF tree[n].children = <<>> THEN 1
                         ELSE 1 + Max({h[c] : c \in ToSet(tree[n].children)})
           H == CHOOSE height : height = [n \in DOMAIN tree |->
                                             Step(n, height)]
           step == [n \in 1 .. N |-> [g \in [1 .. N -> Nat] |-> Step(n, g)]]
<1>1. N \in Nat \ {0} /\ DOMAIN tree = 1 .. N
  BY DEF TreeOK
<1>2. Heights = H
  BY DEF Heights
<1>3. ASSUME NEW n \in 1 .. N, tree[n].children # <<>>
      PROVE  \E k \in 1 .. 3 :
                /\ DOMAIN tree[n].children = 1 .. k
                /\ \A i \in 1 .. k : tree[n].children[i] \in n + 1 .. N
  <2>1. tree[n] \in ParseTreeNode
    BY <1>1 DEF TreeOK
  <2>2. tree[n].children \in Seq(Nat)
    BY <2>1 DEF ParseTreeNode
  <2>3. Len(tree[n].children) <= 3
    BY <1>1 DEF TreeOK
  <2>4. \A i \in DOMAIN tree[n].children :
           tree[n].children[i] \in {NO_NODE} \cup n + 1 .. N
    BY <1>1 DEF TreeOK
  <2>5. \A i \in DOMAIN tree[n].children : tree[n].children[i] # NO_NODE
    BY <1>1 DEF ExpandedOK
  <2>6. PICK k \in Nat : k = Len(tree[n].children)
    BY <2>2
  <2>7. DOMAIN tree[n].children = 1 .. k /\ k # 0
    BY <2>2, <2>6, <1>3
  <2>8. k \in 1 .. 3
    <3>1. k \in Nat /\ k # 0 /\ k <= 3
      BY <2>3, <2>6, <2>7
    <3> QED
      BY ONLY <3>1
  <2> QED
    BY <2>4, <2>5, <2>7, <2>8
<1> HIDE DEF N
<1>4. ASSUME NEW n \in 1 .. N, NEW h, \A m \in n + 1 .. N : h[m] \in Nat
      PROVE  /\ Step(n, h) \in Nat \ {0}
             /\ \A i \in DOMAIN tree[n].children :
                   /\ tree[n].children[i] \in 1 .. N
                   /\ h[tree[n].children[i]] + 1 <= Step(n, h)
  <2>1. CASE tree[n].children = <<>>
    <3>1. DOMAIN tree[n].children = {}
      BY <2>1
    <3> QED
      BY <2>1, <3>1
  <2>2. CASE tree[n].children # <<>>
    <3>1. PICK k \in 1 .. 3 :
             /\ DOMAIN tree[n].children = 1 .. k
             /\ \A i \in 1 .. k : tree[n].children[i] \in n + 1 .. N
      BY <2>2, <1>3
    <3> DEFINE value == [i \in 1 .. k |-> h[tree[n].children[i]]]
               m == Max({value[i] : i \in 1 .. k})
    <3>2. {h[c] : c \in ToSet(tree[n].children)} = {value[i] : i \in 1 .. k}
      BY <3>1 DEF ToSet
    <3>3. Step(n, h) = 1 + m
      BY <2>2, <3>2
    <3>4. \A i \in 1 .. k : /\ value[i] = h[tree[n].children[i]]
                            /\ value[i] \in Nat
      BY <3>1, <1>4
    <3> HIDE DEF value
    <3>5. m \in Nat /\ \A i \in 1 .. k : value[i] <= m
      BY ONLY <3>4, MaxOfThree
    <3> HIDE DEF m, Step
    <3>6. \A i \in 1 .. k : tree[n].children[i] \in 1 .. N
      BY <1>1, <3>1
    <3>7. \A i \in 1 .. k : h[tree[n].children[i]] + 1 <= 1 + m
      BY <3>4, <3>5
    <3> QED
      BY <3>1, <3>3, <3>5, <3>6, <3>7
  <2> QED
    BY <2>1, <2>2
<1>5. ASSUME NEW n \in 1 .. N, NEW g, NEW h,
             \A m \in n + 1 .. N : g[m] = h[m]
      PROVE  Step(n, g) = Step(n, h)
  <2>1. CASE tree[n].children = <<>>
    BY <2>1
  <2>2. CASE tree[n].children # <<>>
    <3>1. PICK k \in 1 .. 3 :
             /\ DOMAIN tree[n].children = 1 .. k
             /\ \A i \in 1 .. k : tree[n].children[i] \in n + 1 .. N
      BY <2>2, <1>3
    <3>2. \A c \in ToSet(tree[n].children) : g[c] = h[c]
      BY <3>1, <1>5 DEF ToSet
    <3>3. {g[c] : c \in ToSet(tree[n].children)} =
             {h[c] : c \in ToSet(tree[n].children)}
      BY <3>2
    <3> QED
      BY <3>3
  <2> QED
    BY <2>1, <2>2
<1> HIDE DEF Step
<1>6. StepsDown(step, N, Nat)
  <2>1. \A n \in 1 .. N : \A g \in [1 .. N -> Nat] :
           step[n][g] = Step(n, g) /\ Step(n, g) \in Nat
    <3> TAKE n \in 1 .. N
    <3> TAKE g \in [1 .. N -> Nat]
    <3>1. \A m \in n + 1 .. N : g[m] \in Nat
      BY <1>1
    <3> QED
      BY <3>1, <1>4
  <2>2. step \in [1 .. N -> [[1 .. N -> Nat] -> Nat]]
    BY <2>1
  <2>3. \A n \in 1 .. N : \A g \in [1 .. N -> Nat], h \in [1 .. N -> Nat] :
           (\A m \in n + 1 .. N : g[m] = h[m]) => step[n][g] = step[n][h]
    <3> TAKE n \in 1 .. N
    <3> TAKE g \in [1 .. N -> Nat], h \in [1 .. N -> Nat]
    <3> HAVE \A m \in n + 1 .. N : g[m] = h[m]
    <3>1. Step(n, g) = Step(n, h)
      BY <1>5
    <3> QED
      BY <3>1, <2>1
  <2> QED
    BY <2>2, <2>3 DEF StepsDown
<1>7. \A n \in 1 .. N : \A g \in [1 .. N -> Nat] : step[n][g] = Step(n, g)
  OBVIOUS
<1> HIDE DEF step
<1>8. PICK f \in [1 .. N -> Nat] : \A n \in 1 .. N : f[n] = step[n][f]
  <2> DEFINE V == Nat
  <2>1. N \in Nat /\ StepsDown(step, N, V)
    BY <1>1, <1>6
  <2> HIDE DEF V
  <2>2. \E f \in [1 .. N -> V] : \A n \in 1 .. N : f[n] = step[n][f]
    BY ONLY <2>1, DownwardFunction
  <2> QED
    BY <2>2 DEF V
<1>9. f = [n \in DOMAIN tree |-> Step(n, f)]
  BY <1>1, <1>7, <1>8
<1>10. H = [n \in DOMAIN tree |-> Step(n, H)]
  BY <1>9
<1> HIDE DEF H
<1>11. \A n \in 1 .. N : H[n] = Step(n, H)
  BY <1>1, <1>10
<1> DEFINE G == {n \in 1 .. N : H[n] \in Nat}
<1>12. ASSUME NEW n \in 1 .. N, n + 1 .. N \subseteq G PROVE n \in G
  <2>1. \A m \in n + 1 .. N : H[m] \in Nat
    BY <1>12
  <2>2. Step(n, H) \in Nat
    BY <2>1, <1>4
  <2> QED
    BY <2>2, <1>11
<1>13. 1 .. N \subseteq G
  <2> HIDE DEF G
  <2>1. N \in Nat
    BY <1>1
  <2> QED
    BY ONLY <2>1, <1>12, Downwards
<1>14. \A n \in 1 .. N : \A m \in n + 1 .. N : H[m] \in Nat
  BY <1>1, <1>13
<1> QED
  BY <1>1, <1>2, <1>4, <1>11, <1>14
-----------------------------------------------------------------------------
(* What the lower_ functions find in the tree.                             *)

Quantifying == {"QUANTIFIER_STAR", "QUANTIFIER_PLUS", "QUANTIFIER_QUESTION"}

\* A child that a function other than one for a tail is called with.
CalledOK(n, i) ==
    /\ i \in DOMAIN tree[n].children
    /\ tree[n].children[i] \in DOMAIN tree
    /\ tree[tree[n].children[i]].production \in Callable

\* The last child, where it is a tail.
TailOK(n) ==
    /\ \E i \in DOMAIN tree[n].children :
          Last(tree[n].children) = tree[n].children[i]
    /\ Last(tree[n].children) \in DOMAIN tree
    /\ tree[Last(tree[n].children)].production \in ListTails \cup EmptyTails

TokenOK(n) == tree[n].token \in DOMAIN tokens

\* Which productions a nonterminal can have.
LEMMA Heads ==
    ASSUME NEW p \in DOMAIN Productions
    PROVE  /\ HeadOf[p] \in Nonterminals
           /\ HeadOf[p] = "Alternation" => p = "ALTERNATION"
           /\ HeadOf[p] = "Concatenation" => p = "CONCATENATION"
           /\ HeadOf[p] = "Repetition" => p = "REPETITION"
           /\ HeadOf[p] = "Atom" => p \in AtomProductions
           /\ HeadOf[p] \in {"AlternationTail", "ConcatenationTail"} =>
                 p \in ListTails \cup EmptyTails
           /\ HeadOf[p] = "Quantifier" =>
                 p \in Quantifying \cup {"QUANTIFIER_EMPTY"}
BY DEF Productions, HeadOf, Nonterminals, AtomProductions, ListTails,
       EmptyTails, Quantifying

\* In a tree that is whole each nonterminal is expanded and each terminal has
\* its token.
LEMMA NodeIs ==
    ASSUME Parsed, StateOK, NEW n \in DOMAIN tree
    PROVE  /\ tree[n].symbol \in Nonterminals =>
                 /\ tree[n].production \in DOMAIN Productions
                 /\ HeadOf[tree[n].production] = tree[n].symbol
           /\ tree[n].symbol \in Terminals => TokenOK(n)
<1>1. tree[n] \in ParseTreeNode
  BY DEF StateOK
<1>2. /\ tree[n].production \in DOMAIN Productions \cup {NONE}
      /\ tree[n].token \in Nat
  BY <1>1 DEF ParseTreeNode
<1>3. tree[n].production # NONE =>
         tree[n].symbol = HeadOf[tree[n].production]
  BY DEF Parsed, ExpandedOK
<1>4. \/ tree[n].symbol = EPSILON
      \/ tree[n].production # NONE \/ tree[n].token # 0
  BY NoElements DEF Parsed, PendingOK
<1>15. tokens \in Seq(Abs!Token)
  BY ParserAssumption DEF Parsed, Abs!IsTokenSequence
<1>5. PICK T \in Nat : T = Len(tokens)
  BY <1>15
<1>6. DOMAIN tokens = 1 .. T
      /\ \A k \in 1 .. T : tokens[k].terminal \in Abs!Kinds
  <2>1. DOMAIN tokens = 1 .. T /\ \A k \in 1 .. T : tokens[k] \in Abs!Token
    BY <1>5, <1>15
  <2>2. \A t \in Abs!Token : t.terminal \in Abs!Kinds
    BY DEF Abs!Token
  <2> QED
    BY <2>1, <2>2
<1>7. read <= T /\ read \in Nat
  BY <1>5 DEF StateOK
<1>8. tree[n].token # 0 =>
         /\ tree[n].token \in DOMAIN tokens
         /\ tokens[tree[n].token].terminal = tree[n].symbol
  <2>1. tree[n].token # 0 => /\ tree[n].token <= read
                             /\ tokens[tree[n].token].terminal = tree[n].symbol
    BY DEF Parsed, TokensOK
  <2> QED
    BY <2>1, <1>2, <1>6, <1>7
<1>9. \A kind \in Abs!Kinds : kind \notin Nonterminals
  BY DEF Abs!Kinds, Abs!OperandEnds, Abs!Atoms, Abs!Repeaters, Nonterminals
<1>10. tree[n].production # NONE => tree[n].symbol \in Nonterminals
  BY <1>2, <1>3, Heads
<1>11. \A symbol \in Terminals : symbol \notin Nonterminals /\ symbol # EPSILON
  BY DEF Terminals, AtomStarts, Quantifiers, Nonterminals, EPSILON
<1>12. EPSILON \notin Nonterminals
  BY DEF Nonterminals, EPSILON
<1>13. ASSUME tree[n].symbol \in Nonterminals
       PROVE  tree[n].production # NONE
  BY <1>13, <1>4, <1>6, <1>8, <1>9, <1>12
<1>14. ASSUME tree[n].symbol \in Terminals PROVE TokenOK(n)
  BY <1>14, <1>4, <1>8, <1>10, <1>11 DEF TokenOK
<1> QED
  BY <1>2, <1>3, <1>13, <1>14


Calls == {"Alternation", "Concatenation", "Repetition", "Atom"}
Tails == {"AlternationTail", "ConcatenationTail"}

\* What the productions are made of.
LEMMA Bodies ==
    ASSUME NEW p \in DOMAIN Productions
    PROVE  /\ p \in ListProductions =>
                 /\ Len(Productions[p]) = 2
                 /\ Productions[p][1] \in Calls /\ Productions[p][2] \in Tails
           /\ p = "REGEX_ALTERNATION_END" =>
                 Len(Productions[p]) = 2 /\ Productions[p][1] \in Calls
           /\ p = "REPETITION" =>
                 /\ Len(Productions[p]) = 2
                 /\ Productions[p][1] \in Calls
                 /\ Productions[p][2] = "Quantifier"
           /\ p = "ATOM_GROUP" =>
                 Len(Productions[p]) = 3 /\ Productions[p][2] \in Calls
           /\ p \in AtomProductions \ {"ATOM_GROUP"} =>
                 Len(Productions[p]) = 1 /\ Productions[p][1] \in Terminals
           /\ p = "ALTERNATION_TAIL_PIPE" =>
                 /\ Len(Productions[p]) = 3
                 /\ Productions[p][1] \in Terminals
                 /\ Productions[p][2] \in Calls /\ Productions[p][3] \in Tails
           /\ p = "CONCATENATION_TAIL_REPETITION" =>
                 /\ Len(Productions[p]) = 2
                 /\ Productions[p][1] \in Calls /\ Productions[p][2] \in Tails
           /\ p \in Quantifying =>
                 Len(Productions[p]) = 1 /\ Productions[p][1] \in Terminals
BY DEF Productions, ListProductions, AtomProductions, Quantifying, Calls,
       Tails, Terminals, AtomStarts, Quantifiers

\* What there is to say about a child.
LEMMA ChildIs ==
    ASSUME Parsed, StateOK, NEW n \in DOMAIN tree,
           NEW p \in DOMAIN Productions, tree[n].production = p,
           NEW k \in 1 .. 3, Len(Productions[p]) = k,
           NEW i \in 1 .. k, NEW symbol, symbol = Productions[p][i]
    PROVE  /\ Len(tree[n].children) = k
           /\ i \in DOMAIN tree[n].children
           /\ tree[n].children[i] \in DOMAIN tree
           /\ symbol \in Calls => CalledOK(n, i)
           /\ symbol \in Tails /\ i = k => TailOK(n)
           /\ symbol = "Quantifier" =>
                 tree[tree[n].children[i]].production
                    \in Quantifying \cup {"QUANTIFIER_EMPTY"}
           /\ symbol \in Terminals => TokenOK(tree[n].children[i])
<1> DEFINE c == tree[n].children[i]
<1>1. /\ Len(tree[n].children) = k /\ i \in DOMAIN tree[n].children
      /\ i = k => Last(tree[n].children) = c
      /\ c \in DOMAIN tree /\ tree[c].symbol = symbol
  <2>1. /\ Len(tree[n].children) = k /\ DOMAIN tree[n].children = 1 .. k
        /\ Last(tree[n].children) = tree[n].children[k]
        /\ \A j \in 1 .. k :
              /\ tree[n].children[j] \in DOMAIN tree
              /\ tree[tree[n].children[j]].symbol = Productions[p][j]
    <3>1. p # NONE
      BY DEF Productions, NONE
    <3>2. /\ Len(tree[n].children) = k
          /\ \A j \in DOMAIN tree[n].children :
                tree[tree[n].children[j]].symbol = Productions[p][j]
      BY <3>1 DEF Parsed, ExpandedOK
    <3>3. DOMAIN tree[n].children = 1 .. k
      <4>1. Ids(tree[n].children)
        BY TreeDomain DEF Parsed
      <4> QED
        BY <3>2, <4>1, FewIds
    <3>4. \A j \in DOMAIN tree[n].children :
             tree[n].children[j] \in DOMAIN tree
      BY HeightsFall DEF Parsed
    <3> QED
      BY <3>2, <3>3, <3>4 DEF Last
  <2> QED
    BY ONLY <2>1, i \in 1 .. k, symbol = Productions[p][i]
<1>2. /\ symbol \in Nonterminals =>
         /\ tree[c].production \in DOMAIN Productions
                                    /\ HeadOf[tree[c].production] = symbol
      /\ symbol \in Terminals => TokenOK(c)
  BY <1>1, NodeIs
<1>3. Calls \subseteq Nonterminals /\ Tails \subseteq Nonterminals
      /\ "Quantifier" \in Nonterminals
  BY DEF Calls, Tails, Nonterminals
<1> HIDE DEF c
<1>4. symbol \in Calls => tree[c].production \in Callable
  BY <1>2, <1>3, Heads DEF Calls, Callable, ListProductions
<1>5. symbol \in Tails => tree[c].production \in ListTails \cup EmptyTails
  BY <1>2, <1>3, Heads DEF Tails
<1>6. symbol = "Quantifier" =>
         tree[c].production \in Quantifying \cup {"QUANTIFIER_EMPTY"}
  BY <1>2, <1>3, Heads
<1>7. symbol \in Tails /\ i = k => TailOK(n)
  BY <1>1, <1>5 DEF TailOK, c
<1> QED
  BY <1>1, <1>2, <1>4, <1>6, <1>7 DEF c, CalledOK

\* What each function finds below its node.
LEMMA Shapes ==
    ASSUME Parsed, StateOK, NEW n \in DOMAIN tree,
           NEW p, p = tree[n].production
    PROVE  /\ p \in ListProductions => CalledOK(n, 1) /\ TailOK(n)
           /\ p = "REGEX_ALTERNATION_END" => CalledOK(n, 1)
           /\ p = "REPETITION" =>
                 /\ CalledOK(n, 1)
                 /\ tree[n].children[2] \in DOMAIN tree
                 /\ tree[tree[n].children[2]].production
                       \in Quantifying \cup {"QUANTIFIER_EMPTY"}
           /\ p = "ATOM_GROUP" => CalledOK(n, 2)
           /\ p \in AtomProductions \ {"ATOM_GROUP"} =>
                 /\ tree[n].children[1] \in DOMAIN tree
                 /\ TokenOK(tree[n].children[1])
           /\ p \in ListTails =>
                 CalledOK(n, Len(tree[n].children) - 1) /\ TailOK(n)
           /\ p \in Quantifying \cup {"ALTERNATION_TAIL_PIPE"} =>
                 /\ tree[n].children[1] \in DOMAIN tree
                 /\ TokenOK(tree[n].children[1])
<1>1. p \in DOMAIN Productions \cup {NONE}
  <2>1. tree[n] \in ParseTreeNode
    BY DEF StateOK
  <2> QED
    BY <2>1 DEF ParseTreeNode
<1>2. CASE p = NONE
  BY <1>2 DEF NONE, ListProductions, AtomProductions, ListTails, Quantifying
<1>3. CASE p \in DOMAIN Productions
  <2>1. \A k \in 1 .. 3, i \in 1 .. 3 : \A symbol :
           /\ Len(Productions[p]) = k /\ i <= k /\ symbol = Productions[p][i]
           => /\ Len(tree[n].children) = k
              /\ tree[n].children[i] \in DOMAIN tree
              /\ symbol \in Calls => CalledOK(n, i)
              /\ symbol \in Tails /\ i = k => TailOK(n)
              /\ symbol = "Quantifier" =>
                    tree[tree[n].children[i]].production
                       \in Quantifying \cup {"QUANTIFIER_EMPTY"}
              /\ symbol \in Terminals => TokenOK(tree[n].children[i])
    <3> TAKE k \in 1 .. 3, i \in 1 .. 3
    <3> TAKE symbol
    <3> HAVE Len(Productions[p]) = k /\ i <= k /\ symbol = Productions[p][i]
    <3>1. i \in 1 .. k
      OBVIOUS
    <3> QED
      BY <3>1, <1>3, ChildIs, ZenonT(60)
  <2>3. p \in ListProductions => CalledOK(n, 1) /\ TailOK(n)
    BY <2>1, <1>3, Bodies
  <2>4. p = "REGEX_ALTERNATION_END" => CalledOK(n, 1)
    BY <2>1, <1>3, Bodies
  <2>5. p = "REPETITION" =>
           /\ CalledOK(n, 1)
           /\ tree[n].children[2] \in DOMAIN tree
           /\ tree[tree[n].children[2]].production
                 \in Quantifying \cup {"QUANTIFIER_EMPTY"}
    BY <2>1, <1>3, Bodies
  <2>6. p = "ATOM_GROUP" => CalledOK(n, 2)
    BY <2>1, <1>3, Bodies
  <2>7. p \in AtomProductions \ {"ATOM_GROUP"} =>
           tree[n].children[1] \in DOMAIN tree /\ TokenOK(tree[n].children[1])
    BY <2>1, <1>3, Bodies
  <2>8. p = "ALTERNATION_TAIL_PIPE" =>
           /\ Len(tree[n].children) = 3 /\ CalledOK(n, 2) /\ TailOK(n)
           /\ tree[n].children[1] \in DOMAIN tree
           /\ TokenOK(tree[n].children[1])
    BY <2>1, <1>3, Bodies
  <2>9. p = "CONCATENATION_TAIL_REPETITION" =>
           Len(tree[n].children) = 2 /\ CalledOK(n, 1) /\ TailOK(n)
    BY <2>1, <1>3, Bodies
  <2>10. p \in Quantifying =>
            tree[n].children[1] \in DOMAIN tree /\ TokenOK(tree[n].children[1])
    BY <2>1, <1>3, Bodies
  <2>2. p \in ListTails =>
           CalledOK(n, Len(tree[n].children) - 1) /\ TailOK(n)
    <3>1. 3 - 1 = 2 /\ 2 - 1 = 1
      OBVIOUS
    <3>2. CASE p = "ALTERNATION_TAIL_PIPE"
      BY ONLY <3>1, <3>2, <2>8
    <3>3. CASE p = "CONCATENATION_TAIL_REPETITION"
      BY ONLY <3>1, <3>3, <2>9
    <3> QED
      BY ONLY <3>2, <3>3 DEF ListTails
  <2> QED
    BY ONLY <2>2, <2>3, <2>4, <2>5, <2>6, <2>7, <2>8, <2>10
<1> QED
  BY <1>1, <1>2, <1>3
-----------------------------------------------------------------------------
(* The parts of the invariant over a step.                                 *)

\* A step from which on the lower_ functions are at work on a parse tree.
LEMMA TreeKept ==
    ASSUME StateOK, Parsed, parsed = FALSE, live = DOMAIN tree,
           mode' \in {"call", "tail", "return"},
           UNCHANGED still, MessageOK',
           CallsOK(mode', target', left', frames'),
           ResultOK(mode', left', frames', ast', positions', owned')
    PROVE  LoweringIInv'
<1>1. /\ StateOK /\ Parsed /\ ~parsed /\ live = DOMAIN tree
      /\ parsed \in BOOLEAN
  OBVIOUS
<1>2. /\ tokens' = tokens /\ pc' = pc /\ read' = read /\ tree' = tree
      /\ live' = live /\ stack' = stack /\ capacity' = capacity
      /\ parsed' = parsed
  BY DEF still, memory, items
<1>3. position' \in 0 .. Len(tokens)
  BY <1>2 DEF MessageOK
<1>4. StateOK'
  BY <1>1, <1>2, <1>3 DEF StateOK
<1>5. Parsed'
  <2>1. TokensOK(tree)'
    BY <1>1, <1>2 DEF Parsed, TokensOK
  <2> QED
    BY ONLY <2>1, <1>1, <1>2 DEF Parsed
<1>6. CallsOK(mode, target, left, frames)'
  <2>1. Heights' = Heights
    BY <1>2 DEF Heights
  <2>2. \A f : WaitsOK(f)' <=> WaitsOK(f)
    BY <1>2 DEF WaitsOK
  <2> QED
    BY <2>1, <2>2, <1>2 DEF CallsOK
<1>7. ResultOK(mode, left, frames, ast, positions, owned)'
  BY <1>2 DEF ResultOK
<1> QED
  BY <1>1, <1>2, <1>4, <1>5, <1>6, <1>7 DEF LoweringIInv

\* A step of theirs.
LEMMA StepKeeps ==
    ASSUME LoweringIInv, mode \notin {"idle", "over"},
           mode' \in {"call", "tail", "return"},
           UNCHANGED still, MessageOK',
           CallsOK(mode', target', left', frames'),
           ResultOK(mode', left', frames', ast', positions', owned')
    PROVE  LoweringIInv'
<1>1. StateOK /\ Parsed /\ parsed = FALSE /\ live = DOMAIN tree
  BY DEF LoweringIInv
<1> QED
  BY <1>1, TreeKept

\* What the invariant says while the functions are at work.
LEMMA AtWork ==
    ASSUME LoweringIInv, mode \notin {"idle", "over"}
    PROVE  /\ StateOK /\ Parsed /\ MessageOK /\ ~parsed
           /\ live = DOMAIN tree
           /\ CallsOK(mode, target, left, frames)
           /\ ResultOK(mode, left, frames, ast, positions, owned)
           /\ TreeOK(tree) /\ ExpandedOK(tree)
BY DEF LoweringIInv, Parsed

\* The result as it is.
LEMMA ResultFacts ==
    ASSUME NEW m, NEW l, NEW frs, ResultOK(m, l, frs, ast, positions, owned)
    PROVE  /\ Len(ast) \in Nat /\ DOMAIN ast = 1 .. Len(ast)
           /\ HeldBy(Holding(OnItsWay(m, l), frs)) \subseteq owned
           /\ owned \subseteq 1 .. Len(ast)
           /\ NULL_NODE \notin HeldBy(Holding(OnItsWay(m, l), frs))
<1>1. /\ ast \in Seq(AstNode)
      /\ OwnedOK(ast, owned, HeldBy(Holding(OnItsWay(m, l), frs)))
  BY DEF ResultOK
<1> QED
  BY <1>1 DEF OwnedOK, HeldBy

\* What is on its way is one of the roots, and so is what the top call holds.
LEMMA IsHeld ==
    ASSUME NEW first, NEW frs, NEW K \in Nat, Len(frs) = K
    PROVE  /\ first # NULL_NODE => first \in HeldBy(Holding(first, frs))
           /\ K # 0 /\ frs[K].held # NULL_NODE =>
                 frs[K].held \in HeldBy(Holding(first, frs))
<1>1. DOMAIN Holding(first, frs) = 0 .. K
  BY DEF Holding
<1>2. 0 \in 0 .. K /\ K \in 0 .. K
  OBVIOUS
<1>3. /\ Holding(first, frs)[0] = first
      /\ K # 0 => Holding(first, frs)[K] = frs[K].held
  BY <1>2 DEF Holding
<1> QED
  BY <1>1, <1>2, <1>3 DEF HeldBy

\* A node is made of some of the roots.
LEMMA ResultMade ==
    ASSUME NEW roots, OwnedOK(ast, owned, roots), NULL_NODE \notin roots,
           NEW T \in Nat, T = Len(tokens),
           ast \in Seq(AstNode), positions \in [DOMAIN ast -> 0 .. T],
           NEW node \in AstNode, Children(node) \subseteq roots,
           NEW token \in 0 .. T,
           ast' = Append(ast, node), positions' = Append(positions, token),
           owned' = owned \cup {Len(ast) + 1}
    PROVE  /\ ast' \in Seq(AstNode)
           /\ positions' \in [DOMAIN ast' -> 0 .. T]
           /\ Len(ast') = Len(ast) + 1 /\ Len(ast) \in Nat
           /\ Len(ast) + 1 \notin roots
           /\ OwnedOK(ast', owned',
                      (roots \ Children(node)) \cup {Len(ast) + 1})
<1>1. PICK N \in Nat : N = Len(ast) /\ DOMAIN ast = 1 .. N
  OBVIOUS
<1>2. /\ Len(ast') = N + 1 /\ DOMAIN ast' = 1 .. N + 1
      /\ \A n \in 1 .. N : ast'[n] = ast[n]
      /\ ast'[N + 1] = node /\ ast' \in Seq(AstNode)
  BY <1>1
<1>3. N + 1 \notin roots
  BY <1>1 DEF OwnedOK
<1>4. positions' \in [DOMAIN ast' -> 0 .. T]
  <2> DEFINE S == 0 .. T
  <2>1. positions \in [1 .. N -> S] /\ token \in S
    BY <1>1
  <2> HIDE DEF S
  <2>2. positions \in Seq(S)
    BY ONLY <2>1, N \in Nat, SeqDef
  <2>3. Len(positions) = N
    <3>1. DOMAIN positions = 1 .. N /\ Len(positions) \in Nat
          /\ DOMAIN positions = 1 .. Len(positions)
      BY ONLY <2>1, <2>2, LenProperties
    <3> QED
      BY ONLY <3>1, N \in Nat
  <2>4. positions' \in Seq(S) /\ Len(positions') = N + 1
    BY ONLY <2>1, <2>2, <2>3, positions' = Append(positions, token),
            AppendProperties
  <2>5. positions' \in [1 .. N + 1 -> S]
    BY ONLY <2>4, LenProperties
  <2> QED
    BY <2>5, <1>2 DEF S
<1>5. OwnedOK(ast', owned \cup {N + 1}, (roots \ Children(node)) \cup {N + 1})
  <2>1. Children(node) = Children(ast'[N + 1])
    BY <1>2
  <2> QED
    BY ONLY <1>1, <1>2, <2>1, Made, OwnedOK(ast, owned, roots),
            Children(node) \subseteq roots
<1> QED
  BY <1>1, <1>2, <1>3, <1>4, <1>5
-----------------------------------------------------------------------------
(* The calls.                                                              *)

\* A call is put on top.
LEMMA PushedCall ==
    ASSUME NEW S, NEW s \in Seq(S), NEW x \in S, NEW K \in Nat, K = Len(s),
           NEW s2, s2 = Append(s, x)
    PROVE  /\ s2 \in Seq(S) /\ Len(s2) = K + 1 /\ DOMAIN s2 = 1 .. K + 1
           /\ \A i \in 1 .. K : s2[i] = s[i]
           /\ s2[K + 1] = x
BY AppendProperties, LenProperties

\* The calls with one more, which is of the node at hand, and a child of it
\* to call.
LEMMA CallsPushed ==
    ASSUME TreeOK(tree), ExpandedOK(tree), NEW m \in {"call", "tail"}, NEW t,
           NEW l, NEW frs, CallsOK(m, t, l, frs),
           NEW i, CalledOK(t, i),
           NEW f \in Frame, f.node = t, WaitsOK(f)
    PROVE  CallsOK("call", tree[t].children[i], l, Append(frs, f))
<1> DEFINE c == tree[t].children[i]
           frs2 == Append(frs, f)
<1>1. PICK K \in Nat : K = Len(frs) /\ DOMAIN frs = 1 .. K
  BY DEF CallsOK
<1>2. /\ frs2 \in Seq(Frame) /\ Len(frs2) = K + 1
      /\ DOMAIN frs2 = 1 .. K + 1
      /\ \A j \in 1 .. K : frs2[j] = frs[j]
      /\ frs2[K + 1] = f
  BY <1>1, PushedCall DEF CallsOK
<1> HIDE DEF frs2
<1>3. /\ t \in DOMAIN tree
      /\ \A j \in 1 .. K :
            WaitsOK(frs[j]) /\ Heights[frs[j].node] + j <= Heights[ROOT]
      /\ Heights[t] + K < Heights[ROOT]
  BY <1>1 DEF CallsOK
<1>4. /\ c \in DOMAIN tree /\ tree[c].production \in Callable
      /\ Heights[c] \in Nat /\ Heights[t] \in Nat /\ Heights[ROOT] \in Nat
      /\ Heights[c] + 1 <= Heights[t]
  BY <1>3, HeightsFall, TreeDomain, SMTT(30) DEF CalledOK, ROOT
<1> HIDE DEF c
<1>5. Heights[c] + (K + 1) < Heights[ROOT]
      /\ Heights[t] + (K + 1) <= Heights[ROOT]
  BY ONLY <1>3, <1>4, K \in Nat
<1>6. \A j \in 1 .. K + 1 :
         /\ WaitsOK(frs2[j]) /\ Heights[frs2[j].node] + j <= Heights[ROOT]
  <2>1. \A j \in 1 .. K + 1 : j \in 1 .. K \/ j = K + 1
    BY ONLY K \in Nat
  <2> QED
    BY <2>1, <1>2, <1>3, <1>5
<1>7. c \in 0 .. Len(tree)
  BY <1>4, TreeDomain
<1>8. CallsOK("call", c, l, frs2)
  BY <1>2, <1>4, <1>5, <1>6, <1>7 DEF CallsOK
<1> QED
  BY <1>8 DEF c, frs2

\* The result when what was on its way is held by the call on top.
LEMMA ResultPushed ==
    ASSUME NEW m, NEW l, NEW frs \in Seq(Frame),
           ResultOK(m, l, frs, ast, positions, owned),
           NEW f \in Frame, f.held = OnItsWay(m, l)
    PROVE  ResultOK("call", l, Append(frs, f), ast, positions, owned)
<1> DEFINE first == OnItsWay(m, l)
           frs2 == Append(frs, f)
<1>1. PICK K \in Nat : K = Len(frs)
  OBVIOUS
<1>2. /\ Len(frs2) = K + 1
      /\ \A j \in 1 .. K : frs2[j] = frs[j]
      /\ frs2[K + 1].held = first
  BY <1>1, PushedCall
<1>3. /\ HeldOnce(Holding(first, frs))
      /\ OwnedOK(ast, owned, HeldBy(Holding(first, frs)))
      /\ ast \in Seq(AstNode) /\ positions \in [DOMAIN ast -> 0 .. Len(tokens)]
      /\ l \in 0 .. Len(ast)
  BY DEF ResultOK
<1>4. OnItsWay("call", l) = NULL_NODE
  BY DEF OnItsWay
<1> HIDE DEF first, frs2
<1>5. /\ HeldOnce(Holding(NULL_NODE, frs2))
      /\ HeldBy(Holding(NULL_NODE, frs2)) = HeldBy(Holding(first, frs))
  BY ONLY <1>1, <1>2, <1>3, HoldsPushed
<1>6. ResultOK("call", l, frs2, ast, positions, owned)
  BY <1>3, <1>4, <1>5 DEF ResultOK
<1> QED
  BY <1>6 DEF frs2

\* Any of the calls.
LEMMA CallKeeps ==
    ASSUME LoweringIInv, mode \in {"call", "tail"},
           NEW i, NEW waits \in {"atom", "first", "next", "last"}, NEW held,
           Call(i, waits, held), held = OnItsWay(mode, left),
           CalledOK(target, i),
           WaitsOK([waits |-> waits, node |-> target, held |-> held])
    PROVE  LoweringIInv'
<1> DEFINE f == [waits |-> waits, node |-> target, held |-> held]
<1>1. /\ StateOK /\ Parsed /\ MessageOK
      /\ CallsOK(mode, target, left, frames)
      /\ ResultOK(mode, left, frames, ast, positions, owned)
      /\ TreeOK(tree) /\ ExpandedOK(tree)
  BY AtWork
<1>2. /\ frames' = Append(frames, f) /\ mode' = "call"
      /\ target' = tree[target].children[i] /\ left' = left
      /\ ast' = ast /\ positions' = positions /\ owned' = owned
      /\ UNCHANGED still /\ error' = error /\ position' = position
      /\ tokens' = tokens
  BY DEF Call, Child, ParseNode, nodes, fault, still
<1>3. f \in Frame
  <2>1. target \in Nat
    BY <1>1, TreeDomain DEF CallsOK
  <2>2. held \in Nat
    <3>1. left \in 0 .. Len(ast) /\ Len(ast) \in Nat
      BY <1>1 DEF ResultOK
    <3> QED
      BY <3>1 DEF OnItsWay, NULL_NODE
  <2> QED
    BY <2>1, <2>2 DEF Frame
<1>4. /\ f.node = target /\ f.held = OnItsWay(mode, left) /\ WaitsOK(f)
      /\ frames \in Seq(Frame)
  BY <1>1 DEF CallsOK
<1> HIDE DEF f
<1>5. CallsOK(mode', target', left', frames')
  BY <1>1, <1>2, <1>3, <1>4, CallsPushed
<1>6. ResultOK(mode', left', frames', ast', positions', owned')
  BY <1>1, <1>2, <1>3, <1>4, ResultPushed
<1>7. MessageOK'
  BY <1>1, <1>2 DEF MessageOK
<1> QED
  BY <1>2, <1>5, <1>6, <1>7, StepKeeps

\* A call of the first operand of an alternation or concatenation.
LEMMA CallListInvariant ==
    ASSUME LoweringIInv, CallList PROVE LoweringIInv'
<1>1. /\ mode = "call" /\ Call(1, "first", NULL_NODE)
      /\ tree[target].production \in ListProductions
  BY DEF CallList, IsCall, ParseNode, ListProductions
<1>2. Parsed /\ StateOK /\ target \in DOMAIN tree
  BY <1>1, AtWork DEF CallsOK
<1>3. CalledOK(target, 1)
  BY <1>1, <1>2, Shapes
<1>4. WaitsOK([waits |-> "first", node |-> target, held |-> NULL_NODE])
  BY <1>1, <1>2 DEF WaitsOK
<1>5. OnItsWay(mode, left) = NULL_NODE
  BY <1>1 DEF OnItsWay
<1> QED
  BY <1>1, <1>3, <1>4, <1>5, CallKeeps

\* A call of the atom that a quantifier follows, or does not.
LEMMA CallRepetitionInvariant ==
    ASSUME LoweringIInv, CallRepetition PROVE LoweringIInv'
<1>1. /\ mode = "call" /\ Call(1, "atom", NULL_NODE)
      /\ tree[target].production = "REPETITION"
  BY DEF CallRepetition, IsCall, ParseNode
<1>2. Parsed /\ StateOK /\ target \in DOMAIN tree
  BY <1>1, AtWork DEF CallsOK
<1>3. CalledOK(target, 1)
  BY <1>1, <1>2, Shapes
<1>4. WaitsOK([waits |-> "atom", node |-> target, held |-> NULL_NODE])
  BY <1>1, <1>2 DEF WaitsOK
<1>5. OnItsWay(mode, left) = NULL_NODE
  BY <1>1 DEF OnItsWay
<1> QED
  BY <1>1, <1>3, <1>4, <1>5, CallKeeps

\* A call of the alternation between parentheses.
LEMMA CallGroupInvariant ==
    ASSUME LoweringIInv, CallGroup PROVE LoweringIInv'
<1>1. /\ mode = "call" /\ Call(2, "last", NULL_NODE)
      /\ tree[target].production = "ATOM_GROUP"
  BY DEF CallGroup, IsCall, ParseNode
<1>2. Parsed /\ StateOK /\ target \in DOMAIN tree
  BY <1>1, AtWork DEF CallsOK
<1>3. CalledOK(target, 2)
  BY <1>1, <1>2, Shapes
<1>4. WaitsOK([waits |-> "last", node |-> target, held |-> NULL_NODE])
  BY <1>1, <1>2 DEF WaitsOK
<1>5. OnItsWay(mode, left) = NULL_NODE
  BY <1>1 DEF OnItsWay
<1> QED
  BY <1>1, <1>3, <1>4, <1>5, CallKeeps

\* A tail with one more operand calls lower_ on it and holds what it has.
LEMMA TailGoesOnInvariant ==
    ASSUME LoweringIInv, TailGoesOn PROVE LoweringIInv'
<1>1. /\ mode = "tail" /\ Call(Operand, "next", left)
      /\ tree[target].production \in ListTails
  BY DEF TailGoesOn, ParseNode, ListTails
<1>2. Parsed /\ StateOK /\ target \in DOMAIN tree /\ left # NULL_NODE
  BY <1>1, AtWork DEF CallsOK
<1>3. CalledOK(target, Operand)
  BY <1>1, <1>2, Shapes DEF Operand, ParseNode
<1>4. WaitsOK([waits |-> "next", node |-> target, held |-> left])
  BY <1>1, <1>2 DEF WaitsOK
<1>5. OnItsWay(mode, left) = left
  BY <1>1 DEF OnItsWay
<1> QED
  BY <1>1, <1>3, <1>4, <1>5, CallKeeps
-----------------------------------------------------------------------------
(* What is made.                                                           *)

\* The nodes that the constructors are called for.
LEMMA MadeNodes ==
    ASSUME NEW type, NEW chars \in SUBSET Chars, NEW l \in Nat, NEW r \in Nat,
           NEW node, node = [type |-> type, chars |-> chars, left |-> l,
                             right |-> r, minimum |-> 0, maximum |-> 0]
    PROVE  /\ type \in LeafType => node \in AstNode /\ Children(node) = {}
           /\ type \in UnaryType => node \in AstNode /\ Children(node) = {l}
           /\ type \in BinaryType => node \in AstNode
              /\ Children(node) = {l, r}
BY DEF AstNode, AstType, LeafType, UnaryType, BinaryType, Children

\* A result when what is on its way changes and the calls stay.
LEMMA ResultReplaced ==
    ASSUME NEW m, NEW l, NEW frs \in Seq(Frame),
           ResultOK(m, l, frs, ast, positions, owned),
           NEW T \in Nat, T = Len(tokens),
           NEW m2, NEW l2, NEW y, y = OnItsWay(m2, l2),
           NEW roots, roots = HeldBy(Holding(OnItsWay(m, l), frs)),
           y \in {OnItsWay(m, l), NULL_NODE} \/ y \notin roots,
           ast' \in Seq(AstNode), positions' \in [DOMAIN ast' -> 0 .. T],
           l2 \in 0 .. Len(ast'),
           OwnedOK(ast', owned',
                   (roots \ {OnItsWay(m, l)}) \cup ({y} \ {NULL_NODE}))
    PROVE  ResultOK(m2, l2, frs, ast', positions', owned')
<1> DEFINE first == OnItsWay(m, l)
<1>1. PICK K \in Nat : K = Len(frs)
  OBVIOUS
<1>2. HeldOnce(Holding(first, frs))
  BY DEF ResultOK
<1>3. y \in {first, NULL_NODE} \/ y \notin HeldBy(Holding(first, frs))
  OBVIOUS
<1> HIDE DEF first
<1>4. /\ HeldOnce(Holding(y, frs))
      /\ HeldBy(Holding(y, frs)) =
            (HeldBy(Holding(first, frs)) \ {first}) \cup ({y} \ {NULL_NODE})
  BY ONLY <1>1, <1>2, <1>3, HoldsReplaced
<1> QED
  BY <1>4 DEF ResultOK, first

\* The message is set, and so is where.
LEMMA MessageSet ==
    ASSUME MessageOK, tokens' = tokens,
           \/ UNCHANGED fault
           \/ error' \in LoweringErrors /\ position' \in 0 .. Len(tokens)
    PROVE  MessageOK'
BY DEF MessageOK, fault

\* An atom that is no group allocates a leaf, or fails.
LEMMA LowerLeafInvariant ==
    ASSUME LoweringIInv, LowerLeaf PROVE LoweringIInv'
<1> DEFINE token == tree[Child(1)].token
           type == AtomType(ParseNode.production)
<1>1. /\ mode = "call" /\ mode' = "return"
      /\ tree[target].production \in AtomProductions \ {"ATOM_GROUP"}
      /\ UNCHANGED still /\ target' = target /\ frames' = frames
      /\ tokens' = tokens
  BY DEF LowerLeaf, IsCall, ParseNode, AtomProductions, Return, LowerFails,
         still
<1>2. /\ StateOK /\ Parsed /\ MessageOK
      /\ CallsOK(mode, target, left, frames)
      /\ ResultOK(mode, left, frames, ast, positions, owned)
  BY <1>1, AtWork
<1>3. PICK T \in Nat : T = Len(tokens) /\ DOMAIN tokens = 1 .. T
  <2>1. tokens \in Seq(Abs!Token)
    BY <1>2, ParserAssumption DEF Parsed, Abs!IsTokenSequence
  <2> QED
    BY <2>1
<1>4. /\ token \in 1 .. T /\ tokens[token].chars \in SUBSET Chars
      /\ type \in LeafType
  <2>1. target \in DOMAIN tree
    BY <1>1, <1>2 DEF CallsOK
  <2>2. token \in DOMAIN tokens
    BY <2>1, <1>1, <1>2, Shapes DEF TokenOK, Child, ParseNode
  <2>3. \A k \in DOMAIN tokens : tokens[k].chars \in SUBSET Chars
    <3>1. tokens \in Seq(Abs!Token)
      BY <1>2, ParserAssumption DEF Parsed, Abs!IsTokenSequence
    <3>2. \A k \in DOMAIN tokens : tokens[k] \in Abs!Token
      BY <3>1
    <3> QED
      BY <3>2 DEF Abs!Token
  <2>4. type \in LeafType
    BY <1>1 DEF AtomType, ParseNode, AtomProductions, LeafType
  <2> QED
    BY <2>2, <2>3, <2>4, <1>3
<1> DEFINE roots == HeldBy(Holding(OnItsWay(mode, left), frames))
<1>5. /\ OnItsWay(mode, left) = NULL_NODE /\ NULL_NODE \notin roots
      /\ roots \subseteq 1 .. Len(ast) /\ Len(ast) \in Nat
      /\ OwnedOK(ast, owned, roots)
      /\ ast \in Seq(AstNode) /\ positions \in [DOMAIN ast -> 0 .. T]
      /\ frames \in Seq(Frame)
  BY <1>1, <1>2, <1>3, ResultFacts DEF OnItsWay, ResultOK, CallsOK
<1>6. CallsOK(mode', target', left', frames')
  BY <1>1, <1>2 DEF CallsOK
<1> HIDE DEF token, type
<1>7. CASE /\ Make(type, tokens[token].chars, NULL_NODE, NULL_NODE, token)
           /\ Return(Len(ast) + 1)
           /\ UNCHANGED fault
  <2> DEFINE node == [type |-> type, chars |-> tokens[token].chars,
                      left |-> NULL_NODE, right |-> NULL_NODE,
                      minimum |-> 0, maximum |-> 0]
  <2>1. node \in AstNode /\ Children(node) = {}
    BY <1>4, MadeNodes DEF NULL_NODE
  <2>2. /\ ast' = Append(ast, node) /\ positions' = Append(positions, token)
        /\ owned' = owned \cup {Len(ast) + 1} /\ left' = Len(ast) + 1
    BY <1>7 DEF Make, Return
  <2>3. Children(node) \subseteq roots /\ token \in 0 .. T
    BY <2>1, <1>4
  <2> HIDE DEF node, roots
  <2>4. /\ ast' \in Seq(AstNode) /\ positions' \in [DOMAIN ast' -> 0 .. T]
        /\ Len(ast') = Len(ast) + 1 /\ Len(ast) + 1 \notin roots
        /\ OwnedOK(ast', owned',
                   (roots \ Children(node)) \cup {Len(ast) + 1})
    BY ONLY <1>3, <1>5, <2>1, <2>2, <2>3, ResultMade
  <2>5. /\ OnItsWay(mode', left') = left' /\ left' # NULL_NODE
        /\ left' \notin roots /\ left' \in 0 .. Len(ast')
    BY <1>1, <1>5, <2>2, <2>4 DEF OnItsWay, NULL_NODE
  <2>6. OwnedOK(ast', owned', (roots \ {OnItsWay(mode, left)})
                                \cup ({left'} \ {NULL_NODE}))
    <3>1. (roots \ {OnItsWay(mode, left)}) \cup ({left'} \ {NULL_NODE})
             = (roots \ Children(node)) \cup {Len(ast) + 1}
      BY <1>5, <2>1, <2>2, <2>5
    <3> QED
      BY <2>4, <3>1
  <2>7. roots = HeldBy(Holding(OnItsWay(mode, left), frames))
    BY DEF roots
  <2>8. ResultOK(mode', left', frames, ast', positions', owned')
    BY ONLY <1>2, <1>3, <1>5, <2>4, <2>5, <2>6, <2>7, ResultReplaced
  <2>9. MessageOK'
    BY <1>1, <1>2, <1>7, MessageSet
  <2> QED
    BY <1>1, <1>6, <2>8, <2>9, StepKeeps
<1>8. CASE /\ LowerFails(token, "failed to allocate atom AST node")
           /\ UNCHANGED owned
  <2>1. /\ ast' = ast /\ positions' = positions /\ owned' = owned
        /\ left' = NULL_NODE /\ OnItsWay(mode', left') = NULL_NODE
        /\ error' = "failed to allocate atom AST node" /\ position' = token
    BY <1>8 DEF LowerFails, Return, OnItsWay
  <2>2. ResultOK(mode', left', frames', ast', positions', owned')
    <3>1. /\ HeldOnce(Holding(NULL_NODE, frames))
          /\ OwnedOK(ast, owned, HeldBy(Holding(NULL_NODE, frames)))
      BY <1>2, <1>5 DEF ResultOK
    <3>2. NULL_NODE \in 0 .. Len(ast)
      BY <1>5 DEF NULL_NODE
    <3> QED
      BY ONLY <1>1, <1>3, <1>5, <2>1, <3>1, <3>2 DEF ResultOK
  <2>3. MessageOK'
    <3>1. error' \in LoweringErrors
      BY <2>1 DEF LoweringErrors
    <3>2. position' \in 0 .. T
      <4>1. token \in 0 .. T
        BY ONLY <1>4, T \in Nat
      <4> QED
        BY ONLY <2>1, <4>1
    <3> QED
      BY <1>1, <1>2, <1>3, <3>1, <3>2, MessageSet
  <2> QED
    BY <1>1, <1>6, <2>2, <2>3, StepKeeps
<1> QED
  BY <1>7, <1>8 DEF LowerLeaf, token, type

\* A tail that is empty returns the operands it was given.
LEMMA TailEndsInvariant ==
    ASSUME LoweringIInv, TailEnds PROVE LoweringIInv'
<1>1. /\ mode = "tail" /\ mode' = "return"
      /\ UNCHANGED still /\ UNCHANGED fault /\ tokens' = tokens
      /\ target' = target /\ left' = left /\ frames' = frames
      /\ ast' = ast /\ positions' = positions /\ owned' = owned
  BY DEF TailEnds, nodes, still
<1>2. /\ MessageOK /\ CallsOK(mode, target, left, frames)
      /\ ResultOK(mode, left, frames, ast, positions, owned)
  BY <1>1, AtWork
<1>3. CallsOK(mode', target', left', frames')
  BY <1>1, <1>2 DEF CallsOK
<1>4. ResultOK(mode', left', frames', ast', positions', owned')
  BY <1>1, <1>2 DEF ResultOK, OnItsWay
<1>5. MessageOK'
  BY <1>1, <1>2, MessageSet
<1> QED
  BY <1>1, <1>3, <1>4, <1>5, StepKeeps
-----------------------------------------------------------------------------
(* The returns.                                                            *)

\* The call on top leaves, or goes on and holds nothing.
TopGone(frs, frs2) ==
    \/ frs2 = Front(frs)
    \/ \E g \in Frame : g.held = NULL_NODE /\ frs2 = Append(Front(frs), g)

\* The calls below the one on top stay as they are.
LEMMA GoneFacts ==
    ASSUME NEW frs \in Seq(Frame), frs # <<>>, NEW frs2, TopGone(frs, frs2)
    PROVE  \E K \in Nat \ {0} : \E K2 \in K - 1 .. K :
              /\ K = Len(frs) /\ Last(frs) = frs[K]
              /\ frs2 \in Seq(Frame) /\ Len(frs2) = K2
              /\ \A i \in 1 .. K - 1 : frs2[i] = frs[i]
              /\ K2 = K => frs2[K].held = NULL_NODE
<1>1. PICK K \in Nat \ {0} : K = Len(frs)
  BY TopOf
<1>2. /\ Last(frs) = frs[K] /\ Front(frs) \in Seq(Frame)
      /\ Len(Front(frs)) = K - 1
      /\ \A i \in 1 .. K - 1 : Front(frs)[i] = frs[i]
  BY <1>1, TopOf
<1>3. K - 1 \in K - 1 .. K /\ K \in K - 1 .. K /\ K - 1 # K /\ K - 1 \in Nat
      /\ (K - 1) + 1 = K
  BY ONLY K \in Nat \ {0}
<1>4. CASE frs2 = Front(frs)
  BY ONLY <1>1, <1>2, <1>3, <1>4
<1>5. CASE \E g \in Frame : g.held = NULL_NODE /\ frs2 = Append(Front(frs), g)
  <2>1. PICK g \in Frame : g.held = NULL_NODE /\ frs2 = Append(Front(frs), g)
    BY <1>5
  <2>2. /\ frs2 \in Seq(Frame) /\ Len(frs2) = K
        /\ \A i \in 1 .. K - 1 : frs2[i] = Front(frs)[i]
        /\ frs2[K] = g
    BY ONLY <1>2, <1>3, <2>1, PushedCall
  <2> QED
    BY ONLY <1>1, <1>2, <1>3, <2>1, <2>2, ZenonT(60)
<1> QED
  BY <1>4, <1>5 DEF TopGone

\* The result when the call on top is gone and what was on its way, too, has
\* changed.
LEMMA ResultGone ==
    ASSUME NEW l, NEW frs \in Seq(Frame), frs # <<>>,
           ResultOK("return", l, frs, ast, positions, owned),
           NEW frs2, TopGone(frs, frs2),
           NEW T \in Nat, T = Len(tokens),
           NEW m2, NEW y, m2 # "call",
           NEW roots, roots = HeldBy(Holding(l, frs)),
           y \in {l, NULL_NODE} \/ y \notin roots,
           ast' \in Seq(AstNode), positions' \in [DOMAIN ast' -> 0 .. T],
           y \in 0 .. Len(ast'),
           OwnedOK(ast', owned',
                   (roots \ {l, Last(frs).held}) \cup ({y} \ {NULL_NODE}))
    PROVE  ResultOK(m2, y, frs2, ast', positions', owned')
<1>1. PICK K \in Nat \ {0} : \E K2 \in K - 1 .. K :
         /\ K = Len(frs) /\ Last(frs) = frs[K]
         /\ frs2 \in Seq(Frame) /\ Len(frs2) = K2
         /\ \A i \in 1 .. K - 1 : frs2[i] = frs[i]
         /\ K2 = K => frs2[K].held = NULL_NODE
  BY GoneFacts
<1>2. PICK K2 \in K - 1 .. K :
         /\ K = Len(frs) /\ Last(frs) = frs[K]
         /\ frs2 \in Seq(Frame) /\ Len(frs2) = K2
         /\ \A i \in 1 .. K - 1 : frs2[i] = frs[i]
         /\ K2 = K => frs2[K].held = NULL_NODE
  BY <1>1
<1>3. OnItsWay("return", l) = l /\ OnItsWay(m2, y) = y
  BY DEF OnItsWay
<1>4. HeldOnce(Holding(l, frs))
  BY <1>3 DEF ResultOK
<1>5. y \in {l, NULL_NODE} \/ y \notin HeldBy(Holding(l, frs))
  OBVIOUS
<1>6. /\ HeldOnce(Holding(y, frs2))
      /\ HeldBy(Holding(y, frs2)) =
            (HeldBy(Holding(l, frs)) \ {l, frs[K].held})
               \cup ({y} \ {NULL_NODE})
  <2>1. /\ Len(frs) = K /\ Len(frs2) = K2
        /\ \A i \in 1 .. K - 1 : frs2[i] = frs[i]
        /\ K2 = K => frs2[K].held = NULL_NODE
    BY ONLY <1>2
  <2> QED
    BY ONLY K \in Nat \ {0}, K2 \in K - 1 .. K, <2>1, <1>4, <1>5, HoldsChanged
<1>7. OwnedOK(ast', owned', HeldBy(Holding(y, frs2)))
  BY <1>2, <1>6
<1> QED
  BY <1>3, <1>6, <1>7 DEF ResultOK

\* The calls without the one on top.
LEMMA CallsLeft ==
    ASSUME NEW t, NEW l, NEW frs, frs # <<>>, CallsOK("return", t, l, frs),
           NEW l2
    PROVE  CallsOK("return", t, l2, Front(frs))
<1>1. frs \in Seq(Frame)
  BY DEF CallsOK
<1>2. /\ Front(frs) \in Seq(Frame)
      /\ \A i \in DOMAIN Front(frs) :
            i \in DOMAIN frs /\ Front(frs)[i] = frs[i]
  <2>1. PICK K \in Nat \ {0} : K = Len(frs)
    BY <1>1, TopOf
  <2>2. /\ DOMAIN frs = 1 .. K /\ DOMAIN Front(frs) = 1 .. K - 1
        /\ \A i \in 1 .. K - 1 : Front(frs)[i] = frs[i]
        /\ Front(frs) \in Seq(Frame)
    BY <1>1, <2>1, TopOf
  <2>3. \A i \in 1 .. K - 1 : i \in 1 .. K
    BY ONLY K \in Nat \ {0}
  <2> QED
    BY ONLY <2>2, <2>3
<1> QED
  BY <1>2 DEF CallsOK

\* The call on top, and the node it is of.
LEMMA CallerFacts ==
    ASSUME NEW t, NEW l, NEW frs, frs # <<>>, CallsOK("return", t, l, frs)
    PROVE  /\ frs \in Seq(Frame) /\ Last(frs) \in Frame
           /\ WaitsOK(Last(frs)) /\ Last(frs).node \in DOMAIN tree
<1>1. frs \in Seq(Frame)
  BY DEF CallsOK
<1>2. Last(frs) \in Frame /\ \E i \in DOMAIN frs : Last(frs) = frs[i]
  <2>1. PICK K \in Nat \ {0} : K = Len(frs)
    BY <1>1, TopOf
  <2>2. DOMAIN frs = 1 .. K /\ Last(frs) = frs[K] /\ Last(frs) \in Frame
    BY <1>1, <2>1, TopOf
  <2>3. K \in 1 .. K
    BY ONLY K \in Nat \ {0}
  <2> QED
    BY ONLY <2>2, <2>3
<1> QED
  BY <1>1, <1>2 DEF CallsOK, WaitsOK

\* The calls when the one on top goes on with its tail.
LEMMA CallsGoOn ==
    ASSUME TreeOK(tree), ExpandedOK(tree), NEW t, NEW l, NEW frs, frs # <<>>,
           CallsOK("return", t, l, frs), TailOK(Last(frs).node),
           NEW l2, l2 # NULL_NODE,
           NEW g \in Frame, g.node = Last(frs).node, WaitsOK(g)
    PROVE  CallsOK("tail", Last(tree[g.node].children), l2,
                   Append(Front(frs), g))
<1> DEFINE n == g.node
           c == Last(tree[n].children)
           frs2 == Append(Front(frs), g)
<1>1. frs \in Seq(Frame)
  BY DEF CallsOK
<1>2. PICK K \in Nat \ {0} : K = Len(frs) /\ DOMAIN frs = 1 .. K
  BY <1>1, TopOf
<1>3. /\ Last(frs) = frs[K] /\ Front(frs) \in Seq(Frame)
      /\ Len(Front(frs)) = K - 1
      /\ \A i \in 1 .. K - 1 : Front(frs)[i] = frs[i]
  BY <1>1, <1>2, TopOf
<1>4. /\ K - 1 \in Nat /\ (K - 1) + 1 = K /\ K \in 1 .. K
      /\ \A i \in 1 .. K : i \in 1 .. K - 1 \/ i = K
  BY ONLY K \in Nat \ {0}
<1>5. /\ frs2 \in Seq(Frame) /\ Len(frs2) = K /\ DOMAIN frs2 = 1 .. K
      /\ \A i \in 1 .. K - 1 : frs2[i] = frs[i]
      /\ frs2[K] = g
  BY ONLY <1>3, <1>4, g \in Frame, PushedCall
<1>6. \A i \in 1 .. K : WaitsOK(frs[i])
      /\ Heights[frs[i].node] + i <= Heights[ROOT]
  BY <1>2 DEF CallsOK
<1>7. Heights[n] + K <= Heights[ROOT] /\ n \in DOMAIN tree
  BY <1>3, <1>4, <1>6 DEF WaitsOK
<1>8. /\ c \in DOMAIN tree
      /\ tree[c].production \in ListTails \cup EmptyTails
      /\ \E i \in DOMAIN tree[n].children : c = tree[n].children[i]
  BY DEF TailOK
<1>9. /\ Heights[c] + 1 <= Heights[n]
      /\ Heights[c] \in Nat /\ Heights[n] \in Nat /\ Heights[ROOT] \in Nat
  BY <1>7, <1>8, HeightsFall, TreeDomain, SMTT(30) DEF ROOT
<1>10. c \in 0 .. Len(tree)
  BY <1>8, TreeDomain
<1> HIDE DEF c, frs2, n
<1>11. Heights[c] + K < Heights[ROOT]
  BY ONLY <1>7, <1>9, K \in Nat \ {0}
<1>12. \A i \in 1 .. K :
          WaitsOK(frs2[i]) /\ Heights[frs2[i].node] + i <= Heights[ROOT]
  BY <1>4, <1>5, <1>6, <1>7 DEF n
<1>13. CallsOK("tail", c, l2, frs2)
  BY <1>5, <1>8, <1>10, <1>11, <1>12 DEF CallsOK
<1> QED
  BY <1>13 DEF c, frs2, n

\* What a returning call finds.
LEMMA ReturnFacts ==
    ASSUME LoweringIInv, mode = "return", frames # <<>>, NEW T \in Nat,
           T = Len(tokens), NEW roots, roots = HeldBy(Holding(left, frames))
    PROVE  /\ StateOK /\ Parsed /\ MessageOK
           /\ TreeOK(tree) /\ ExpandedOK(tree)
           /\ CallsOK("return", target, left, frames)
           /\ ResultOK("return", left, frames, ast, positions, owned)
           /\ frames \in Seq(Frame) /\ Caller = Last(frames)
           /\ Caller \in Frame /\ WaitsOK(Caller)
           /\ Caller.node \in DOMAIN tree
           /\ Len(ast) \in Nat /\ DOMAIN ast = 1 .. Len(ast)
           /\ ast \in Seq(AstNode) /\ positions \in [DOMAIN ast -> 0 .. T]
           /\ left \in 0 .. Len(ast)
           /\ OwnedOK(ast, owned, roots)
           /\ roots \subseteq owned /\ owned \subseteq 1 .. Len(ast)
           /\ NULL_NODE \notin roots
           /\ left # NULL_NODE => left \in roots
           /\ Caller.held # NULL_NODE => Caller.held \in roots
<1>1. /\ StateOK /\ Parsed /\ MessageOK
      /\ TreeOK(tree) /\ ExpandedOK(tree)
      /\ CallsOK("return", target, left, frames)
      /\ ResultOK("return", left, frames, ast, positions, owned)
  BY AtWork
<1>2. /\ frames \in Seq(Frame) /\ Caller \in Frame /\ WaitsOK(Caller)
      /\ Caller.node \in DOMAIN tree
  BY <1>1, CallerFacts DEF Caller
<1>3. OnItsWay("return", left) = left
  BY DEF OnItsWay
<1>4. /\ Len(ast) \in Nat /\ DOMAIN ast = 1 .. Len(ast)
      /\ roots \subseteq owned /\ owned \subseteq 1 .. Len(ast)
      /\ NULL_NODE \notin roots
  BY <1>1, <1>3, ResultFacts
<1>5. /\ ast \in Seq(AstNode) /\ positions \in [DOMAIN ast -> 0 .. T]
      /\ left \in 0 .. Len(ast) /\ OwnedOK(ast, owned, roots)
  BY <1>1, <1>3 DEF ResultOK
<1>6. PICK K \in Nat \ {0} : K = Len(frames) /\ Last(frames) = frames[K]
  BY <1>2, TopOf
<1>7. /\ left # NULL_NODE => left \in roots
      /\ Caller.held # NULL_NODE => Caller.held \in roots
  BY <1>6, IsHeld DEF Caller
<1> QED
  BY <1>1, <1>2, <1>4, <1>5, <1>7 DEF Caller

\* The result when the caller is done, and some of what it and the return
\* held is freed.
LEMMA ResultFreed ==
    ASSUME LoweringIInv, mode = "return", frames # <<>>,
           UNCHANGED <<ast, positions>>,
           NEW R, AstFree(R), Leave,
           R = {left, Caller.held} \ {NULL_NODE}, left' = NULL_NODE
    PROVE  ResultOK("return", left', frames', ast', positions', owned')
<1>1. PICK T \in Nat : T = Len(tokens)
  BY ParserAssumption, AtWork DEF Parsed, Abs!IsTokenSequence
<1> DEFINE roots == HeldBy(Holding(left, frames))
<1>2. /\ ResultOK("return", left, frames, ast, positions, owned)
      /\ frames \in Seq(Frame) /\ Caller = Last(frames)
      /\ Len(ast) \in Nat /\ DOMAIN ast = 1 .. Len(ast)
      /\ ast \in Seq(AstNode) /\ positions \in [DOMAIN ast -> 0 .. T]
      /\ OwnedOK(ast, owned, roots) /\ NULL_NODE \notin roots
      /\ left # NULL_NODE => left \in roots
      /\ Caller.held # NULL_NODE => Caller.held \in roots
  BY <1>1, ReturnFacts
<1>3. roots = HeldBy(Holding(left, frames))
  OBVIOUS
<1> HIDE DEF roots
<1>4. /\ R \subseteq roots /\ roots \ R = roots \ {left, Caller.held}
  BY <1>2
<1>5. owned' = owned \ UNION {TreeOf(root) : root \in R}
  BY ONLY AstFree(R) DEF AstFree
<1>6. PICK N \in Nat : N = Len(ast)
  BY ONLY <1>2, Zenon
<1>7. OwnedOK(ast, owned', roots \ R)
  BY ONLY <1>2, <1>4, <1>5, <1>6, Freed, ZenonT(60)
<1>8. OwnedOK(ast', owned', (roots \ {left, Last(frames).held})
                               \cup ({NULL_NODE} \ {NULL_NODE}))
  BY <1>2, <1>4, <1>7
<1>9. /\ TopGone(frames, frames')
      /\ ast' \in Seq(AstNode) /\ positions' \in [DOMAIN ast' -> 0 .. T]
  BY <1>2 DEF TopGone, Leave
<1>10. NULL_NODE \in 0 .. Len(ast')
  BY <1>2 DEF NULL_NODE
<1>11. "return" # "call" /\ NULL_NODE \in {left, NULL_NODE}
  OBVIOUS
<1> QED
  BY ONLY <1>1, <1>2, <1>3, <1>8, <1>9, <1>10, <1>11, left' = NULL_NODE,
          frames # <<>>, ResultGone

\* The result when the caller held nothing and hands on what it gets.
LEMMA ResultHandedOn ==
    ASSUME LoweringIInv, mode = "return", frames # <<>>,
           UNCHANGED nodes, left' = left, left # NULL_NODE,
           Caller.held = NULL_NODE, TopGone(frames, frames'),
           NEW m, m # "call"
    PROVE  ResultOK(m, left', frames', ast', positions', owned')
<1>1. PICK T \in Nat : T = Len(tokens)
  BY ParserAssumption, AtWork DEF Parsed, Abs!IsTokenSequence
<1> DEFINE roots == HeldBy(Holding(left, frames))
<1>2. /\ ResultOK("return", left, frames, ast, positions, owned)
      /\ frames \in Seq(Frame) /\ Caller = Last(frames)
      /\ ast \in Seq(AstNode) /\ positions \in [DOMAIN ast -> 0 .. T]
      /\ OwnedOK(ast, owned, roots) /\ NULL_NODE \notin roots
      /\ left \in roots /\ left \in 0 .. Len(ast)
  BY <1>1, ReturnFacts
<1>3. roots = HeldBy(Holding(left, frames))
  OBVIOUS
<1> HIDE DEF roots
<1>4. ast' = ast /\ positions' = positions /\ owned' = owned
  BY DEF nodes
<1>5. (roots \ {left, Last(frames).held}) \cup ({left} \ {NULL_NODE}) = roots
  BY <1>2
<1>6. /\ ast' \in Seq(AstNode) /\ positions' \in [DOMAIN ast' -> 0 .. T]
      /\ left \in 0 .. Len(ast') /\ left \in {left, NULL_NODE}
      /\ OwnedOK(ast', owned', (roots \ {left, Last(frames).held})
                                  \cup ({left} \ {NULL_NODE}))
  BY <1>2, <1>4, <1>5
<1> QED
  BY ONLY <1>1, <1>2, <1>3, <1>6, left' = left, m # "call", frames # <<>>,
          TopGone(frames, frames'), ResultGone

\* A failed call makes its caller free what it holds and fail as well.
LEMMA ReturnNullInvariant ==
    ASSUME LoweringIInv, ReturnNull PROVE LoweringIInv'
<1>1. /\ mode = "return" /\ frames # <<>> /\ left = NULL_NODE
      /\ AstFree({Caller.held} \ {NULL_NODE}) /\ Leave
      /\ UNCHANGED still /\ UNCHANGED fault /\ tokens' = tokens
      /\ mode' = mode /\ target' = target /\ left' = NULL_NODE
      /\ UNCHANGED <<ast, positions>>
  BY DEF ReturnNull, still
<1>2. {Caller.held} \ {NULL_NODE} = {left, Caller.held} \ {NULL_NODE}
  BY <1>1
<1>3. ResultOK(mode', left', frames', ast', positions', owned')
  BY <1>1, <1>2, ResultFreed
<1>4. CallsOK(mode', target', left', frames')
  BY <1>1, AtWork, CallsLeft DEF Leave
<1>5. MessageOK'
  BY <1>1, AtWork, MessageSet
<1> QED
  BY <1>1, <1>3, <1>4, <1>5, StepKeeps

\* What a group returns is what its alternation returned.
LEMMA ReturnLastInvariant ==
    ASSUME LoweringIInv, ReturnLast PROVE LoweringIInv'
<1>1. /\ mode = "return" /\ frames # <<>> /\ left # NULL_NODE
      /\ Caller.waits = "last" /\ Leave
      /\ UNCHANGED still /\ UNCHANGED fault /\ tokens' = tokens
      /\ mode' = mode /\ target' = target /\ left' = left /\ UNCHANGED nodes
  BY DEF ReturnLast, IsReturn, still
<1>2. Caller.held = NULL_NODE
  BY <1>1, AtWork, CallerFacts DEF WaitsOK, Caller
<1>3. TopGone(frames, frames')
  BY <1>1 DEF Leave, TopGone
<1>4. ResultOK(mode', left', frames', ast', positions', owned')
  BY <1>1, <1>2, <1>3, ResultHandedOn
<1>5. CallsOK(mode', target', left', frames')
  BY <1>1, AtWork, CallsLeft DEF Leave
<1>6. MessageOK'
  BY <1>1, AtWork, MessageSet
<1> QED
  BY <1>1, <1>4, <1>5, <1>6, StepKeeps

\* The caller goes on with its tail: what the calls are then.
LEMMA GoesOn ==
    ASSUME LoweringIInv, mode = "return", frames # <<>>,
           TailOK(Caller.node), GoOnWithTail(Caller.node), left' # NULL_NODE
    PROVE  /\ CallsOK(mode', target', left', frames')
           /\ TopGone(frames, frames') /\ mode' = "tail"
<1> DEFINE g == [waits |-> "last", node |-> Caller.node, held |-> NULL_NODE]
<1>1. /\ mode' = "tail" /\ target' = Last(tree[Caller.node].children)
      /\ frames' = Append(Front(frames), g)
  BY DEF GoOnWithTail
<1>2. /\ TreeOK(tree) /\ ExpandedOK(tree)
      /\ CallsOK("return", target, left, frames)
  BY AtWork
<1>3. Caller = Last(frames) /\ Caller \in Frame /\ Caller.node \in DOMAIN tree
  BY <1>2, CallerFacts DEF Caller
<1>4. g \in Frame /\ g.held = NULL_NODE /\ g.node = Caller.node
  BY <1>3 DEF Frame, NULL_NODE
<1>5. WaitsOK(g)
  BY <1>3 DEF WaitsOK
<1> HIDE DEF g
<1>6. CallsOK("tail", Last(tree[g.node].children), left',
              Append(Front(frames), g))
  BY <1>2, <1>3, <1>4, <1>5, CallsGoOn
<1> QED
  BY <1>1, <1>4, <1>6 DEF TopGone

\* The first operand is handed to the tail.
LEMMA ReturnFirstInvariant ==
    ASSUME LoweringIInv, ReturnFirst PROVE LoweringIInv'
<1>1. /\ mode = "return" /\ frames # <<>> /\ left # NULL_NODE
      /\ Caller.waits = "first" /\ GoOnWithTail(Caller.node)
      /\ UNCHANGED still /\ UNCHANGED fault /\ tokens' = tokens
      /\ left' = left /\ UNCHANGED nodes
  BY DEF ReturnFirst, IsReturn, still
<1>2. /\ Parsed /\ StateOK /\ MessageOK
      /\ WaitsOK(Caller) /\ Caller.node \in DOMAIN tree
  BY <1>1, AtWork, CallerFacts DEF Caller
<1>3. TailOK(Caller.node) /\ Caller.held = NULL_NODE
  BY <1>1, <1>2, Shapes DEF WaitsOK
<1>4. /\ CallsOK(mode', target', left', frames')
      /\ TopGone(frames, frames') /\ mode' = "tail"
  BY <1>1, <1>3, GoesOn
<1>5. ResultOK(mode', left', frames', ast', positions', owned')
  BY <1>1, <1>3, <1>4, ResultHandedOn
<1>6. MessageOK'
  BY <1>1, <1>2, MessageSet
<1> QED
  BY <1>1, <1>4, <1>5, <1>6, StepKeeps

\* The result when the caller makes a node of what it held and what was on
\* its way.
LEMMA ResultCombined ==
    ASSUME LoweringIInv, mode = "return", frames # <<>>, left # NULL_NODE,
           NEW T \in Nat, T = Len(tokens),
           NEW node \in AstNode,
           Children(node) = {left, Caller.held} \ {NULL_NODE},
           NEW token \in 0 .. T,
           ast' = Append(ast, node), positions' = Append(positions, token),
           owned' = owned \cup {Len(ast) + 1}, left' = Len(ast) + 1,
           TopGone(frames, frames'), NEW m, m # "call"
    PROVE  /\ ResultOK(m, left', frames', ast', positions', owned')
           /\ left' # NULL_NODE
<1> DEFINE roots == HeldBy(Holding(left, frames))
<1>2. /\ ResultOK("return", left, frames, ast, positions, owned)
      /\ frames \in Seq(Frame) /\ Caller = Last(frames)
      /\ ast \in Seq(AstNode) /\ positions \in [DOMAIN ast -> 0 .. T]
      /\ OwnedOK(ast, owned, roots) /\ NULL_NODE \notin roots
      /\ left \in roots
      /\ Caller.held # NULL_NODE => Caller.held \in roots
  BY ReturnFacts
<1>3. roots = HeldBy(Holding(left, frames))
  OBVIOUS
<1> HIDE DEF roots
<1>4. Children(node) \subseteq roots
  BY <1>2
<1>5. /\ ast' \in Seq(AstNode) /\ positions' \in [DOMAIN ast' -> 0 .. T]
      /\ Len(ast') = Len(ast) + 1 /\ Len(ast) \in Nat
      /\ Len(ast) + 1 \notin roots
      /\ OwnedOK(ast', owned',
                 (roots \ Children(node)) \cup {Len(ast) + 1})
  BY ONLY <1>2, <1>4, ResultMade, node \in AstNode, T \in Nat,
          T = Len(tokens), token \in 0 .. T, ast' = Append(ast, node),
          positions' = Append(positions, token),
          owned' = owned \cup {Len(ast) + 1}
<1>6. PICK y : y = Len(ast) + 1
  OBVIOUS
<1>7. y # NULL_NODE /\ y \in 0 .. Len(ast') /\ y \notin roots /\ left' = y
  BY <1>5, <1>6 DEF NULL_NODE
<1>8. (roots \ {left, Last(frames).held}) \cup ({y} \ {NULL_NODE})
         = (roots \ Children(node)) \cup {Len(ast) + 1}
  <2>1. Children(node) = {left, Last(frames).held} \ {NULL_NODE}
    BY <1>2
  <2> QED
    BY ONLY <2>1, <1>2, <1>6, <1>7
<1>9. OwnedOK(ast', owned', (roots \ {left, Last(frames).held})
                               \cup ({y} \ {NULL_NODE}))
  BY <1>5, <1>8
<1>10. ResultOK(m, y, frames', ast', positions', owned')
  BY ONLY <1>2, <1>3, <1>5, <1>7, <1>9, T \in Nat, T = Len(tokens),
          frames # <<>>, TopGone(frames, frames'), m # "call", ResultGone
<1> QED
  BY <1>7, <1>10

\* The token of an operator, and of any node that is made.
LEMMA OperatorTokens ==
    ASSUME LoweringIInv, mode = "return", frames # <<>>, left # NULL_NODE,
           NEW T \in Nat, T = Len(tokens)
    PROVE  /\ Caller.waits = "next" => OperatorToken \in 0 .. T
           /\ Caller.waits = "atom"
                 /\ Quantifier.production # "QUANTIFIER_EMPTY" =>
                 /\ tree[Quantifier.children[1]].token \in 0 .. T
                 /\ UnaryTypeOf(Quantifier.production) \in UnaryType
<1>1. /\ Parsed /\ StateOK /\ WaitsOK(Caller) /\ Caller.node \in DOMAIN tree
      /\ positions \in [DOMAIN ast -> 0 .. T] /\ DOMAIN ast = 1 .. Len(ast)
      /\ left \in 0 .. Len(ast) /\ Len(ast) \in Nat
  BY ReturnFacts
<1>2. \A n : TokenOK(n) => tree[n].token \in 0 .. T
  <2>1. tokens \in Seq(Abs!Token)
    BY <1>1, ParserAssumption DEF Parsed, Abs!IsTokenSequence
  <2>2. DOMAIN tokens = 1 .. T
    BY <2>1
  <2> QED
    BY <2>2 DEF TokenOK
<1>3. positions[left] \in 0 .. T
  <2>1. left \in 1 .. Len(ast)
    BY <1>1 DEF NULL_NODE
  <2> QED
    BY <2>1, <1>1
<1>4. tree[Caller.node].production = "ALTERNATION_TAIL_PIPE" =>
         tree[tree[Caller.node].children[1]].token \in 0 .. T
  BY <1>1, <1>2, Shapes
<1>5. OperatorToken \in 0 .. T
  BY <1>3, <1>4 DEF OperatorToken
<1>6. ASSUME Caller.waits = "atom",
             Quantifier.production # "QUANTIFIER_EMPTY"
      PROVE  /\ tree[Quantifier.children[1]].token \in 0 .. T
             /\ UnaryTypeOf(Quantifier.production) \in UnaryType
  <2> DEFINE q == tree[Caller.node].children[2]
  <2>1. q \in DOMAIN tree /\ tree[q].production \in Quantifying
    BY <1>1, <1>6, Shapes DEF WaitsOK, Quantifier
  <2>2. Quantifier = tree[q]
    BY DEF Quantifier
  <2> HIDE DEF q
  <2>3. TokenOK(tree[q].children[1])
    BY <2>1, <1>1, Shapes
  <2>4. UnaryTypeOf(tree[q].production) \in UnaryType
    BY <2>1 DEF UnaryTypeOf, UnaryType, Quantifying
  <2> QED
    BY <2>2, <2>3, <2>4, <1>2
<1> QED
  BY <1>5, <1>6

\* The operand is joined to those before it, or all of them are freed.
LEMMA ReturnNextInvariant ==
    ASSUME LoweringIInv, ReturnNext PROVE LoweringIInv'
<1>1. /\ mode = "return" /\ frames # <<>> /\ left # NULL_NODE
      /\ Caller.waits = "next" /\ UNCHANGED still /\ tokens' = tokens
  BY DEF ReturnNext, IsReturn, still
<1>2. PICK T \in Nat : T = Len(tokens)
  BY <1>1, ParserAssumption, AtWork DEF Parsed, Abs!IsTokenSequence
<1>3. /\ Parsed /\ StateOK /\ MessageOK
      /\ CallsOK("return", target, left, frames)
      /\ Caller \in Frame /\ WaitsOK(Caller) /\ Caller.node \in DOMAIN tree
      /\ left \in Nat /\ Caller.held \in Nat /\ Caller.held # NULL_NODE
  <2>1. left \in 0 .. Len(ast) /\ Len(ast) \in Nat /\ Caller \in Frame
    BY <1>1, <1>2, ReturnFacts
  <2>2. left \in Nat
    BY ONLY <2>1
  <2> QED
    BY <1>1, <1>2, <2>1, <2>2, ReturnFacts DEF WaitsOK, Frame
<1>4. TailOK(Caller.node) /\ OperatorToken \in 0 .. T
  BY <1>1, <1>2, <1>3, Shapes, OperatorTokens DEF WaitsOK
<1>5. CASE /\ Combine
           /\ left' = Len(ast) + 1
           /\ GoOnWithTail(Caller.node)
           /\ UNCHANGED fault
  <2> DEFINE type == BinaryTypeOf(tree[Caller.node].production)
             node == [type |-> type, chars |-> {},
                      left |-> Caller.held, right |-> left,
                      minimum |-> 0, maximum |-> 0]
  <2>1. type \in BinaryType
    BY DEF BinaryTypeOf, BinaryType
  <2>2. /\ ast' = Append(ast, node)
        /\ positions' = Append(positions, OperatorToken)
        /\ owned' = owned \cup {Len(ast) + 1} /\ left' = Len(ast) + 1
    BY <1>5 DEF Combine, Make
  <2>3. {} \in SUBSET Chars
    OBVIOUS
  <2> HIDE DEF type
  <2>4. node \in AstNode /\ Children(node) = {Caller.held, left}
    BY <1>3, <2>1, <2>3, MadeNodes, SMTT(30)
  <2>5. Children(node) = {left, Caller.held} \ {NULL_NODE}
    BY <1>1, <1>3, <2>4
  <2> HIDE DEF node
  <2>6. TopGone(frames, frames') /\ mode' = "tail"
    BY <1>5, <1>3 DEF GoOnWithTail, TopGone, Frame, WaitsOK, NULL_NODE
  <2>7. left' # NULL_NODE
        /\ ResultOK(mode', left', frames', ast', positions', owned')
    BY <1>1, <1>2, <1>4, <2>2, <2>4, <2>5, <2>6, ResultCombined
  <2>8. CallsOK(mode', target', left', frames')
    BY <1>1, <1>4, <1>5, <2>7, GoesOn
  <2>9. MessageOK'
    BY <1>1, <1>3, <1>5, MessageSet
  <2> QED
    BY <1>1, <2>6, <2>7, <2>8, <2>9, StepKeeps
<1>6. CASE /\ LowerFails(OperatorToken, "failed to allocate binary AST node")
           /\ ReleaseBoth
           /\ Leave
           /\ UNCHANGED target
  <2>1. /\ mode' = "return" /\ left' = NULL_NODE /\ target' = target
        /\ UNCHANGED <<ast, positions>> /\ Leave
        /\ error' = "failed to allocate binary AST node"
        /\ position' = OperatorToken
        /\ AstFree({Caller.held, left})
    BY <1>6 DEF LowerFails, Return, ReleaseBoth
  <2>2. {Caller.held, left} = {left, Caller.held} \ {NULL_NODE}
    BY <1>1, <1>3
  <2>3. ResultOK(mode', left', frames', ast', positions', owned')
    BY <1>1, <2>1, <2>2, ResultFreed
  <2>4. CallsOK(mode', target', left', frames')
    BY <1>1, <1>3, <2>1, CallsLeft DEF Leave
  <2>5. error' \in LoweringErrors /\ position' \in 0 .. T
    BY <1>4, <2>1 DEF LoweringErrors
  <2>6. MessageOK'
    BY <1>1, <1>2, <1>3, <2>5, MessageSet
  <2> QED
    BY <1>1, <2>1, <2>3, <2>4, <2>6, StepKeeps
<1> QED
  BY <1>5, <1>6 DEF ReturnNext

\* The atom is wrapped in its quantifier, or freed.
LEMMA ReturnAtomInvariant ==
    ASSUME LoweringIInv, ReturnAtom PROVE LoweringIInv'
<1> DEFINE type == UnaryTypeOf(Quantifier.production)
           operator == tree[Quantifier.children[1]].token
<1>1. /\ mode = "return" /\ frames # <<>> /\ left # NULL_NODE
      /\ Caller.waits = "atom" /\ UNCHANGED still /\ tokens' = tokens
      /\ Leave /\ target' = target
  BY DEF ReturnAtom, IsReturn, still
<1>2. PICK T \in Nat : T = Len(tokens)
  BY <1>1, ParserAssumption, AtWork DEF Parsed, Abs!IsTokenSequence
<1>3. /\ Parsed /\ StateOK /\ MessageOK
      /\ CallsOK("return", target, left, frames)
      /\ Caller.held = NULL_NODE /\ left \in Nat
  <2>1. left \in 0 .. Len(ast) /\ Len(ast) \in Nat
    BY <1>1, <1>2, ReturnFacts
  <2>2. left \in Nat
    BY ONLY <2>1
  <2> QED
    BY <1>1, <1>2, <2>2, ReturnFacts DEF WaitsOK
<1>4. TopGone(frames, frames')
  BY <1>1 DEF TopGone, Leave
<1>5. Quantifier.production # "QUANTIFIER_EMPTY" =>
         operator \in 0 .. T /\ type \in UnaryType
  BY <1>1, <1>2, OperatorTokens
<1>6. mode' = "return" => CallsOK(mode', target', left', frames')
  BY <1>1, <1>3, CallsLeft DEF Leave
<1>7. \/ /\ Quantifier.production = "QUANTIFIER_EMPTY"
         /\ UNCHANGED <<fault, mode, left, nodes>>
      \/ /\ Quantifier.production # "QUANTIFIER_EMPTY"
         /\ Make(type, {}, left, NULL_NODE, operator)
         /\ Return(Len(ast) + 1)
         /\ UNCHANGED fault
      \/ /\ Quantifier.production # "QUANTIFIER_EMPTY"
         /\ AstFree({left})
         /\ LowerFails(operator, "failed to allocate quantifier AST node")
  BY DEF ReturnAtom
<1> HIDE DEF type, operator
<1>8. CASE UNCHANGED <<fault, mode, left, nodes>>
  <2>1. ResultOK(mode', left', frames', ast', positions', owned')
    BY <1>1, <1>3, <1>4, <1>8, ResultHandedOn
  <2>2. MessageOK'
    BY <1>1, <1>3, <1>8, MessageSet
  <2> QED
    BY <1>1, <1>6, <1>8, <2>1, <2>2, StepKeeps
<1>9. CASE /\ Quantifier.production # "QUANTIFIER_EMPTY"
           /\ Make(type, {}, left, NULL_NODE, operator)
           /\ Return(Len(ast) + 1)
           /\ UNCHANGED fault
  <2> DEFINE node == [type |-> type, chars |-> {},
                      left |-> left, right |-> NULL_NODE,
                      minimum |-> 0, maximum |-> 0]
  <2>1. /\ ast' = Append(ast, node) /\ positions' = Append(positions, operator)
        /\ owned' = owned \cup {Len(ast) + 1} /\ left' = Len(ast) + 1
        /\ mode' = "return"
    BY <1>9 DEF Make, Return
  <2>2. {} \in SUBSET Chars /\ NULL_NODE \in Nat
    BY DEF NULL_NODE
  <2>3. node \in AstNode /\ Children(node) = {left}
    <3>1. type \in UnaryType /\ left \in Nat
      BY <1>3, <1>5, <1>9
    <3> QED
      BY ONLY <3>1, <2>2, MadeNodes, SMTT(30)
  <2>4. Children(node) = {left, Caller.held} \ {NULL_NODE}
    BY <1>1, <1>3, <2>3
  <2> HIDE DEF node
  <2>5. ResultOK(mode', left', frames', ast', positions', owned')
    BY <1>1, <1>2, <1>4, <1>5, <1>9, <2>1, <2>3, <2>4, ResultCombined
  <2>6. MessageOK'
    BY <1>1, <1>3, <1>9, MessageSet
  <2> QED
    BY <1>1, <1>6, <2>1, <2>5, <2>6, StepKeeps
<1>10. CASE /\ Quantifier.production # "QUANTIFIER_EMPTY"
            /\ AstFree({left})
            /\ LowerFails(operator, "failed to allocate quantifier AST node")
  <2>1. /\ mode' = "return" /\ left' = NULL_NODE
        /\ UNCHANGED <<ast, positions>>
        /\ error' = "failed to allocate quantifier AST node"
        /\ position' = operator
    BY <1>10 DEF LowerFails, Return
  <2>2. {left} = {left, Caller.held} \ {NULL_NODE}
    BY <1>1, <1>3
  <2>3. ResultOK(mode', left', frames', ast', positions', owned')
    BY <1>1, <1>10, <2>1, <2>2, ResultFreed
  <2>4. error' \in LoweringErrors /\ position' \in 0 .. T
    BY <1>5, <1>10, <2>1 DEF LoweringErrors
  <2>5. MessageOK'
    BY <1>1, <1>2, <1>3, <2>4, MessageSet
  <2> QED
    BY <1>1, <1>6, <2>1, <2>3, <2>5, StepKeeps
<1> QED
  BY <1>7, <1>8, <1>9, <1>10
-----------------------------------------------------------------------------
(* The beginning and the end.                                              *)

\* Parser and lowering begin with the invariant.
LEMMA LoweringInitInvariant ==
    ASSUME LoweringInit PROVE LoweringIInv
BY InitInvariant DEF LoweringInit, LoweringIInv, NULL_NODE

\* Nothing is held yet.
LEMMA NothingHeld ==
    ASSUME ast = <<>>, positions = <<>>, owned = {}, NEW m, m # "over"
    PROVE  /\ ResultOK(m, NULL_NODE, <<>>, ast, positions, owned)
           /\ HeldBy(Holding(OnItsWay(m, NULL_NODE), <<>>)) = {}
           /\ OnItsWay(m, NULL_NODE) = NULL_NODE
           /\ Len(ast) = 0
<1>1. OnItsWay(m, NULL_NODE) = NULL_NODE
  BY DEF OnItsWay
<1>2. /\ ast \in Seq(AstNode) /\ Len(ast) = 0 /\ DOMAIN ast = {}
      /\ Len(<<>>) = 0
  BY NoElements
<1>3. positions \in [DOMAIN ast -> 0 .. Len(tokens)]
  <2>1. positions = [i \in {} |-> 0]
    <3>1. DOMAIN positions = {}
      BY NoElements
    <3> QED
      BY <3>1
  <2> QED
    BY ONLY <1>2, <2>1
<1> DEFINE h == Holding(NULL_NODE, <<>>)
<1>4. DOMAIN h = {0} /\ h[0] = NULL_NODE
  <2>1. 0 .. 0 = {0}
    OBVIOUS
  <2> QED
    BY <1>2, <2>1 DEF Holding
<1> HIDE DEF h
<1>5. HeldOnce(h) /\ HeldBy(h) = {}
  BY <1>4 DEF HeldOnce, HeldBy
<1>6. OwnedOK(ast, owned, {})
  BY DEF OwnedOK
<1>7. NULL_NODE \in 0 .. Len(ast)
  BY <1>2 DEF NULL_NODE
<1> QED
  BY <1>1, <1>2, <1>3, <1>5, <1>6, <1>7 DEF ResultOK, h

\* The parse tree the lower_ functions are given.
LEMMA TreeGiven ==
    ASSUME LoweringIInv, mode = "idle", pc = "done", error = NoError
    PROVE  /\ StateOK /\ Parsed /\ MessageOK /\ parsed = FALSE
           /\ live = DOMAIN tree
           /\ TreeOK(tree) /\ ExpandedOK(tree) /\ ROOT \in DOMAIN tree
           /\ target = NULL_NODE /\ left = NULL_NODE /\ frames = <<>>
           /\ ast = <<>> /\ positions = <<>> /\ owned = {}
<1>1. /\ IInv /\ target = NULL_NODE /\ left = NULL_NODE /\ frames = <<>>
      /\ ast = <<>> /\ positions = <<>> /\ owned = {} /\ parsed = FALSE
  BY DEF LoweringIInv
<1>2. /\ StateOK /\ error \in {NoError} \cup ParserErrors
      /\ tokens \in Inputs /\ TokensOK(tree)
      /\ stack = <<>> /\ live = DOMAIN tree /\ LoopOK
  BY <1>1 DEF IInv, TypeOK, PhaseOK
<1>3. tree # <<>> /\ ExpandedOK(tree) /\ PendingOK(tree, <<>>)
  BY <1>2 DEF LoopOK
<1>4. TreeOK(tree) /\ ROOT \in DOMAIN tree
  BY <1>1, <1>3, TreeDomain DEF IInv, ROOT
<1>5. MessageOK
  BY <1>2 DEF MessageOK, StateOK
<1> QED
  BY <1>1, <1>2, <1>3, <1>4, <1>5 DEF Parsed

\* parser_parse lowers the tree of a pattern that is not empty.
LEMMA LowerRootInvariant ==
    ASSUME LoweringIInv, LowerRoot PROVE LoweringIInv'
<1>1. /\ mode = "idle" /\ pc = "done" /\ error = NoError
      /\ tree[ROOT].production = "REGEX_ALTERNATION_END"
      /\ mode' = "call" /\ target' = tree[ROOT].children[1]
      /\ left' = left /\ frames' = frames
      /\ ast' = ast /\ positions' = positions /\ owned' = owned
      /\ UNCHANGED still /\ UNCHANGED fault /\ tokens' = tokens
  BY DEF LowerRoot, vars, still, nodes
<1>2. /\ StateOK /\ Parsed /\ MessageOK /\ parsed = FALSE
      /\ live = DOMAIN tree
      /\ TreeOK(tree) /\ ExpandedOK(tree) /\ ROOT \in DOMAIN tree
      /\ left = NULL_NODE /\ frames = <<>>
      /\ ast = <<>> /\ positions = <<>> /\ owned = {}
  BY <1>1, TreeGiven
<1>3. /\ 1 \in DOMAIN tree[ROOT].children /\ target' \in DOMAIN tree
      /\ tree[target'].production \in Callable
  BY <1>1, <1>2, Shapes DEF CalledOK
<1>4. /\ Heights[target'] + 1 <= Heights[ROOT]
      /\ Heights[target'] \in Nat /\ Heights[ROOT] \in Nat
  BY <1>1, <1>2, <1>3, HeightsFall
<1>5. CallsOK(mode', target', left', frames')
  <2>1. frames' \in Seq(Frame) /\ Len(frames') = 0 /\ DOMAIN frames' = {}
    BY <1>1, <1>2, NoElements
  <2>2. Heights[target'] + 0 < Heights[ROOT]
    BY ONLY <1>4
  <2>3. target' \in 0 .. Len(tree)
    BY <1>2, <1>3, TreeDomain
  <2> QED
    BY <1>1, <1>3, <2>1, <2>2, <2>3 DEF CallsOK
<1>6. ResultOK(mode', left', frames', ast', positions', owned')
  BY <1>1, <1>2, NothingHeld
<1>7. MessageOK'
  BY <1>1, <1>2, MessageSet
<1> QED
  BY <1>1, <1>2, <1>5, <1>6, <1>7, TreeKept

\* parser_parse answers an empty pattern with an empty node.
LEMMA LowerEmptyInvariant ==
    ASSUME LoweringIInv, LowerEmpty PROVE LoweringIInv'
<1>1. /\ mode = "idle" /\ pc = "done" /\ error = NoError
      /\ mode' = "return" /\ target' = target /\ frames' = frames
      /\ UNCHANGED still /\ tokens' = tokens
  BY DEF LowerEmpty, still, Return, LowerFails
<1>2. /\ StateOK /\ Parsed /\ MessageOK /\ parsed = FALSE
      /\ live = DOMAIN tree /\ TreeOK(tree)
      /\ target = NULL_NODE /\ left = NULL_NODE /\ frames = <<>>
      /\ ast = <<>> /\ positions = <<>> /\ owned = {}
  BY <1>1, TreeGiven
<1>3. PICK T \in Nat : T = Len(tokens)
  BY <1>2, ParserAssumption DEF Parsed, Abs!IsTokenSequence
<1>4. /\ ResultOK(mode, left, frames, ast, positions, owned)
      /\ ResultOK("return", left, frames, ast, positions, owned)
      /\ HeldBy(Holding(OnItsWay(mode, left), frames)) = {}
      /\ OnItsWay(mode, left) = NULL_NODE /\ Len(ast) = 0
  BY <1>1, <1>2, NothingHeld
<1>5. CallsOK(mode', target', left', frames')
  <2>1. frames' \in Seq(Frame) /\ DOMAIN frames' = {}
    BY <1>1, <1>2, NoElements
  <2>2. target' \in 0 .. Len(tree)
    BY <1>1, <1>2, TreeDomain DEF NULL_NODE
  <2> QED
    BY <1>1, <2>1, <2>2 DEF CallsOK
<1>6. CASE /\ Make("EMPTY", {}, NULL_NODE, NULL_NODE, 0)
           /\ Return(Len(ast) + 1)
           /\ UNCHANGED fault
  <2> DEFINE node == [type |-> "EMPTY", chars |-> {},
                      left |-> NULL_NODE, right |-> NULL_NODE,
                      minimum |-> 0, maximum |-> 0]
  <2>1. /\ ast' = Append(ast, node) /\ positions' = Append(positions, 0)
        /\ owned' = owned \cup {Len(ast) + 1} /\ left' = Len(ast) + 1
    BY <1>6 DEF Make, Return
  <2>2. {} \in SUBSET Chars /\ NULL_NODE \in Nat /\ "EMPTY" \in LeafType
    BY DEF NULL_NODE, LeafType
  <2>3. node \in AstNode /\ Children(node) = {}
    BY ONLY <2>2, MadeNodes
  <2> HIDE DEF node
  <2>4. /\ OwnedOK(ast, owned, {}) /\ ast \in Seq(AstNode)
        /\ positions \in [DOMAIN ast -> 0 .. T]
    BY <1>3, <1>4 DEF ResultOK
  <2>5. Children(node) \subseteq {} /\ NULL_NODE \notin {} /\ 0 \in 0 .. T
    BY <2>3
  <2>6. /\ ast' \in Seq(AstNode) /\ positions' \in [DOMAIN ast' -> 0 .. T]
        /\ Len(ast') = Len(ast) + 1
        /\ OwnedOK(ast', owned', ({} \ Children(node)) \cup {Len(ast) + 1})
    BY ONLY <1>3, <2>1, <2>3, <2>4, <2>5, ResultMade
  <2>7. left' = 1 /\ left' \in 0 .. Len(ast') /\ OnItsWay(mode', left') = left'
    BY <1>1, <1>4, <2>1, <2>6 DEF OnItsWay
  <2>8. OwnedOK(ast', owned', ({} \ {OnItsWay(mode, left)})
                                \cup ({left'} \ {NULL_NODE}))
    <3>1. ({} \ {OnItsWay(mode, left)}) \cup ({left'} \ {NULL_NODE})
             = ({} \ Children(node)) \cup {Len(ast) + 1}
      BY <1>4, <2>1, <2>7 DEF NULL_NODE
    <3> QED
      BY <2>6, <3>1
  <2>9. frames \in Seq(Frame) /\ frames' = frames /\ left' \notin {}
    BY <1>1, <1>2, NoElements
  <2>10. ResultOK(mode', left', frames', ast', positions', owned')
    BY ONLY <1>3, <1>4, <2>6, <2>7, <2>8, <2>9, ResultReplaced
  <2>11. MessageOK'
    BY <1>1, <1>2, <1>6, MessageSet
  <2> QED
    BY <1>1, <1>2, <1>5, <2>10, <2>11, TreeKept
<1>7. CASE LowerFails(0, "failed to allocate empty AST node")
         /\ UNCHANGED owned
  <2>1. /\ left' = NULL_NODE /\ ast' = ast /\ positions' = positions
        /\ owned' = owned /\ position' = 0
        /\ error' = "failed to allocate empty AST node"
    BY <1>7 DEF LowerFails, Return
  <2>2. ResultOK(mode', left', frames', ast', positions', owned')
    BY <1>1, <1>2, <1>4, <2>1
  <2>3. error' \in LoweringErrors /\ position' \in 0 .. T
    <3>1. error' \in LoweringErrors
      BY <2>1 DEF LoweringErrors
    <3>2. position' \in 0 .. T
      <4>1. 0 \in 0 .. T
        OBVIOUS
      <4> QED
        BY ONLY <2>1, <4>1
    <3> QED
      BY <3>1, <3>2
  <2>4. MessageOK'
    BY <1>1, <1>2, <1>3, <2>3, MessageSet
  <2> QED
    BY <1>1, <1>2, <1>5, <2>2, <2>4, TreeKept
<1> QED
  BY <1>6, <1>7 DEF LowerEmpty

\* While the parser runs nothing is allocated for the result.
LEMMA ParseInvariant ==
    ASSUME LoweringIInv, Parse \/ ParseFailed PROVE LoweringIInv'
<1>1. /\ mode = "idle" /\ [ParserNext]_vars
      /\ mode' = mode /\ target' = target /\ left' = left /\ frames' = frames
      /\ ast' = ast /\ positions' = positions /\ owned' = owned
  BY DEF Parse, ParseFailed, lowering, nodes
<1>2. IInv'
  BY <1>1, StepInvariant DEF LoweringIInv
<1>3. parsed' \in BOOLEAN /\ (parsed' => pc' = "done" /\ error' # NoError)
  <2>1. CASE Parse
    BY <2>1 DEF Parse, LoweringIInv
  <2>2. CASE ParseFailed
    BY <2>2 DEF ParseFailed, vars, fault
  <2> QED
    BY <2>1, <2>2
<1> QED
  BY <1>1, <1>2, <1>3 DEF LoweringIInv

\* parser_parse frees the parse tree and keeps the result.
LEMMA ParseReturnsInvariant ==
    ASSUME LoweringIInv, ParseReturns PROVE LoweringIInv'
<1>1. /\ mode = "return" /\ frames = <<>> /\ mode' = "over"
      /\ parsed' = TRUE /\ live' = live \ Reached
      /\ tokens' = tokens /\ pc' = pc /\ read' = read /\ tree' = tree
      /\ stack' = stack /\ capacity' = capacity
      /\ error' = error /\ position' = position
      /\ target' = target /\ left' = left /\ frames' = frames
      /\ ast' = ast /\ positions' = positions /\ owned' = owned
  BY DEF ParseReturns, items, fault, nodes
<1>2. /\ StateOK /\ Parsed /\ MessageOK /\ live = DOMAIN tree
      /\ CallsOK(mode, target, left, frames)
      /\ ResultOK(mode, left, frames, ast, positions, owned)
      /\ TreeOK(tree)
  BY <1>1, AtWork
<1>3. live' = {}
  BY <1>1, <1>2, AllAreReached
<1>4. StateOK'
  BY <1>1, <1>2, <1>3 DEF StateOK
<1>5. Parsed'
  <2>1. TokensOK(tree)'
    BY <1>1, <1>2 DEF Parsed, TokensOK
  <2> QED
    BY ONLY <2>1, <1>1, <1>2 DEF Parsed
<1>6. MessageOK'
  BY <1>1, <1>2 DEF MessageOK
<1>7. CallsOK(mode, target, left, frames)'
  <2>1. DOMAIN frames = {} /\ frames \in Seq(Frame)
    BY <1>1, NoElements
  <2>2. target \in 0 .. Len(tree)
    BY <1>2 DEF CallsOK
  <2> QED
    BY <1>1, <2>1, <2>2 DEF CallsOK
<1>8. ResultOK(mode, left, frames, ast, positions, owned)'
  BY <1>1, <1>2 DEF ResultOK, OnItsWay
<1> QED
  BY <1>1, <1>3, <1>4, <1>5, <1>6, <1>7, <1>8 DEF LoweringIInv

\* Every step of parser and lowering keeps the invariant.
LEMMA LoweringStepInvariant ==
    ASSUME LoweringIInv, [LoweringNext]_all PROVE LoweringIInv'
<1>1. CASE LoweringNext
  BY <1>1, ParseInvariant, LowerEmptyInvariant, LowerRootInvariant,
     ParseReturnsInvariant, CallListInvariant, CallRepetitionInvariant,
     CallGroupInvariant, LowerLeafInvariant, TailEndsInvariant,
     TailGoesOnInvariant, ReturnNullInvariant, ReturnLastInvariant,
     ReturnFirstInvariant, ReturnNextInvariant, ReturnAtomInvariant
     DEF LoweringNext
<1>2. CASE UNCHANGED all
  <2>1. /\ UNCHANGED vars
        /\ tokens' = tokens /\ pc' = pc /\ read' = read /\ tree' = tree
        /\ live' = live /\ stack' = stack /\ capacity' = capacity
        /\ error' = error /\ position' = position /\ parsed' = parsed
        /\ mode' = mode /\ target' = target /\ left' = left
        /\ frames' = frames /\ ast' = ast /\ positions' = positions
        /\ owned' = owned
    BY <1>2 DEF all, vars, memory, items, fault, lowering, nodes
  <2>2. CASE mode = "idle"
    <3>1. IInv'
      BY <2>1, <2>2, StepInvariant DEF LoweringIInv
    <3> QED
      BY <2>1, <2>2, <3>1 DEF LoweringIInv
  <2>3. CASE mode # "idle"
    <3>1. /\ StateOK /\ MessageOK /\ Parsed
          /\ CallsOK(mode, target, left, frames)
          /\ ResultOK(mode, left, frames, ast, positions, owned)
      BY <2>3 DEF LoweringIInv
    <3>2. StateOK' /\ MessageOK'
      BY <2>1, <3>1 DEF StateOK, MessageOK
    <3>3. Parsed'
      <4>1. TokensOK(tree)'
        BY <2>1, <3>1 DEF Parsed, TokensOK
      <4> QED
        BY ONLY <4>1, <2>1, <3>1 DEF Parsed
    <3>4. CallsOK(mode, target, left, frames)'
      <4>1. Heights' = Heights
        BY <2>1 DEF Heights
      <4>2. \A f : WaitsOK(f)' <=> WaitsOK(f)
        BY <2>1 DEF WaitsOK
      <4> QED
        BY <4>1, <4>2, <2>1, <3>1 DEF CallsOK
    <3>5. ResultOK(mode, left, frames, ast, positions, owned)'
      BY <2>1, <3>1 DEF ResultOK
    <3> QED
      BY <2>1, <2>3, <3>2, <3>3, <3>4, <3>5 DEF LoweringIInv
  <2> QED
    BY <2>2, <2>3
<1> QED
  BY <1>1, <1>2

\* The inductive invariant holds whichever allocation fails.
THEOREM LoweringInvariant == LoweringSpec => []LoweringIInv
<1>1. LoweringInit => LoweringIInv
  BY LoweringInitInvariant
<1>2. LoweringIInv /\ [LoweringNext]_all => LoweringIInv'
  BY LoweringStepInvariant
<1> QED
  BY <1>1, <1>2, PTL DEF LoweringSpec

\* The invariant has the type of the state.
LEMMA LoweringTypes ==
    ASSUME LoweringIInv PROVE LoweringTypeOK
<1>1. CASE mode = "idle"
  <2>1. /\ TypeOK /\ target = NULL_NODE /\ left = NULL_NODE
        /\ frames = <<>> /\ ast = <<>> /\ positions = <<>> /\ owned = {}
        /\ parsed \in BOOLEAN
    BY <1>1 DEF LoweringIInv, IInv
  <2>2. StateOK /\ error \in {NoError} \cup ParserErrors
    BY <2>1 DEF TypeOK
  <2>3. ResultOK("idle", NULL_NODE, <<>>, ast, positions, owned)
    BY <2>1, NothingHeld
  <2>4. frames \in Seq(Frame)
    BY <2>1, NoElements
  <2>5. target \in 0 .. Len(tree)
    <3>1. Len(tree) \in Nat
      BY <2>2 DEF StateOK
    <3> QED
      BY <2>1, <3>1 DEF NULL_NODE
  <2> QED
    BY <1>1, <2>1, <2>2, <2>3, <2>4, <2>5 DEF LoweringTypeOK, ResultOK
<1>2. CASE mode # "idle"
  <2>1. /\ StateOK /\ MessageOK
        /\ CallsOK(mode, target, left, frames)
        /\ ResultOK(mode, left, frames, ast, positions, owned)
        /\ mode \in {"idle", "call", "tail", "return", "over"}
        /\ parsed \in BOOLEAN
    BY <1>2 DEF LoweringIInv
  <2>2. /\ mode = "call" => tree[target].production \in Callable
        /\ mode = "tail" =>
              tree[target].production \in ListTails \cup EmptyTails
        /\ target \in 0 .. Len(tree) /\ frames \in Seq(Frame)
    BY <2>1 DEF CallsOK
  <2>3. /\ ast \in Seq(AstNode)
        /\ positions \in [DOMAIN ast -> 0 .. Len(tokens)]
        /\ left \in 0 .. Len(ast) /\ owned \subseteq DOMAIN ast
    BY <2>1 DEF ResultOK, OwnedOK
  <2> QED
    BY ONLY <2>1, <2>2, <2>3 DEF LoweringTypeOK, MessageOK, ParseNode,
            Callable, ListProductions, ListTails, EmptyTails
<1> QED
  BY <1>1, <1>2

(* The state has its type, and each of the lower_ functions is called with *)
(* a node of a production it is for: the branches "invalid ... parse       *)
(* tree" are not reached, however the parse tree came about.               *)
THEOREM LoweringTypeCorrect == LoweringSpec => []LoweringTypeOK
<1>1. LoweringIInv => LoweringTypeOK
  BY LoweringTypes
<1> QED
  BY <1>1, LoweringInvariant, PTL

\* A node that is allocated is in one place.
LEMMA OnePlace ==
    ASSUME NEW m, NEW l, NEW frs, ResultOK(m, l, frs, ast, positions, owned),
           NEW h, h = Holding(OnItsWay(m, l), frs), NEW n \in owned
    PROVE  Cardinality({p \in owned : n \in Children(ast[p])})
             + Cardinality({i \in DOMAIN h : h[i] = n}) = 1
<1> DEFINE parents == {p \in owned : n \in Children(ast[p])}
           holders == {i \in DOMAIN h : h[i] = n}
<1>1. /\ \A p \in owned, q \in owned : \A c \in Children(ast[p]) :
            c \in Children(ast[q]) => p = q
      /\ n \in HeldBy(h) <=> \A p \in owned : n \notin Children(ast[p])
      /\ owned \subseteq DOMAIN ast /\ ast \in Seq(AstNode)
  BY DEF ResultOK, OwnedOK
<1>2. \A i \in DOMAIN h, j \in DOMAIN h :
         h[i] = h[j] => h[i] = NULL_NODE \/ i = j
  BY DEF ResultOK, HeldOnce
<1>3. n # NULL_NODE
  BY <1>1 DEF NULL_NODE
<1>4. Cardinality({}) = 0 /\ \A x : Cardinality({x}) = 1
  BY FS_EmptySet, FS_Singleton
<1>5. CASE n \in HeldBy(h)
  <2>1. parents = {}
    BY <1>1, <1>5
  <2>2. PICK i \in DOMAIN h : h[i] = n
    BY <1>5 DEF HeldBy
  <2>3. holders = {i}
    BY <1>2, <1>3, <2>2
  <2> HIDE DEF parents, holders
  <2>4. Cardinality(parents) = 0 /\ Cardinality(holders) = 1
    BY ONLY <1>4, <2>1, <2>3
  <2> QED
    BY <2>4 DEF parents, holders
<1>6. CASE n \notin HeldBy(h)
  <2>1. PICK p \in owned : n \in Children(ast[p])
    BY <1>1, <1>6
  <2>2. parents = {p}
    BY <1>1, <2>1
  <2>3. holders = {}
    BY <1>3, <1>6 DEF HeldBy
  <2> HIDE DEF parents, holders
  <2>4. Cardinality(parents) = 1 /\ Cardinality(holders) = 0
    BY ONLY <1>4, <2>2, <2>3
  <2> QED
    BY <2>4 DEF parents, holders
<1> QED
  BY <1>5, <1>6

\* The invariant has every node of the result owned once.
LEMMA AstOwned ==
    ASSUME LoweringIInv PROVE AstOwnedOnce
<1> DEFINE h == Holding(OnItsWay(mode, left), frames)
<1>1. Holders = h
  BY DEF Holders, Holding, OnItsWay
<1>2. ResultOK(mode, left, frames, ast, positions, owned)
  <2>1. CASE mode = "idle"
    <3>1. /\ left = NULL_NODE /\ frames = <<>>
          /\ ast = <<>> /\ positions = <<>> /\ owned = {}
      BY <2>1 DEF LoweringIInv
    <3> QED
      BY <2>1, <3>1, NothingHeld
  <2>2. CASE mode # "idle"
    BY <2>2 DEF LoweringIInv
  <2> QED
    BY <2>1, <2>2
<1>3. \A n \in owned : Children(ast[n]) \subseteq owned
  BY <1>2 DEF ResultOK, OwnedOK
<1>4. \A i \in DOMAIN h : h[i] \in owned \cup {NULL_NODE}
  <2>1. HeldBy(h) \subseteq owned
    BY <1>2, ResultFacts
  <2> HIDE DEF h
  <2> QED
    BY <2>1 DEF HeldBy
<1>5. parsed => live = {}
  <2>1. CASE mode = "idle"
    BY <2>1 DEF LoweringIInv, IInv, PhaseOK
  <2>2. CASE mode # "idle"
    BY <2>2 DEF LoweringIInv
  <2> QED
    BY <2>1, <2>2
<1>6. \A n \in owned :
         Cardinality({p \in owned : n \in Children(ast[p])})
           + Cardinality({i \in DOMAIN h : h[i] = n}) = 1
  BY <1>2, OnePlace
<1>7. LoweringTypeOK
  BY LoweringTypes
<1> HIDE DEF h
<1> QED
  BY ONLY <1>1, <1>3, <1>4, <1>5, <1>6, <1>7 DEF AstOwnedOnce

(* Whichever allocation fails: every node of the result is the child of    *)
(* one node or is held by one of the calls under way, so that none is lost *)
(* or released twice; and when parser_parse returns the parse tree is gone.*)
THEOREM AstIsOwnedOnce == LoweringSpec => []AstOwnedOnce
<1>1. LoweringIInv => AstOwnedOnce
  BY AstOwned
<1> QED
  BY <1>1, LoweringInvariant, PTL

\* The invariant bounds the recursion.
LEMMA CallsBounded ==
    ASSUME LoweringIInv PROVE NoDeeperThanParseTree
<1> SUFFICES ASSUME mode # "idle" PROVE Len(frames) < Heights[ROOT]
  BY DEF NoDeeperThanParseTree, HeightOf, Heights
<1>1. /\ CallsOK(mode, target, left, frames) /\ TreeOK(tree)
      /\ ExpandedOK(tree)
  BY DEF LoweringIInv, Parsed
<1>2. PICK K \in Nat : K = Len(frames) /\ DOMAIN frames = 1 .. K
  BY <1>1 DEF CallsOK
<1>3. \A n \in DOMAIN tree : Heights[n] \in Nat \ {0}
  BY <1>1, HeightsFall
<1>4. ROOT \in DOMAIN tree
  BY <1>1, TreeDomain DEF ROOT
<1>5. CASE K = 0
  BY <1>2, <1>3, <1>4, <1>5
<1>6. CASE K # 0
  <2>1. K \in DOMAIN frames
    BY <1>2, <1>6
  <2>2. /\ frames[K].node \in DOMAIN tree
        /\ Heights[frames[K].node] + K <= Heights[ROOT]
    BY <1>1, <2>1 DEF CallsOK, WaitsOK
  <2>3. Heights[frames[K].node] \in Nat \ {0} /\ Heights[ROOT] \in Nat
    BY <1>3, <1>4, <2>2
  <2>4. K < Heights[ROOT]
    BY ONLY <2>2, <2>3, K \in Nat
  <2> QED
    BY <1>2, <2>4
<1> QED
  BY <1>5, <1>6

(* The lower_ functions call each other no deeper than the parse tree is   *)
(* high, at any time: the stack they take is bounded.                      *)
THEOREM CallsAreBounded == LoweringSpec => []NoDeeperThanParseTree
<1>1. LoweringIInv => NoDeeperThanParseTree
  BY CallsBounded
<1> QED
  BY <1>1, LoweringInvariant, PTL
-----------------------------------------------------------------------------
(* What parser_parse returns.                                              *)

\* The node made last is what is on its way, and nothing has been released
\* unless a call has failed.
WholeOK ==
    /\ mode \in {"tail", "return", "over"} => left \in {NULL_NODE, Len(ast)}
    /\ mode \in {"call", "tail"} => owned = DOMAIN ast
    /\ mode \in {"return", "over"} /\ left # NULL_NODE => owned = DOMAIN ast

\* A constructor keeps the tree whole.
LEMMA MakeWhole ==
    ASSUME ast \in Seq(AstNode), owned = DOMAIN ast,
           NEW type, NEW chars, NEW l, NEW r, NEW token,
           Make(type, chars, l, r, token)
    PROVE  Len(ast') = Len(ast) + 1 /\ owned' = DOMAIN ast'
<1> DEFINE node == [type |-> type, chars |-> chars, left |-> l,
                    right |-> r, minimum |-> 0, maximum |-> 0]
<1>1. ast' = Append(ast, node) /\ owned' = owned \cup {Len(ast) + 1}
  BY DEF Make
<1>2. PICK N \in Nat : N = Len(ast) /\ DOMAIN ast = 1 .. N
  OBVIOUS
<1> HIDE DEF node
<1>3. Len(ast') = N + 1 /\ DOMAIN ast' = 1 .. N + 1
  BY <1>1, <1>2
<1>4. 1 .. N + 1 = 1 .. N \cup {N + 1}
  BY ONLY N \in Nat
<1> QED
  BY <1>1, <1>2, <1>3, <1>4

\* A step that leaves the nodes alone and what is on its way.
LEMMA StaysWhole ==
    ASSUME WholeOK, UNCHANGED <<ast, owned>>,
           \/ mode \in {"return", "tail"} /\ left # NULL_NODE /\ left' = left
           \/ mode' = "call" /\ mode \in {"call", "tail"}
           \/ mode' = "return" /\ left' = NULL_NODE
           \/ mode' = "idle",
           mode' \in {"idle", "call", "tail", "return"}
    PROVE  WholeOK'
BY DEF WholeOK

\* Every step keeps the tree whole.
LEMMA StepWhole ==
    ASSUME LoweringIInv, WholeOK, [LoweringNext]_all
    PROVE  WholeOK'
<1>1. ast \in Seq(AstNode)
  BY LoweringTypes DEF LoweringTypeOK
<1>2. mode = "idle" => ast = <<>> /\ owned = {} /\ owned = DOMAIN ast
  BY DEF LoweringIInv
<1>3. CASE Parse \/ ParseFailed
  BY <1>3 DEF Parse, ParseFailed, lowering, nodes, WholeOK
<1>4. CASE LowerEmpty
  <2>1. CASE /\ Make("EMPTY", {}, NULL_NODE, NULL_NODE, 0)
             /\ Return(Len(ast) + 1)
    <3>1. Len(ast') = Len(ast) + 1 /\ owned' = DOMAIN ast'
      BY <1>1, <1>2, <1>4, <2>1, MakeWhole DEF LowerEmpty
    <3> QED
      BY <2>1, <3>1 DEF Return, WholeOK
  <2>2. CASE LowerFails(0, "failed to allocate empty AST node")
    BY <2>2 DEF LowerFails, Return, WholeOK
  <2> QED
    BY <1>4, <2>1, <2>2 DEF LowerEmpty
<1>5. CASE LowerRoot
  BY <1>2, <1>5 DEF LowerRoot, nodes, WholeOK
<1>6. CASE ParseReturns
  BY <1>6 DEF ParseReturns, nodes, WholeOK
<1>7. CASE CallList \/ CallRepetition \/ CallGroup \/ TailGoesOn
  <2>1. mode \in {"call", "tail"} /\ mode' = "call" /\ UNCHANGED nodes
    BY <1>7 DEF CallList, CallRepetition, CallGroup, TailGoesOn, IsCall, Call
  <2> QED
    BY <2>1, StaysWhole DEF nodes
<1>8. CASE LowerLeaf
  <2> DEFINE token == tree[Child(1)].token
             type == AtomType(ParseNode.production)
  <2>1. mode = "call" /\ owned = DOMAIN ast
    BY <1>8 DEF LowerLeaf, IsCall, WholeOK
  <2>2. CASE /\ Make(type, tokens[token].chars, NULL_NODE, NULL_NODE, token)
             /\ Return(Len(ast) + 1)
    <3>1. Len(ast') = Len(ast) + 1 /\ owned' = DOMAIN ast'
      BY <1>1, <2>1, <2>2, MakeWhole
    <3> QED
      BY <2>2, <3>1 DEF Return, WholeOK
  <2>3. CASE LowerFails(token, "failed to allocate atom AST node")
    BY <2>3 DEF LowerFails, Return, WholeOK
  <2> QED
    BY <1>8, <2>2, <2>3 DEF LowerLeaf
<1>9. CASE TailEnds
  <2>1. mode = "tail" /\ mode' = "return" /\ left' = left /\ UNCHANGED nodes
    BY <1>9 DEF TailEnds
  <2> QED
    BY <2>1 DEF nodes, WholeOK
<1>10. CASE ReturnNull
  BY <1>10 DEF ReturnNull, WholeOK
<1>11. CASE ReturnLast \/ ReturnFirst
  <2>1. /\ mode = "return" /\ left # NULL_NODE /\ left' = left
        /\ mode' \in {"return", "tail"} /\ UNCHANGED nodes
    BY <1>11 DEF ReturnLast, ReturnFirst, IsReturn, GoOnWithTail
  <2> QED
    BY <2>1, StaysWhole DEF nodes
<1>12. CASE ReturnNext
  <2>1. mode = "return" /\ left # NULL_NODE /\ owned = DOMAIN ast
    BY <1>12 DEF ReturnNext, IsReturn, WholeOK
  <2>2. CASE Combine /\ left' = Len(ast) + 1 /\ GoOnWithTail(Caller.node)
    <3>1. Len(ast') = Len(ast) + 1 /\ owned' = DOMAIN ast'
      BY <1>1, <2>1, <2>2, MakeWhole DEF Combine
    <3> QED
      BY <2>2, <3>1 DEF GoOnWithTail, WholeOK
  <2>3. CASE LowerFails(OperatorToken, "failed to allocate binary AST node")
    BY <2>3 DEF LowerFails, Return, WholeOK
  <2> QED
    BY <1>12, <2>2, <2>3 DEF ReturnNext
<1>13. CASE ReturnAtom
  <2> DEFINE type == UnaryTypeOf(Quantifier.production)
             operator == tree[Quantifier.children[1]].token
  <2>1. mode = "return" /\ left # NULL_NODE /\ owned = DOMAIN ast
    BY <1>13 DEF ReturnAtom, IsReturn, WholeOK
  <2>2. CASE UNCHANGED <<fault, mode, left, nodes>>
    BY <2>1, <2>2, StaysWhole DEF nodes
  <2>3. CASE /\ Make(type, {}, left, NULL_NODE, operator)
             /\ Return(Len(ast) + 1)
    <3>1. Len(ast') = Len(ast) + 1 /\ owned' = DOMAIN ast'
      BY <1>1, <2>1, <2>3, MakeWhole
    <3> QED
      BY <2>3, <3>1 DEF Return, WholeOK
  <2>4. CASE LowerFails(operator, "failed to allocate quantifier AST node")
    BY <2>4 DEF LowerFails, Return, WholeOK
  <2> QED
    BY <1>13, <2>2, <2>3, <2>4 DEF ReturnAtom
<1>14. CASE UNCHANGED all
  BY <1>14 DEF all, lowering, nodes, WholeOK
<1> QED
  BY <1>3, <1>4, <1>5, <1>6, <1>7, <1>8, <1>9, <1>10, <1>11, <1>12, <1>13,
     <1>14 DEF LoweringNext

\* A whole tree is one that the compiler accepts.
LEMMA WholeIsAst ==
    ASSUME LoweringIInv, WholeOK PROVE ReturnsAst
<1> SUFFICES ASSUME parsed, left # NULL_NODE
             PROVE  IsAst(ast) /\ left = Len(ast)
  BY DEF ReturnsAst
<1>1. mode = "over"
  BY DEF LoweringIInv
<1>2. owned = DOMAIN ast /\ left = Len(ast)
  BY <1>1 DEF WholeOK
<1>3. /\ ast \in Seq(AstNode)
      /\ \A n \in owned : Children(ast[n]) \subseteq owned \cap 1 .. n - 1
  BY <1>1 DEF LoweringIInv, ResultOK, OwnedOK
<1> QED
  BY <1>2, <1>3 DEF IsAst

(* What parser_parse returns without an error is a whole tree, children    *)
(* before parents and the root last, with nothing else beside it: what     *)
(* CompilerAssumption wants of the trees that compiler_compile is given.   *)
THEOREM ResultIsAst == LoweringSpec => []ReturnsAst
<1>1. LoweringInit => WholeOK
  BY DEF LoweringInit, WholeOK
<1>2. LoweringIInv /\ WholeOK /\ [LoweringNext]_all => WholeOK'
  BY StepWhole
<1>3. LoweringIInv /\ WholeOK => ReturnsAst
  BY WholeIsAst
<1> QED
  BY <1>1, <1>2, <1>3, LoweringInvariant, PTL DEF LoweringSpec
-----------------------------------------------------------------------------
(* parser_parse promises the same.                                         *)

\* The two instances of the reference are one.
LEMMA SameSyntax ==
    ASSUME NEW w
    PROVE  /\ Abs!IsPattern(w) <=> AbsParse!IsPattern(w)
           /\ Abs!FirstWrong(w) = AbsParse!FirstWrong(w)
           /\ Abs!Complaint(w) = AbsParse!Complaint(w)
<1>1. \A S : Abs!Cardinality(S) = AbsParse!Cardinality(S)
  BY DEF Abs!Cardinality, AbsParse!Cardinality
<1>2. \A k : Abs!Kind(w, k) = AbsParse!Kind(w, k)
  BY DEF Abs!Kind, AbsParse!Kind
<1>3. \A k : Abs!Depth(w, k) = AbsParse!Depth(w, k)
  BY <1>1, <1>2 DEF Abs!Depth, AbsParse!Depth
<1>4. \A n, p : Abs!MayFollow(n, p) <=> AbsParse!MayFollow(n, p)
  BY DEF Abs!MayFollow, AbsParse!MayFollow, Abs!Atoms, AbsParse!Atoms,
         Abs!Repeaters, AbsParse!Repeaters, Abs!OperandEnds,
         AbsParse!OperandEnds
<1>5. \A k : Abs!IsViable(w, k) <=> AbsParse!IsViable(w, k)
  BY <1>2, <1>3, <1>4 DEF Abs!IsViable, AbsParse!IsViable
<1>6. Abs!IsPattern(w) <=> AbsParse!IsPattern(w)
  BY <1>5 DEF Abs!IsPattern, AbsParse!IsPattern
<1>7. Abs!FirstWrong(w) = AbsParse!FirstWrong(w)
  BY <1>5 DEF Abs!FirstWrong, AbsParse!FirstWrong
<1>8. Abs!Repeaters = AbsParse!Repeaters
  BY DEF Abs!Repeaters, AbsParse!Repeaters
<1>9. Abs!Complaint(w) = AbsParse!Complaint(w)
  BY <1>2, <1>7, <1>8 DEF Abs!Complaint, AbsParse!Complaint
<1> QED
  BY <1>6, <1>7, <1>9

\* What is lowered is a pattern, and there is an error or a result.
LoweredOK ==
    /\ Abs!IsPattern(tokens)
    /\ IF mode \in {"call", "tail"} \/ left # NULL_NODE
       THEN error = NoError /\ position = 0
       ELSE error \in LoweringErrors

LoweringSyntax == IF mode = "idle" THEN SyntaxIInv ELSE LoweredOK

\* The tokens of which a tree is lowered are a pattern.
LEMMA PatternGiven ==
    ASSUME LoweringIInv, LoweringSyntax,
           mode = "idle", pc = "done", error = NoError
    PROVE  Abs!IsPattern(tokens) /\ position = 0
<1>1. AnswerOK
  BY AnswerIsRight DEF LoweringIInv, LoweringSyntax
<1> QED
  BY <1>1 DEF AnswerOK

\* No step of the lowering loses a message, sets a second one or forgets one.
LEMMA LoweringSyntaxStep ==
    ASSUME LoweringIInv, LoweringSyntax, [LoweringNext]_all, LoweringIInv'
    PROVE  LoweringSyntax'
<1>1. CASE Parse \/ ParseFailed \/ UNCHANGED all
  <2>1. mode' = mode /\ left' = left
    BY <1>1 DEF Parse, ParseFailed, all, lowering
  <2>2. CASE mode = "idle"
    <3>1. IInv /\ IInv' /\ SyntaxIInv
      BY <2>1, <2>2 DEF LoweringIInv, LoweringSyntax
    <3>2. [ParserNext]_vars
      BY <1>1 DEF Parse, ParseFailed, all
    <3> QED
      BY <2>1, <2>2, <3>1, <3>2, SyntaxStep DEF LoweringSyntax
  <2>3. CASE mode # "idle"
    <3>1. UNCHANGED all
      BY <2>3, <1>1 DEF Parse, ParseFailed
    <3> QED
      BY <2>1, <2>3, <3>1
         DEF LoweringSyntax, LoweredOK, all, vars, fault
  <2> QED
    BY <2>2, <2>3
<1>2. CASE LowerEmpty
  <2>1. Abs!IsPattern(tokens) /\ position = 0 /\ error = NoError
    BY <1>2, PatternGiven DEF LowerEmpty
  <2>2. tokens' = tokens /\ mode' = "return"
    BY <1>2 DEF LowerEmpty, Return, LowerFails
  <2>3. \/ left' = Len(ast) + 1 /\ error' = error /\ position' = position
        \/ left' = NULL_NODE /\ error' \in LoweringErrors
    BY <1>2 DEF LowerEmpty, Return, LowerFails, LoweringErrors, fault
  <2>4. Len(ast) + 1 # NULL_NODE
    <3>1. Len(ast) = 0
      BY <1>2, NoElements DEF LowerEmpty, LoweringIInv
    <3> QED
      BY ONLY <3>1 DEF NULL_NODE
  <2> QED
    BY <2>1, <2>2, <2>3, <2>4 DEF LoweringSyntax, LoweredOK
<1>3. CASE LowerRoot
  <2>1. Abs!IsPattern(tokens) /\ position = 0 /\ error = NoError
    BY <1>3, PatternGiven DEF LowerRoot
  <2> QED
    BY <1>3, <2>1 DEF LowerRoot, LoweringSyntax, LoweredOK, vars, fault
<1>4. CASE ~(Parse \/ ParseFailed \/ LowerEmpty \/ LowerRoot) /\ LoweringNext
  <2>1. /\ mode \in {"call", "tail", "return"} /\ tokens' = tokens
        /\ mode' # "idle"
    BY <1>4 DEF LoweringNext, ParseReturns, CallList, CallRepetition,
       CallGroup, LowerLeaf, TailEnds, TailGoesOn, ReturnNull, ReturnLast,
       ReturnFirst, ReturnNext, ReturnAtom, IsCall, IsReturn, Call, Return,
       LowerFails, GoOnWithTail, still
  <2>2. LoweredOK /\ (mode = "tail" => left # NULL_NODE)
    BY <2>1 DEF LoweringSyntax, LoweringIInv, CallsOK
  <2>3. Len(ast) + 1 # NULL_NODE
    <3>1. ast \in Seq(AstNode)
      BY <2>1 DEF LoweringIInv, ResultOK
    <3>2. PICK T \in Nat : T = Len(ast)
      BY <3>1
    <3> QED
      BY ONLY <3>2 DEF NULL_NODE
  <2> DEFINE same == error' = error /\ position' = position
             called == mode \in {"call", "tail"} \/ left # NULL_NODE
  <2>4. \/ /\ same /\ left' = left
           /\ mode = "return" /\ mode' \notin {"call", "tail"}
        \/ same /\ (left' # NULL_NODE \/ mode' = "call") /\ called
        \/ /\ left' = NULL_NODE /\ error' \in LoweringErrors
           /\ mode' = "return"
    <3>1. CASE ParseReturns
      BY <3>1 DEF ParseReturns, nodes, fault
    <3>2. CASE CallList \/ CallRepetition \/ CallGroup
      BY <3>2 DEF CallList, CallRepetition, CallGroup, Call, IsCall, fault
    <3>3. CASE LowerLeaf
      BY <3>3, <2>3
         DEF LowerLeaf, IsCall, Return, LowerFails, fault, LoweringErrors
    <3>4. CASE TailEnds
      BY <3>4, <2>2 DEF TailEnds, fault
    <3>5. CASE TailGoesOn
      BY <3>5 DEF TailGoesOn, Call, fault
    <3>6. CASE ReturnNull
      BY <3>6 DEF ReturnNull, fault
    <3>7. CASE ReturnLast
      BY <3>7 DEF ReturnLast, fault, IsReturn
    <3>8. CASE ReturnFirst
      BY <3>8 DEF ReturnFirst, fault
    <3>9. CASE ReturnNext
      BY <3>9, <2>3
         DEF ReturnNext, IsReturn, Return, LowerFails, fault, LoweringErrors
    <3>10. CASE ReturnAtom
      BY <3>10, <2>3
         DEF ReturnAtom, IsReturn, Return, LowerFails, fault, LoweringErrors
    <3> QED
      BY <1>4, <3>1, <3>2, <3>3, <3>4, <3>5, <3>6, <3>7, <3>8, <3>9, <3>10
         DEF LoweringNext
  <2> QED
    BY ONLY <2>1, <2>2, <2>4 DEF LoweringSyntax, LoweredOK
<1> QED
  BY <1>1, <1>2, <1>3, <1>4

\* What parser_parse answers is what the parser does, or out of memory.
LoweringAnswerOK ==
    \/ /\ left # NULL_NODE /\ error = NoError /\ position = 0
       /\ Abs!IsPattern(tokens)
    \/ /\ left = NULL_NODE /\ error # NoError
       /\ position \in 0 .. Len(tokens)
       /\ error \in LoweringErrors \/ FaultOK

\* It is, by the invariant.
LEMMA LoweringAnswerIsRight ==
    ASSUME LoweringIInv, LoweringSyntax, parsed PROVE LoweringAnswerOK
<1>1. CASE mode = "idle"
  <2>1. AnswerOK /\ error # NoError /\ left = NULL_NODE
    BY <1>1, AnswerIsRight DEF LoweringIInv, LoweringSyntax
  <2> QED
    BY <2>1 DEF AnswerOK, LoweringAnswerOK
<1>2. CASE mode # "idle"
  <2>1. mode = "over" /\ position \in 0 .. Len(tokens) /\ LoweredOK
    BY <1>2 DEF LoweringIInv, LoweringSyntax, MessageOK
  <2> QED
    BY <2>1 DEF LoweredOK, LoweringAnswerOK, LoweringErrors, NoError
<1> QED
  BY <1>1, <1>2

\* Nothing is answered before the end, and what is answered then is promised.
LEMMA LoweringAnswerStep ==
    ASSUME LoweringIInv, [LoweringNext]_all, (parsed => LoweringAnswerOK)'
    PROVE  [AbsParse!Answer]_(AbsParse!vars)
<1> USE DEF AbsParse!vars
<1>1. CASE UNCHANGED all
  BY <1>1 DEF all, vars, fault, lowering
<1>2. CASE LoweringNext
  <2>1. ~parsed /\ tokens' = tokens /\ parsed' \in BOOLEAN
    <3>1. parsed => \/ mode = "idle" /\ pc = "done" /\ error # NoError
                    \/ mode = "over"
      BY DEF LoweringIInv
    <3>2. CASE Parse \/ ParseFailed
      BY <3>2 DEF Parse, ParseFailed, vars, ParserNext, CreateRoot, ScanFirst,
         PushRoot, MatchTerminal, RefuseTerminal, RefuseNonterminal, Expand,
         Finish, FinishFailed, LoweringIInv
    <3>3. CASE LowerEmpty \/ LowerRoot \/ ParseReturns
      BY <3>1, <3>3 DEF LowerEmpty, LowerRoot, ParseReturns, vars,
                        LoweringIInv
    <3>4. CASE CallList \/ CallRepetition \/ CallGroup \/ LowerLeaf
               \/ TailEnds \/ TailGoesOn
      BY <3>1, <3>4 DEF CallList, CallRepetition, CallGroup, LowerLeaf,
         TailEnds, TailGoesOn, IsCall, Call, still, LoweringIInv
    <3>5. CASE ReturnNull \/ ReturnLast \/ ReturnFirst \/ ReturnNext
               \/ ReturnAtom
      BY <3>1, <3>5 DEF ReturnNull, ReturnLast, ReturnFirst, ReturnNext,
         ReturnAtom, IsReturn, still, LoweringIInv
    <3> QED
      BY <1>2, <3>2, <3>3, <3>4, <3>5 DEF LoweringNext
  <2>2. CASE ~parsed'
    BY <2>1, <2>2
  <2>3. CASE parsed'
    <3>1. LoweringAnswerOK'
      BY <2>3
    <3>2. /\ AbsParse!IsPattern(tokens) <=> Abs!IsPattern(tokens)
          /\ AbsParse!FirstWrong(tokens) = Abs!FirstWrong(tokens)
          /\ AbsParse!Complaint(tokens) = Abs!Complaint(tokens)
      BY SameSyntax
    <3>3. CASE left' # NULL_NODE
      BY <2>1, <2>3, <3>1, <3>2, <3>3
         DEF LoweringAnswerOK, AbsParse!Answer, AbsParse!Accept,
             AbsParse!Pending, AbsParse!NoError, NoError
    <3>4. CASE left' = NULL_NODE
               /\ error' \in ParserMemoryErrors \cup LoweringErrors
      BY <2>1, <2>3, <3>1, <3>4
         DEF LoweringAnswerOK, AbsParse!Answer, AbsParse!RunOutOfMemory,
             AbsParse!Pending, AbsParse!NoError, NoError
    <3>5. CASE left' = NULL_NODE
               /\ error' \notin ParserMemoryErrors \cup LoweringErrors
      BY <2>1, <2>3, <3>1, <3>2, <3>5
         DEF LoweringAnswerOK, FaultOK, AbsParse!Answer, AbsParse!Refuse,
             AbsParse!Pending, AbsParse!NoError, NoError
    <3> QED
      BY <3>3, <3>4, <3>5
  <2> QED
    BY <2>2, <2>3
<1> QED
  BY <1>1, <1>2

(* parser_parse keeps the promise of parser_parse_tree: it has a result    *)
(* exactly when the tokens are a pattern, the lowering adds no other error *)
(* than out of memory, and no error is lost on the way out of its calls.   *)
THEOREM ParseRefinement == LoweringSpec => ParseImplementsParserSpec
<1>1. LoweringInit => AbsParse!Init
  BY DEF LoweringInit, Init, AbsParse!Init, AbsParse!Pending,
         AbsParse!NoError, NoError
<1>2. LoweringInit => LoweringSyntax
  BY InitIsRight DEF LoweringInit, LoweringSyntax
<1>3. LoweringIInv /\ LoweringSyntax /\ [LoweringNext]_all /\ LoweringIInv'
        => LoweringSyntax'
  BY LoweringSyntaxStep
<1>4. LoweringIInv /\ LoweringSyntax => (parsed => LoweringAnswerOK)
  BY LoweringAnswerIsRight
<1>5. LoweringIInv /\ [LoweringNext]_all /\ (parsed => LoweringAnswerOK)'
        => [AbsParse!Answer]_(AbsParse!vars)
  BY LoweringAnswerStep
<1> QED
  BY <1>1, <1>2, <1>3, <1>4, <1>5, LoweringInvariant, PTL
     DEF LoweringSpec, ParseImplementsParserSpec, AbsParse!Spec
-----------------------------------------------------------------------------
(* What a part of a pattern means, by its place.                           *)

\* The places of the parts of a pattern.
Parts(w) == (1 .. Len(w) + 1) \X (0 .. Len(w))

\* What TokenSpans gives the parts of a pattern.
TokenParts(w, t) ==
    CHOOSE spans : spans = [p \in Parts(w) |->
                               Meaning!PartSpans(spans, w, t, p[1], p[2])]

\* The meaning of a pattern is that of the part between its ends.
LEMMA TokenSpansAre ==
    ASSUME NEW w, NEW t
    PROVE  Meaning!TokenSpans(w, t) =
             IF Len(w) = 1 THEN Meaning!Identity(Len(t))
             ELSE TokenParts(w, t)[<<1, Len(w) - 1>>]
BY DEF Meaning!TokenSpans, TokenParts, Parts

\* A part is longer than the parts it is made of.
Shorter(f, g, W, i, j) ==
    \A x \in 1 .. W + 1, y \in 0 .. W :
        y - x < j - i => f[<<x, y>>] = g[<<x, y>>]

\* The first bar.
FirstBar(w, i, j) ==
    CHOOSE k \in Meaning!Bars(w, i, j) :
        \A l \in Meaning!Bars(w, i, j) : k <= l

\* There is a first bar if there is any.
LEMMA FirstBarIs ==
    ASSUME NEW w, NEW i \in Nat, NEW j \in Nat, Meaning!Bars(w, i, j) # {}
    PROVE  /\ FirstBar(w, i, j) \in Meaning!Bars(w, i, j)
           /\ FirstBar(w, i, j) \in i .. j
           /\ \A l \in Meaning!Bars(w, i, j) : FirstBar(w, i, j) <= l
<1> DEFINE bars == Meaning!Bars(w, i, j)
<1>1. bars \in SUBSET Nat /\ bars \subseteq i .. j
  BY DEF Meaning!Bars
<1>2. \E k \in bars : \A l \in bars : k <= l
  BY <1>1, LeastNatural
<1> HIDE DEF bars
<1>3. (CHOOSE k \in bars : \A l \in bars : k <= l) \in bars
      /\ \A l \in bars : (CHOOSE k \in bars : \A l2 \in bars : k <= l2) <= l
  BY <1>2
<1> QED
  BY <1>1, <1>3 DEF FirstBar, bars

\* The end of the first operand.
FirstEnd(w, i, j) == CHOOSE k \in Meaning!FirstEnds(w, i, j) : TRUE

\* There is an end of the first operand if there is any.
LEMMA FirstEndIs ==
    ASSUME NEW w, NEW i \in Nat, NEW j \in Nat,
           Meaning!FirstEnds(w, i, j) # {}
    PROVE  /\ FirstEnd(w, i, j) \in Meaning!FirstEnds(w, i, j)
           /\ FirstEnd(w, i, j) \in i .. j - 1
<1>1. FirstEnd(w, i, j) \in Meaning!FirstEnds(w, i, j)
  BY DEF FirstEnd
<1> QED
  BY <1>1 DEF Meaning!FirstEnds

\* What a part means, case by case.
PartIs(spans, f, w, t, i, j) ==
    /\ Meaning!Bars(w, i, j) # {} =>
          spans = f[<<i, FirstBar(w, i, j) - 1>>]
                    \cup f[<<FirstBar(w, i, j) + 1, j>>]
    /\ Meaning!Bars(w, i, j) = {} /\ Meaning!FirstEnds(w, i, j) # {} =>
          spans = Meaning!Then(f[<<i, FirstEnd(w, i, j)>>],
                               f[<<FirstEnd(w, i, j) + 1, j>>])
    /\ Meaning!Bars(w, i, j) = {} /\ Meaning!FirstEnds(w, i, j) = {} =>
          spans = CASE Meaning!Kind(w, j) = "STAR" ->
                         Meaning!Powers(f[<<i, j - 1>>], 0,
                                        Meaning!UNBOUNDED, Len(t))
                    [] Meaning!Kind(w, j) = "PLUS" ->
                         Meaning!Powers(f[<<i, j - 1>>], 1,
                                        Meaning!UNBOUNDED, Len(t))
                    [] Meaning!Kind(w, j) = "QUESTION" ->
                         Meaning!Powers(f[<<i, j - 1>>], 0, 1, Len(t))
                    [] Meaning!Kind(w, j) = "RPAREN" ->
                         f[<<i + 1, j - 1>>]
                    [] OTHER -> Meaning!Atom(w[i], t)

\* That is what it means.
LEMMA PartCases ==
    ASSUME NEW f, NEW w, NEW t, NEW i \in Nat, NEW j \in Nat, i <= j
    PROVE  PartIs(Meaning!PartSpans(f, w, t, i, j), f, w, t, i, j)
<1>1. ~(i > j)
  OBVIOUS
<1>2. CASE Meaning!Bars(w, i, j) # {}
  BY <1>1, <1>2 DEF Meaning!PartSpans, FirstBar, PartIs
<1>3. CASE Meaning!Bars(w, i, j) = {} /\ Meaning!FirstEnds(w, i, j) # {}
  BY <1>1, <1>3 DEF Meaning!PartSpans, FirstEnd, PartIs
<1>4. CASE Meaning!Bars(w, i, j) = {} /\ Meaning!FirstEnds(w, i, j) = {}
  BY <1>1, <1>4 DEF Meaning!PartSpans, PartIs
<1> QED
  BY <1>2, <1>3, <1>4

\* What a part means depends on shorter parts only.
LEMMA PartsAgree ==
    ASSUME NEW w, NEW t, NEW W \in Nat, NEW f, NEW g,
           NEW i \in 1 .. W + 1, NEW j \in 0 .. W, Shorter(f, g, W, i, j)
    PROVE  Meaning!PartSpans(f, w, t, i, j) = Meaning!PartSpans(g, w, t, i, j)
<1>1. CASE i > j
  BY <1>1 DEF Meaning!PartSpans
<1>2. CASE i <= j
  <2> DEFINE bar == FirstBar(w, i, j)
             end == FirstEnd(w, i, j)
  <2>0. i \in Nat /\ j \in Nat
    OBVIOUS
  <2>1. Meaning!Bars(w, i, j) # {} => bar \in i .. j
    BY <2>0, FirstBarIs
  <2>2. Meaning!FirstEnds(w, i, j) # {} => end \in i .. j - 1
    BY <2>0, FirstEndIs
  <2> HIDE DEF bar, end
  <2>3. Meaning!Bars(w, i, j) # {} =>
            /\ f[<<i, bar - 1>>] = g[<<i, bar - 1>>]
            /\ f[<<bar + 1, j>>] = g[<<bar + 1, j>>]
    <3> HAVE Meaning!Bars(w, i, j) # {}
    <3>1. bar - 1 \in 0 .. W /\ bar + 1 \in 1 .. W + 1
          /\ (bar - 1) - i < j - i /\ j - (bar + 1) < j - i
      BY <2>1
    <3> QED
      BY <3>1 DEF Shorter
  <2>4. Meaning!FirstEnds(w, i, j) # {} =>
            /\ f[<<i, end>>] = g[<<i, end>>]
            /\ f[<<end + 1, j>>] = g[<<end + 1, j>>]
    <3> HAVE Meaning!FirstEnds(w, i, j) # {}
    <3>1. end \in 0 .. W /\ end + 1 \in 1 .. W + 1
          /\ end - i < j - i /\ j - (end + 1) < j - i
      BY <2>2
    <3> QED
      BY <3>1 DEF Shorter
  <2>5. f[<<i, j - 1>>] = g[<<i, j - 1>>]
    <3>1. j - 1 \in 0 .. W /\ (j - 1) - i < j - i
      BY <1>2
    <3> QED
      BY <3>1 DEF Shorter
  <2>6. f[<<i + 1, j - 1>>] = g[<<i + 1, j - 1>>]
    <3>1. i + 1 \in 1 .. W + 1 /\ j - 1 \in 0 .. W
          /\ (j - 1) - (i + 1) < j - i
      BY <1>2
    <3> QED
      BY <3>1 DEF Shorter
  <2>7. /\ PartIs(Meaning!PartSpans(f, w, t, i, j), f, w, t, i, j)
        /\ PartIs(Meaning!PartSpans(g, w, t, i, j), g, w, t, i, j)
    BY <2>0, <1>2, PartCases
  <2> QED
    BY ONLY <2>3, <2>4, <2>5, <2>6, <2>7 DEF PartIs, bar, end
<1> QED
  BY <1>1, <1>2
\* Of the parts with fewer than n tokens behind the first.
FitsUpTo(f, n, w, t, W) ==
    \A i \in 1 .. W + 1, j \in 0 .. W :
        j - i < n => f[<<i, j>>] = Meaning!PartSpans(f, w, t, i, j)

\* f is what TokenSpans gives the parts of w.
Unfolds(f, w, t, W) ==
    \A i \in 1 .. W + 1, j \in 0 .. W :
        f[<<i, j>>] = Meaning!PartSpans(f, w, t, i, j)

\* The parts of a pattern do mean something.
LEMMA TokenPartsExist ==
    ASSUME NEW w, NEW t, NEW W \in Nat, W = Len(w)
    PROVE  Unfolds(TokenParts(w, t), w, t, W)
<1> DEFINE P == Parts(w)
           G == {n \in 0 .. W : \E f : FitsUpTo(f, n, w, t, W)}
<1>0. \A i \in 1 .. W + 1, j \in 0 .. W : 
          <<i, j>> \in P /\ <<i, j>>[1] = i /\ <<i, j>>[2] = j
  BY DEF Parts
<1>1. P = (1 .. W + 1) \X (0 .. W)
  BY DEF Parts
<1> HIDE DEF P
<1>2. 0 \in G
  <2> DEFINE f == [p \in P |-> {}]
  <2>1. ASSUME NEW i \in 1 .. W + 1, NEW j \in 0 .. W, j - i < 0
        PROVE  f[<<i, j>>] = Meaning!PartSpans(f, w, t, i, j)
    <3>1. f[<<i, j>>] = {}
      BY <1>0
    <3>2. i > j
      BY <2>1
    <3> HIDE DEF f
    <3> QED
      BY <3>1, <3>2 DEF Meaning!PartSpans
  <2> HIDE DEF f
  <2>2. FitsUpTo(f, 0, w, t, W)
    BY <2>1 DEF FitsUpTo
  <2> QED
    BY <2>2
<1>3. ASSUME NEW n \in 1 .. W, n - 1 \in G
      PROVE  n \in G
  <2>1. PICK f : FitsUpTo(f, n - 1, w, t, W)
    BY <1>3
  <2> DEFINE g == [p \in P |-> IF p[2] - p[1] < n - 1 THEN f[p]
                               ELSE Meaning!PartSpans(f, w, t, p[1], p[2])]
  <2>2. \A i \in 1 .. W + 1, j \in 0 .. W :
            g[<<i, j>>] = IF j - i < n - 1 THEN f[<<i, j>>]
                          ELSE Meaning!PartSpans(f, w, t, i, j)
    BY <1>0
  <2> HIDE DEF g
  <2>3. ASSUME NEW i \in 1 .. W + 1, NEW j \in 0 .. W, j - i < n
        PROVE  g[<<i, j>>] = Meaning!PartSpans(g, w, t, i, j)
    <3>1. Shorter(f, g, W, i, j)
      <4> SUFFICES ASSUME NEW x \in 1 .. W + 1, NEW y \in 0 .. W,
                          y - x < j - i
                   PROVE  f[<<x, y>>] = g[<<x, y>>]
        BY DEF Shorter
      <4>1. y - x < n - 1
        BY <2>3
      <4> QED
        BY <4>1, <2>2
    <3>2. Meaning!PartSpans(f, w, t, i, j) = Meaning!PartSpans(g, w, t, i, j)
      BY <3>1, PartsAgree
    <3>3. j - i < n - 1 => f[<<i, j>>] = Meaning!PartSpans(f, w, t, i, j)
      BY <2>1 DEF FitsUpTo
    <3> QED
      BY <2>2, <3>2, <3>3
  <2>4. FitsUpTo(g, n, w, t, W)
    BY <2>3 DEF FitsUpTo
  <2> QED
    BY <2>4
<1>4. W \in G
  <2> HIDE DEF G
  <2>1. 0 .. W \subseteq G
    BY ONLY W \in Nat, <1>2, <1>3, Upwards
  <2> QED
    BY <2>1
<1>5. PICK f : FitsUpTo(f, W, w, t, W)
  BY <1>4
<1> DEFINE g == [p \in P |-> f[p]]
<1>6. \A i \in 1 .. W + 1, j \in 0 .. W : g[<<i, j>>] = f[<<i, j>>]
  BY <1>0
<1>7. g = [p \in P |-> g[p]]
  OBVIOUS
<1>8. ASSUME NEW p \in P
      PROVE  g[p] = Meaning!PartSpans(g, w, t, p[1], p[2])
  <2>0. PICK i \in 1 .. W + 1, j \in 0 .. W : p = <<i, j>>
    BY <1>1
  <2> HIDE DEF g
  <2>1. p[1] = i /\ p[2] = j
    BY <2>0
  <2>2. f[<<i, j>>] = Meaning!PartSpans(f, w, t, i, j)
    <3>1. j - i < W
      OBVIOUS
    <3> QED
      BY <3>1, <1>5 DEF FitsUpTo
  <2>3. Shorter(f, g, W, i, j)
    BY <1>6 DEF Shorter
  <2>4. Meaning!PartSpans(f, w, t, i, j) = Meaning!PartSpans(g, w, t, i, j)
    BY <2>3, PartsAgree
  <2> QED
    BY <2>0, <2>1, <2>2, <2>4, <1>6
<1>9. g = [p \in P |-> Meaning!PartSpans(g, w, t, p[1], p[2])]
  <2> DEFINE h == [p \in P |-> Meaning!PartSpans(g, w, t, p[1], p[2])]
  <2>1. g = [p \in P |-> g[p]] /\ h = [p \in P |-> h[p]]
    OBVIOUS
  <2>2. \A p \in P : g[p] = h[p]
    BY <1>8
  <2> HIDE DEF g, h
  <2>3. [p \in P |-> g[p]] = [p \in P |-> h[p]]
    BY <2>2
  <2>4. g = h
    BY <2>1, <2>3
  <2> QED
    BY <2>4 DEF h
<1> HIDE DEF g
<1> DEFINE h == TokenParts(w, t)
<1>10. h = [p \in P |-> Meaning!PartSpans(h, w, t, p[1], p[2])]
  BY <1>9 DEF TokenParts, P
<1> HIDE DEF h
<1>11. ASSUME NEW i \in 1 .. W + 1, NEW j \in 0 .. W
       PROVE  h[<<i, j>>] = Meaning!PartSpans(h, w, t, i, j)
  <2>1. <<i, j>> \in P /\ <<i, j>>[1] = i /\ <<i, j>>[2] = j
    BY <1>0
  <2> QED
    BY <2>1, <1>10
<1>12. Unfolds(h, w, t, W)
  BY <1>11 DEF Unfolds
<1> QED
  BY <1>12 DEF h
-----------------------------------------------------------------------------
(* Where the symbols of the grammar can stand in a pattern.                *)

\* The kinds of the W tokens of w, and how many groups are open behind them.
TokensAre(w, W, kind, d) ==
    /\ W \in Nat /\ W = Len(w)
    /\ \A k \in 1 .. W : kind[k] = Meaning!Kind(w, k)
    /\ \A k \in 0 .. W : d[k] = Meaning!Depth(w, k) /\ d[k] \in Int
    /\ \A k \in 1 .. W : d[k] = d[k - 1] - Closes(kind[k])

\* The groups of tokens a + 1 to b are whole.
Whole(d, a, b) == /\ a <= b /\ d[b] = d[a]
                  /\ \A k \in a .. b : d[a] <= d[k]

\* The bars among tokens a + 1 to b are in groups.
NoBars(kind, d, a, b) == \A k \in a + 1 .. b : kind[k] = "PIPE" => d[a] < d[k]

\* There are tokens a + 1 to b, and the first one begins an operand.
StartsAtom(kind, a, b) == a < b /\ kind[a + 1] \in AtomStarts

\* Tokens a + 1 to b are an operand.
AtomAt(kind, d, a, b) ==
    /\ StartsAtom(kind, a, b)
    /\ d[b] = d[a]
    /\ \A k \in a + 1 .. b - 1 : d[a] < d[k]
    /\ kind[b] \notin Quantifiers \cup {"PIPE"}

\* Tokens a + 1 to b are a quantifier or none.
QuantifierAt(kind, a, b) ==
    \/ b = a
    \/ b = a + 1 /\ kind[b] \in Quantifiers

\* An operand and its quantifier.
RepetitionAt(kind, d, a, b) ==
    \E c \in a .. b : AtomAt(kind, d, a, c) /\ QuantifierAt(kind, c, b)

\* Operands one behind the other.
OperandsAt(kind, d, a, b) == Whole(d, a, b) /\ NoBars(kind, d, a, b)

\* Tokens a + 1 to b can be those of a symbol of the grammar.
Stands(symbol, kind, d, a, b) ==
    /\ symbol \in Terminals => b = a + 1 /\ kind[b] = symbol
    /\ symbol = EPSILON => b = a
    /\ symbol = "Atom" => AtomAt(kind, d, a, b)
    /\ symbol = "Quantifier" => QuantifierAt(kind, a, b)
    /\ symbol = "Repetition" => RepetitionAt(kind, d, a, b)
    /\ symbol = "ConcatenationTail" =>
           OperandsAt(kind, d, a, b) /\ (a = b \/ StartsAtom(kind, a, b))
    /\ symbol = "Concatenation" =>
           OperandsAt(kind, d, a, b) /\ StartsAtom(kind, a, b)
    /\ symbol = "AlternationTail" =>
           Whole(d, a, b) /\ (a = b \/ (a < b /\ kind[a + 1] = "PIPE"))
    /\ symbol = "Alternation" => Whole(d, a, b) /\ StartsAtom(kind, a, b)

\* What kind and d are, without the pattern they are of.
Depths(W, kind, d) ==
    /\ W \in Nat
    /\ \A k \in 0 .. W : d[k] \in Int
    /\ \A k \in 1 .. W : d[k] = d[k - 1] - Closes(kind[k])

\* Whole parts next to each other are a whole part.
LEMMA WholesJoined ==
    ASSUME NEW W, NEW kind, NEW d, Depths(W, kind, d),
           NEW a \in 0 .. W, NEW c \in 0 .. W, NEW b \in 0 .. W,
           Whole(d, a, c), Whole(d, c, b)
    PROVE  Whole(d, a, b)
BY DEF Whole, Depths

\* So are those without bars.
LEMMA OperandsJoined ==
    ASSUME NEW W, NEW kind, NEW d, Depths(W, kind, d),
           NEW a \in 0 .. W, NEW c \in 0 .. W, NEW b \in 0 .. W,
           OperandsAt(kind, d, a, c), OperandsAt(kind, d, c, b)
    PROVE  OperandsAt(kind, d, a, b)
<1>1. Whole(d, a, b)
  BY WholesJoined DEF OperandsAt
<1>2. NoBars(kind, d, a, b)
  BY DEF OperandsAt, Whole, NoBars, Depths
<1> QED
  BY <1>1, <1>2 DEF OperandsAt

\* An operand has no bars but in groups.
LEMMA AtomIsWhole ==
    ASSUME NEW W, NEW kind, NEW d, Depths(W, kind, d),
           NEW a \in 0 .. W, NEW b \in 0 .. W, AtomAt(kind, d, a, b)
    PROVE  OperandsAt(kind, d, a, b)
BY DEF AtomAt, StartsAtom, OperandsAt, Whole, NoBars, Depths

\* A token that opens and closes nothing, alone.
LEMMA TokenIsWhole ==
    ASSUME NEW W, NEW kind, NEW d, Depths(W, kind, d),
           NEW a \in 0 .. W, NEW b \in 0 .. W, b = a + 1,
           kind[b] \notin {"LPAREN", "RPAREN"}
    PROVE  Whole(d, a, b)
<1>1. d[b] = d[a] - Closes(kind[b]) /\ d[a] \in Int
  BY DEF Depths
<1>2. Closes(kind[b]) = 0
  BY DEF Closes
<1> QED
  BY <1>1, <1>2 DEF Whole

\* An operand with its quantifier has no bars but in groups.
LEMMA RepetitionIsWhole ==
    ASSUME NEW W, NEW kind, NEW d, Depths(W, kind, d),
           NEW a \in 0 .. W, NEW b \in 0 .. W, RepetitionAt(kind, d, a, b)
    PROVE  OperandsAt(kind, d, a, b) /\ StartsAtom(kind, a, b)
<1>1. PICK c \in a .. b : AtomAt(kind, d, a, c) /\ QuantifierAt(kind, c, b)
  BY DEF RepetitionAt
<1>2. c \in 0 .. W
  BY DEF Depths
<1>3. OperandsAt(kind, d, a, c) /\ StartsAtom(kind, a, c)
  BY <1>1, <1>2, AtomIsWhole DEF AtomAt
<1>4. StartsAtom(kind, a, b)
  BY <1>3 DEF StartsAtom
<1>5. CASE b = c
  BY <1>3, <1>4, <1>5
<1>6. CASE b = c + 1 /\ kind[b] \in Quantifiers
  <2>1. Whole(d, c, b)
    BY <1>2, <1>6, TokenIsWhole DEF Quantifiers
  <2>2. NoBars(kind, d, c, b)
    BY <1>6 DEF NoBars, Quantifiers
  <2> QED
    BY <1>2, <1>3, <1>4, <2>1, <2>2, OperandsJoined DEF OperandsAt
<1> QED
  BY <1>1, <1>5, <1>6 DEF QuantifierAt
\* Any operand that is one token.
LEMMA AtomOfToken ==
    ASSUME NEW W, NEW kind, NEW d, Depths(W, kind, d),
           NEW a \in 0 .. W, NEW b \in 0 .. W, b = a + 1,
           kind[b] \in AtomStarts \ {"LPAREN"}
    PROVE  AtomAt(kind, d, a, b)
<1>1. d[b] = d[a]
  BY TokenIsWhole DEF Whole, AtomStarts
<1>2. StartsAtom(kind, a, b)
  BY DEF StartsAtom
<1>3. \A k \in a + 1 .. b - 1 : d[a] < d[k]
  OBVIOUS
<1>4. kind[b] \notin Quantifiers \cup {"PIPE"}
  BY DEF AtomStarts, Quantifiers
<1> QED
  BY <1>1, <1>2, <1>3, <1>4 DEF AtomAt

\* A group is an operand.
LEMMA AtomOfGroup ==
    ASSUME NEW W, NEW kind, NEW d, Depths(W, kind, d),
           NEW a \in 0 .. W, NEW b \in 0 .. W,
           NEW x \in 0 .. W, NEW y \in 0 .. W,
           x = a + 1, kind[x] = "LPAREN", Whole(d, x, y), x < y,
           b = y + 1, kind[b] = "RPAREN"
    PROVE  AtomAt(kind, d, a, b)
<1>1. d[x] = d[a] - Closes("LPAREN") /\ d[b] = d[y] - Closes("RPAREN")
  BY DEF Depths
<1>2. Closes("LPAREN") = 0 - 1 /\ Closes("RPAREN") = 1
  BY DEF Closes
<1>3. d[a] \in Int /\ d[x] \in Int /\ d[y] \in Int
  BY DEF Depths
<1>4. d[b] = d[a]
  BY <1>1, <1>2, <1>3 DEF Whole
<1>5. ASSUME NEW k \in a + 1 .. b - 1 PROVE d[a] < d[k]
  <2>1. k \in x .. y /\ k \in 0 .. W
    BY DEF Depths
  <2>2. d[x] <= d[k] /\ d[k] \in Int
    BY <2>1 DEF Whole, Depths
  <2> QED
    BY <1>1, <1>2, <1>3, <2>2
<1>6. StartsAtom(kind, a, b)
  BY DEF StartsAtom, AtomStarts
<1>7. kind[b] \notin Quantifiers \cup {"PIPE"}
  BY DEF Quantifiers
<1> QED
  BY <1>4, <1>5, <1>6, <1>7 DEF AtomAt

\* A list of alternatives, or of the rest of them behind a bar.
LEMMA AlternativesJoined ==
    ASSUME NEW W, NEW kind, NEW d, Depths(W, kind, d),
           NEW a \in 0 .. W, NEW c \in 0 .. W, NEW b \in 0 .. W,
           Stands("Concatenation", kind, d, a, c),
           Stands("AlternationTail", kind, d, c, b)
    PROVE  Whole(d, a, b) /\ StartsAtom(kind, a, b)
<1>1. Whole(d, a, c) /\ StartsAtom(kind, a, c) /\ Whole(d, c, b)
  BY DEF Stands, OperandsAt
<1> QED
  BY <1>1, WholesJoined DEF StartsAtom, Whole

\* A list of operands.
LEMMA RepetitionsJoined ==
    ASSUME NEW W, NEW kind, NEW d, Depths(W, kind, d),
           NEW a \in 0 .. W, NEW c \in 0 .. W, NEW b \in 0 .. W,
           Stands("Repetition", kind, d, a, c),
           Stands("ConcatenationTail", kind, d, c, b)
    PROVE  OperandsAt(kind, d, a, b) /\ StartsAtom(kind, a, b)
<1>1. OperandsAt(kind, d, a, c) /\ StartsAtom(kind, a, c)
      /\ OperandsAt(kind, d, c, b)
  BY RepetitionIsWhole DEF Stands
<1> QED
  BY <1>1, OperandsJoined DEF StartsAtom, OperandsAt, Whole

\* A part without tokens.
LEMMA EmptyIsWhole ==
    ASSUME NEW W, NEW kind, NEW d, Depths(W, kind, d), NEW a \in 0 .. W
    PROVE  OperandsAt(kind, d, a, a)
BY DEF Depths, OperandsAt, Whole, NoBars

\* The symbols of the grammar stand apart.
LEMMA SymbolsApart ==
    /\ \A symbol \in Nonterminals :
          symbol \notin Terminals /\ symbol # EPSILON
    /\ EPSILON \notin Terminals
    /\ AtomStarts \subseteq Terminals /\ Quantifiers \subseteq Terminals
    /\ {"PIPE", "END", "RPAREN"} \subseteq Terminals
BY DEF Nonterminals, Terminals, EPSILON, AtomStarts, Quantifiers

\* Parts of a pattern that follow one another.
Chained(W, K, lo, hi) ==
    /\ \A i \in 1 .. K : lo[i] \in 0 .. W /\ hi[i] \in 0 .. W
    /\ \A i \in 1 .. K - 1 : lo[i + 1] = hi[i]

\* Where the symbols of a production stand, its head can stand.
LEMMA HeadStands ==
    ASSUME NEW W, NEW kind, NEW d, Depths(W, kind, d),
           NEW production \in DOMAIN Productions,
           NEW symbols, symbols = Productions[production],
           NEW K, K = Len(symbols), NEW lo, NEW hi, Chained(W, K, lo, hi),
           \A i \in 1 .. K : Stands(symbols[i], kind, d, lo[i], hi[i])
    PROVE  Stands(HeadOf[production], kind, d, lo[1], hi[K])
<1>1. CASE production = "REGEX_ALTERNATION_END"
  BY <1>1 DEF HeadOf, Stands, Terminals, AtomStarts, Quantifiers, EPSILON
<1>2. CASE production = "REGEX_END"
  BY <1>2 DEF HeadOf, Stands, Terminals, AtomStarts, Quantifiers, EPSILON
<1>3. CASE production = "ALTERNATION"
  <2>1. /\ K = 2 /\ symbols[1] = "Concatenation"
        /\ symbols[2] = "AlternationTail" /\ HeadOf[production] = "Alternation"
    BY <1>3 DEF Productions, HeadOf
  <2>2. /\ Stands("Concatenation", kind, d, lo[1], hi[1])
        /\ Stands("AlternationTail", kind, d, hi[1], hi[2])
        /\ lo[1] \in 0 .. W /\ hi[1] \in 0 .. W /\ hi[2] \in 0 .. W
    BY <2>1 DEF Chained
  <2>3. Whole(d, lo[1], hi[2]) /\ StartsAtom(kind, lo[1], hi[2])
    BY ONLY <2>2, Depths(W, kind, d), AlternativesJoined
  <2> QED
    BY <2>1, <2>3
    DEF Stands, Terminals, AtomStarts, Quantifiers, EPSILON
<1>4. CASE production = "ALTERNATION_TAIL_PIPE"
  <2>1. /\ K = 3 /\ symbols[1] = "PIPE" /\ symbols[2] = "Concatenation"
        /\ symbols[3] = "AlternationTail"
        /\ HeadOf[production] = "AlternationTail"
    BY <1>4 DEF Productions, HeadOf
  <2>2. /\ Stands("PIPE", kind, d, lo[1], hi[1])
        /\ Stands("Concatenation", kind, d, hi[1], hi[2])
        /\ Stands("AlternationTail", kind, d, hi[2], hi[3])
        /\ lo[1] \in 0 .. W /\ hi[1] \in 0 .. W /\ hi[2] \in 0 .. W
        /\ hi[3] \in 0 .. W
    BY <2>1 DEF Chained
  <2>3. hi[1] = lo[1] + 1 /\ kind[hi[1]] = "PIPE"
    BY <2>2, SymbolsApart DEF Stands
  <2>4. Whole(d, lo[1], hi[1])
    BY <2>2, <2>3, TokenIsWhole
  <2>5. Whole(d, hi[1], hi[3]) /\ StartsAtom(kind, hi[1], hi[3])
    BY ONLY <2>2, Depths(W, kind, d), AlternativesJoined
  <2>6. Whole(d, lo[1], hi[3]) /\ lo[1] < hi[3]
    BY <2>2, <2>3, <2>4, <2>5, WholesJoined DEF StartsAtom
  <2> QED
    BY <2>1, <2>3, <2>6
    DEF Stands, Terminals, AtomStarts, Quantifiers, EPSILON
<1>5. CASE production \in {"CONCATENATION", "CONCATENATION_TAIL_REPETITION"}
  <2>1. /\ K = 2 /\ symbols[1] = "Repetition"
        /\ symbols[2] = "ConcatenationTail"
        /\ HeadOf[production] \in {"Concatenation", "ConcatenationTail"}
    <3>1. CASE production = "CONCATENATION"
      BY <3>1 DEF Productions, HeadOf
    <3>2. CASE production = "CONCATENATION_TAIL_REPETITION"
      BY <3>2 DEF Productions, HeadOf
    <3> QED
      BY <1>5, <3>1, <3>2
  <2>2. /\ Stands("Repetition", kind, d, lo[1], hi[1])
        /\ Stands("ConcatenationTail", kind, d, hi[1], hi[2])
        /\ lo[1] \in 0 .. W /\ hi[1] \in 0 .. W /\ hi[2] \in 0 .. W
    BY <2>1 DEF Chained
  <2>3. OperandsAt(kind, d, lo[1], hi[2]) /\ StartsAtom(kind, lo[1], hi[2])
    BY ONLY <2>2, Depths(W, kind, d), RepetitionsJoined
  <2> QED
    BY <2>1, <2>3
    DEF Stands, Terminals, AtomStarts, Quantifiers, EPSILON
<1>6. CASE production = "REPETITION"
  <2>1. /\ K = 2 /\ symbols[1] = "Atom" /\ symbols[2] = "Quantifier"
        /\ HeadOf[production] = "Repetition"
    BY <1>6 DEF Productions, HeadOf
  <2>2. /\ AtomAt(kind, d, lo[1], hi[1]) /\ QuantifierAt(kind, hi[1], hi[2])
        /\ lo[1] \in 0 .. W /\ hi[1] \in 0 .. W /\ hi[2] \in 0 .. W
    BY <2>1 DEF Chained, Stands
  <2>3. hi[1] \in lo[1] .. hi[2]
    BY <2>2 DEF AtomAt, StartsAtom, QuantifierAt
  <2>4. RepetitionAt(kind, d, lo[1], hi[2])
    BY <2>2, <2>3 DEF RepetitionAt
  <2> QED
    BY <2>1, <2>4
    DEF Stands, Terminals, AtomStarts, Quantifiers, EPSILON
<1>7. CASE production \in {"ALTERNATION_TAIL_EMPTY",
                           "CONCATENATION_TAIL_EMPTY", "QUANTIFIER_EMPTY"}
  <2>1. /\ K = 1 /\ symbols[1] = EPSILON
        /\ HeadOf[production] \in {"AlternationTail", "ConcatenationTail",
                                   "Quantifier"}
    BY <1>7 DEF Productions, HeadOf
  <2>2. hi[1] = lo[1] /\ lo[1] \in 0 .. W
    BY <2>1 DEF Chained, Stands
  <2>3. OperandsAt(kind, d, lo[1], hi[1])
    BY <2>2, EmptyIsWhole
  <2> QED
    BY <2>1, <2>2, <2>3
    DEF Stands, Terminals, AtomStarts, Quantifiers, EPSILON, OperandsAt,
        QuantifierAt
<1>8. CASE production \in {"QUANTIFIER_STAR", "QUANTIFIER_PLUS",
                           "QUANTIFIER_QUESTION"}
  <2>1. /\ K = 1 /\ symbols[1] \in Quantifiers
        /\ HeadOf[production] = "Quantifier"
    BY <1>8 DEF Productions, HeadOf, Quantifiers
  <2>2. hi[1] = lo[1] + 1 /\ kind[hi[1]] \in Quantifiers
    BY <2>1, SymbolsApart DEF Stands
  <2> QED
    BY <2>1, <2>2
    DEF Stands, Terminals, AtomStarts, Quantifiers, EPSILON, QuantifierAt
<1>9. CASE production \in {"ATOM_LITERAL", "ATOM_DOT", "ATOM_CLASS",
                           "ATOM_CARET", "ATOM_DOLLAR"}
  <2>1. /\ K = 1 /\ symbols[1] \in AtomStarts \ {"LPAREN"}
        /\ HeadOf[production] = "Atom"
    BY <1>9 DEF Productions, HeadOf, AtomStarts
  <2>2. /\ hi[1] = lo[1] + 1 /\ kind[hi[1]] \in AtomStarts \ {"LPAREN"}
        /\ lo[1] \in 0 .. W /\ hi[1] \in 0 .. W
    BY <2>1, SymbolsApart DEF Stands, Chained
  <2>3. AtomAt(kind, d, lo[1], hi[1])
    BY <2>2, AtomOfToken
  <2> QED
    BY <2>1, <2>3 DEF Stands, Terminals, AtomStarts, Quantifiers, EPSILON
<1>10. CASE production = "ATOM_GROUP"
  <2>1. /\ K = 3 /\ symbols[1] = "LPAREN" /\ symbols[2] = "Alternation"
        /\ symbols[3] = "RPAREN" /\ HeadOf[production] = "Atom"
    BY <1>10 DEF Productions, HeadOf
  <2>2. /\ Stands("LPAREN", kind, d, lo[1], hi[1])
        /\ Stands("Alternation", kind, d, hi[1], hi[2])
        /\ Stands("RPAREN", kind, d, hi[2], hi[3])
        /\ lo[1] \in 0 .. W /\ hi[1] \in 0 .. W /\ hi[2] \in 0 .. W
        /\ hi[3] \in 0 .. W
    BY <2>1 DEF Chained
  <2>3. /\ hi[1] = lo[1] + 1 /\ kind[hi[1]] = "LPAREN"
        /\ Whole(d, hi[1], hi[2]) /\ hi[1] < hi[2]
        /\ hi[3] = hi[2] + 1 /\ kind[hi[3]] = "RPAREN"
    BY <2>2 DEF Stands, StartsAtom, Terminals, AtomStarts
  <2>4. AtomAt(kind, d, lo[1], hi[3])
    BY ONLY <2>2, <2>3, Depths(W, kind, d), AtomOfGroup
  <2> QED
    BY <2>1, <2>4 DEF Stands, Terminals, AtomStarts, Quantifiers, EPSILON
<1> QED
  BY <1>1, <1>2, <1>3, <1>4, <1>5, <1>6, <1>7, <1>8, <1>9, <1>10
  DEF Productions
-----------------------------------------------------------------------------
(* What the parts of a pattern mean, by where the symbols stand.           *)

\* The meaning of tokens a + 1 to b.
Between(f, a, b) == f[<<a + 1, b>>]

\* TokensAre, of a pattern.
LEMMA TokensHaveDepths ==
    ASSUME NEW w, NEW W, NEW kind, NEW d, TokensAre(w, W, kind, d)
    PROVE  Depths(W, kind, d)
BY DEF TokensAre, Depths

\* The bars of tokens a + 1 to b.
LEMMA BarsAre ==
    ASSUME NEW w, NEW W, NEW kind, NEW d, TokensAre(w, W, kind, d),
           NEW a \in 0 .. W, NEW b \in 0 .. W
    PROVE  Meaning!Bars(w, a + 1, b)
             = {k \in a + 1 .. b : kind[k] = "PIPE" /\ d[k] = d[a]}
<1>1. a + 1 - 1 = a
  OBVIOUS
<1>2. \A k \in a + 1 .. b : /\ kind[k] = Meaning!Kind(w, k)
                            /\ d[k] = Meaning!Depth(w, k)
                            /\ d[a] = Meaning!Depth(w, a)
  BY DEF TokensAre
<1> QED
  BY <1>1, <1>2 DEF Meaning!Bars, Meaning!IsTop

\* The ends of an operand with its quantifier.
EndsAt(kind, d, a, k) ==
    /\ d[k] = d[a]
    /\ \A l \in a + 1 .. k - 1 : d[l] = d[a] => /\ l = k - 1
                                                /\ kind[k] \in Quantifiers

\* The ends of the first operand of tokens a + 1 to b.
LEMMA FirstEndsAre ==
    ASSUME NEW w, NEW W, NEW kind, NEW d, TokensAre(w, W, kind, d),
           NEW a \in 0 .. W, NEW b \in 0 .. W
    PROVE  Meaning!FirstEnds(w, a + 1, b)
             = {k \in a + 1 .. b - 1 : /\ EndsAt(kind, d, a, k)
                                       /\ kind[k + 1] \notin Quantifiers}
<1>1. a + 1 - 1 = a /\ Meaning!Repeaters = Quantifiers
  BY DEF Meaning!Repeaters, Quantifiers
<1>2. ASSUME NEW k \in a + 1 .. b - 1
      PROVE  /\ kind[k] = Meaning!Kind(w, k)
             /\ kind[k + 1] = Meaning!Kind(w, k + 1)
             /\ Meaning!IsOperand(w, a + 1, k) <=> EndsAt(kind, d, a, k)
  <2>1. /\ kind[k] = Meaning!Kind(w, k)
        /\ kind[k + 1] = Meaning!Kind(w, k + 1)
    BY DEF TokensAre
  <2>2. /\ d[a] = Meaning!Depth(w, a) /\ d[k] = Meaning!Depth(w, k)
        /\ \A l \in a + 1 .. k - 1 : d[l] = Meaning!Depth(w, l)
    BY DEF TokensAre
  <2> QED
    BY <1>1, <2>1, <2>2 DEF Meaning!IsOperand, Meaning!IsTop, EndsAt
<1> QED
  BY <1>1, <1>2 DEF Meaning!FirstEnds

\* A part is what PartIs says.
LEMMA PartUnfolds ==
    ASSUME NEW f, NEW w, NEW t, NEW W \in Nat, Unfolds(f, w, t, W),
           NEW a \in 0 .. W, NEW b \in 0 .. W, a < b
    PROVE  PartIs(Between(f, a, b), f, w, t, a + 1, b)
<1>1. a + 1 \in 1 .. W + 1 /\ a + 1 \in Nat /\ b \in Nat /\ a + 1 <= b
  OBVIOUS
<1>2. Between(f, a, b) = Meaning!PartSpans(f, w, t, a + 1, b)
  BY <1>1 DEF Unfolds, Between
<1> QED
  BY <1>1, <1>2, PartCases

\* Alternatives: a part without bars, a bar, and the rest.
LEMMA AlternativesMean ==
    ASSUME NEW w, NEW W, NEW kind, NEW d, TokensAre(w, W, kind, d),
           NEW f, NEW t, Unfolds(f, w, t, W),
           NEW a \in 0 .. W, NEW c \in 0 .. W, NEW b \in 0 .. W,
           Stands("Concatenation", kind, d, a, c),
           Stands("AlternationTail", kind, d, c, b), c # b
    PROVE  Between(f, a, b) = Between(f, a, c) \cup Between(f, c + 1, b)
<1> DEFINE bars == Meaning!Bars(w, a + 1, b)
           first == FirstBar(w, a + 1, b)
<1>1. /\ OperandsAt(kind, d, a, c) /\ a < c
      /\ c < b /\ kind[c + 1] = "PIPE"
  BY DEF Stands, StartsAtom
<1>2. bars = {k \in a + 1 .. b : kind[k] = "PIPE" /\ d[k] = d[a]}
  BY BarsAre
<1>3. Depths(W, kind, d) /\ W \in Nat
  BY TokensHaveDepths DEF TokensAre
<1>4. d[c + 1] = d[a]
  <2>1. d[c + 1] = d[c + 1 - 1] - Closes(kind[c + 1]) /\ d[c] \in Int
    BY <1>1, <1>3 DEF Depths
  <2>2. d[c + 1] = d[c]
    BY <2>1, <1>1 DEF Closes
  <2> QED
    BY <2>2, <1>1 DEF OperandsAt, Whole
<1>5. c + 1 \in bars
  BY <1>1, <1>2, <1>4
<1>6. \A k \in bars : c + 1 <= k
  <2> SUFFICES ASSUME NEW k \in bars, k <= c PROVE FALSE
    BY <1>2
  <2>1. k \in a + 1 .. c /\ kind[k] = "PIPE" /\ d[k] = d[a]
    BY <1>2
  <2>2. d[a] < d[k] /\ d[a] \in Int
    BY <1>1, <1>3, <2>1 DEF OperandsAt, NoBars, Depths
  <2> QED
    BY <2>1, <2>2
<1>7. first = c + 1
  <2>1. a + 1 \in Nat /\ b \in Nat /\ bars # {}
    BY <1>5
  <2>2. first \in bars /\ first \in a + 1 .. b /\ \A l \in bars : first <= l
    BY <2>1, FirstBarIs
  <2> QED
    BY <1>5, <1>6, <2>2
<1>8. PartIs(Between(f, a, b), f, w, t, a + 1, b)
  BY <1>1, <1>3, PartUnfolds
<1>9. Between(f, a, b) = f[<<a + 1, c + 1 - 1>>] \cup f[<<c + 1 + 1, b>>]
  <2>1. Meaning!Bars(w, a + 1, b) # {}
    BY <1>5
  <2>2. Between(f, a, b) = f[<<a + 1, FirstBar(w, a + 1, b) - 1>>]
                           \cup f[<<FirstBar(w, a + 1, b) + 1, b>>]
    BY ONLY <2>1, <1>8 DEF PartIs
  <2> QED
    BY <2>2, <1>7
<1>10. c + 1 - 1 = c
  OBVIOUS
<1> QED
  BY <1>9, <1>10 DEF Between

\* Operands: the first one with its quantifier, and the rest.
LEMMA RepetitionsMean ==
    ASSUME NEW w, NEW W, NEW kind, NEW d, TokensAre(w, W, kind, d),
           NEW f, NEW t, Unfolds(f, w, t, W),
           NEW a \in 0 .. W, NEW c \in 0 .. W, NEW b \in 0 .. W,
           Stands("Repetition", kind, d, a, c),
           Stands("ConcatenationTail", kind, d, c, b), c # b
    PROVE  Between(f, a, b) = Meaning!Then(Between(f, a, c), Between(f, c, b))
<1> DEFINE ends == Meaning!FirstEnds(w, a + 1, b)
           first == FirstEnd(w, a + 1, b)
<1>0. Depths(W, kind, d) /\ W \in Nat
  BY TokensHaveDepths DEF TokensAre
<1>1. /\ RepetitionAt(kind, d, a, c) /\ OperandsAt(kind, d, c, b)
      /\ c < b /\ kind[c + 1] \in AtomStarts
  BY DEF Stands, StartsAtom
<1>2. ends = {k \in a + 1 .. b - 1 : /\ EndsAt(kind, d, a, k)
                                     /\ kind[k + 1] \notin Quantifiers}
  BY FirstEndsAre
<1>3. OperandsAt(kind, d, a, c) /\ a < c
  BY <1>0, <1>1, RepetitionIsWhole DEF StartsAtom
<1>4. EndsAt(kind, d, a, c)
  <2>1. PICK e \in a .. c : AtomAt(kind, d, a, e) /\ QuantifierAt(kind, e, c)
    BY <1>1 DEF RepetitionAt
  <2>2. d[c] = d[a]
    BY <1>3 DEF OperandsAt, Whole
  <2>3. ASSUME NEW l \in a + 1 .. c - 1, d[l] = d[a]
        PROVE  l = c - 1 /\ kind[c] \in Quantifiers
    <3>1. d[a] \in Int /\ d[l] \in Int
      BY <1>0 DEF Depths
    <3>2. ~(l \in a + 1 .. e - 1)
      BY <2>1, <2>3, <3>1 DEF AtomAt
    <3> QED
      BY <2>1, <3>2 DEF QuantifierAt
  <2> QED
    BY <2>2, <2>3 DEF EndsAt
<1>5. c \in ends
  <2>1. kind[c + 1] \notin Quantifiers
    BY <1>1 DEF AtomStarts, Quantifiers
  <2> QED
    BY <1>1, <1>2, <1>3, <1>4, <2>1
<1>6. ASSUME NEW k \in ends PROVE k = c
  <2>1. /\ k \in a + 1 .. b - 1 /\ d[k] = d[a]
        /\ \A l \in a + 1 .. k - 1 : d[l] = d[a] => /\ l = k - 1
                                                    /\ kind[k] \in Quantifiers
        /\ kind[k + 1] \notin Quantifiers
    BY <1>2 DEF EndsAt
  <2>2. /\ d[c] = d[a]
        /\ \A l \in a + 1 .. c - 1 : d[l] = d[a] => /\ l = c - 1
                                                    /\ kind[c] \in Quantifiers
    BY <1>4 DEF EndsAt
  <2>3. ~(k < c)
    <3> SUFFICES ASSUME k < c PROVE FALSE
      OBVIOUS
    <3>1. k = c - 1 /\ kind[c] \in Quantifiers
      BY <2>1, <2>2
    <3> QED
      BY <2>1, <3>1
  <2>4. ~(c < k)
    <3> SUFFICES ASSUME c < k PROVE FALSE
      OBVIOUS
    <3>1. c = k - 1 /\ kind[k] \in Quantifiers
      BY <1>3, <2>1, <2>2
    <3>2. kind[c + 1] \in Quantifiers
      BY <2>1, <3>1
    <3> QED
      BY <1>1, <3>2 DEF AtomStarts, Quantifiers
  <2> QED
    BY <2>1, <2>3, <2>4
<1>7. first = c
  BY <1>5, <1>6 DEF FirstEnd
<1>8. Meaning!Bars(w, a + 1, b) = {}
  <2>1. OperandsAt(kind, d, a, b)
    BY <1>0, <1>1, <1>3, OperandsJoined
  <2>2. \A k \in a + 1 .. b : kind[k] = "PIPE" => d[a] < d[k]
    BY <2>1 DEF OperandsAt, NoBars
  <2>3. \A k \in a + 1 .. b : d[k] \in Int /\ d[a] \in Int
    BY <1>0 DEF Depths
  <2> QED
    BY <2>2, <2>3, BarsAre
<1>9. PartIs(Between(f, a, b), f, w, t, a + 1, b)
  BY <1>0, <1>1, <1>3, PartUnfolds
<1>10. Between(f, a, b) = Meaning!Then(f[<<a + 1, c>>], f[<<c + 1, b>>])
  BY <1>5, <1>7, <1>8, <1>9 DEF PartIs
<1> QED
  BY <1>10 DEF Between
\* What one operand or one quantifier is at the end of a part means.
EndIs(spans, f, w, t, i, j) ==
    spans = CASE Meaning!Kind(w, j) = "STAR" ->
                   Meaning!Powers(f[<<i, j - 1>>], 0, Meaning!UNBOUNDED,
                                  Len(t))
              [] Meaning!Kind(w, j) = "PLUS" ->
                   Meaning!Powers(f[<<i, j - 1>>], 1, Meaning!UNBOUNDED,
                                  Len(t))
              [] Meaning!Kind(w, j) = "QUESTION" ->
                   Meaning!Powers(f[<<i, j - 1>>], 0, 1, Len(t))
              [] Meaning!Kind(w, j) = "RPAREN" -> f[<<i + 1, j - 1>>]
              [] OTHER -> Meaning!Atom(w[i], t)

\* A part that is one operand, with a quantifier or without.
LEMMA OperandMeans ==
    ASSUME NEW w, NEW W, NEW kind, NEW d, TokensAre(w, W, kind, d),
           NEW f, NEW t, Unfolds(f, w, t, W),
           NEW a \in 0 .. W, NEW b \in 0 .. W, a < b,
           OperandsAt(kind, d, a, b),
           \A k \in a + 1 .. b - 1 : d[k] = d[a] =>
               k = b - 1 /\ kind[b] \in Quantifiers
    PROVE  EndIs(Between(f, a, b), f, w, t, a + 1, b)
<1>0. Depths(W, kind, d) /\ W \in Nat
  BY TokensHaveDepths DEF TokensAre
<1>1. Meaning!Bars(w, a + 1, b) = {}
  <2>1. \A k \in a + 1 .. b : kind[k] = "PIPE" => d[a] < d[k]
    BY DEF OperandsAt, NoBars
  <2>2. \A k \in a + 1 .. b : d[k] \in Int /\ d[a] \in Int
    BY <1>0 DEF Depths
  <2> QED
    BY <2>1, <2>2, BarsAre
<1>2. Meaning!FirstEnds(w, a + 1, b) = {}
  <2>1. ASSUME NEW k \in a + 1 .. b - 1, EndsAt(kind, d, a, k),
               kind[k + 1] \notin Quantifiers
        PROVE  FALSE
    <3>1. k = b - 1 /\ kind[b] \in Quantifiers
      BY <2>1 DEF EndsAt
    <3> QED
      BY <2>1, <3>1
  <2> QED
    BY <2>1, FirstEndsAre
<1>3. PartIs(Between(f, a, b), f, w, t, a + 1, b)
  BY <1>0, PartUnfolds
<1> QED
  BY ONLY <1>1, <1>2, <1>3 DEF PartIs, EndIs

\* An operand with a quantifier.
LEMMA QuantifiedMeans ==
    ASSUME NEW w, NEW W, NEW kind, NEW d, TokensAre(w, W, kind, d),
           NEW f, NEW t, Unfolds(f, w, t, W),
           NEW a \in 0 .. W, NEW c \in 0 .. W, NEW b \in 0 .. W,
           AtomAt(kind, d, a, c), b = c + 1, kind[b] \in Quantifiers
    PROVE  /\ kind[b] = "STAR" => Between(f, a, b) =
                 Meaning!Powers(Between(f, a, c), 0, Meaning!UNBOUNDED, Len(t))
           /\ kind[b] = "PLUS" => Between(f, a, b) =
                 Meaning!Powers(Between(f, a, c), 1, Meaning!UNBOUNDED, Len(t))
           /\ kind[b] = "QUESTION" => Between(f, a, b) =
                 Meaning!Powers(Between(f, a, c), 0, 1, Len(t))
<1>0. Depths(W, kind, d) /\ W \in Nat
  BY TokensHaveDepths DEF TokensAre
<1>1. a < c /\ QuantifierAt(kind, c, b) /\ a < b
  BY DEF AtomAt, StartsAtom, QuantifierAt
<1>2. OperandsAt(kind, d, a, b)
  <2>1. RepetitionAt(kind, d, a, b)
    BY <1>1 DEF RepetitionAt
  <2> QED
    BY <1>0, <2>1, RepetitionIsWhole
<1>3. \A k \in a + 1 .. b - 1 : d[k] = d[a] =>
          k = b - 1 /\ kind[b] \in Quantifiers
  <2> SUFFICES ASSUME NEW k \in a + 1 .. b - 1, d[k] = d[a], k < c
               PROVE  FALSE
    OBVIOUS
  <2>1. d[a] < d[k] /\ d[a] \in Int
    BY <1>0 DEF AtomAt, Depths
  <2> QED
    BY <2>1
<1>4. EndIs(Between(f, a, b), f, w, t, a + 1, b)
  BY <1>1, <1>2, <1>3, OperandMeans
<1>5. kind[b] = Meaning!Kind(w, b)
  BY DEF TokensAre
<1>6. f[<<a + 1, b - 1>>] = Between(f, a, c)
  BY DEF Between
<1> QED
  BY ONLY <1>4, <1>5, <1>6 DEF EndIs

\* An operand that is one token.
LEMMA TokenMeans ==
    ASSUME NEW w, NEW W, NEW kind, NEW d, TokensAre(w, W, kind, d),
           NEW f, NEW t, Unfolds(f, w, t, W),
           NEW a \in 0 .. W, NEW b \in 0 .. W, b = a + 1,
           kind[b] \in AtomStarts \ {"LPAREN"}
    PROVE  Between(f, a, b) = Meaning!Atom(w[b], t)
<1>0. Depths(W, kind, d)
  BY TokensHaveDepths
<1>1. OperandsAt(kind, d, a, b)
  BY <1>0, AtomOfToken, AtomIsWhole
<1>2. EndIs(Between(f, a, b), f, w, t, a + 1, b)
  BY <1>1, OperandMeans
<1>3. kind[b] = Meaning!Kind(w, b)
  BY DEF TokensAre
<1>4. kind[b] \notin {"STAR", "PLUS", "QUESTION", "RPAREN"}
  BY DEF AtomStarts
<1> QED
  BY <1>2, <1>3, <1>4 DEF EndIs

\* A group means what is in it.
LEMMA GroupMeans ==
    ASSUME NEW w, NEW W, NEW kind, NEW d, TokensAre(w, W, kind, d),
           NEW f, NEW t, Unfolds(f, w, t, W),
           NEW a \in 0 .. W, NEW b \in 0 .. W,
           AtomAt(kind, d, a, b), kind[b] = "RPAREN"
    PROVE  Between(f, a, b) = Between(f, a + 1, b - 1)
<1>0. Depths(W, kind, d)
  BY TokensHaveDepths
<1>1. OperandsAt(kind, d, a, b) /\ a < b
  BY <1>0, AtomIsWhole DEF AtomAt, StartsAtom
<1>2. \A k \in a + 1 .. b - 1 : d[k] = d[a] =>
          k = b - 1 /\ kind[b] \in Quantifiers
  <2> SUFFICES ASSUME NEW k \in a + 1 .. b - 1, d[k] = d[a] PROVE FALSE
    OBVIOUS
  <2>1. d[a] < d[k] /\ d[a] \in Int
    BY <1>0 DEF AtomAt, Depths
  <2> QED
    BY <2>1
<1>3. EndIs(Between(f, a, b), f, w, t, a + 1, b)
  BY <1>1, <1>2, OperandMeans
<1>4. Meaning!Kind(w, b) = "RPAREN"
  BY DEF TokensAre, AtomAt, StartsAtom
<1> QED
  BY <1>3, <1>4 DEF EndIs, Between
-----------------------------------------------------------------------------
(* Where the nodes of a tree that is whole stand in the pattern.           *)

\* A node without production is a leaf, which has its token or is empty; the
\* children of another one follow one another.
NodePlaced(n, W, from, to) ==
    /\ from[n] \in 0 .. W /\ to[n] \in 0 .. W
    /\ tree[n].production = NONE =>
          IF tree[n].symbol = EPSILON THEN to[n] = from[n]
          ELSE /\ to[n] = from[n] + 1 /\ tree[n].token = to[n]
               /\ tokens[to[n]].terminal = tree[n].symbol
    /\ \A p \in DOMAIN Productions, K \in 1 .. 3 :
          tree[n].production = p /\ Len(Productions[p]) = K =>
             /\ \A i \in 1 .. K :
                   /\ tree[n].children[i] \in n + 1 .. Len(tree)
                   /\ tree[tree[n].children[i]].symbol = Productions[p][i]
             /\ from[tree[n].children[1]] = from[n]
             /\ to[tree[n].children[K]] = to[n]
             /\ \A i \in 1 .. K - 1 :
                   from[tree[n].children[i + 1]] = to[tree[n].children[i]]

\* All nodes are where they belong, the root in front of all W tokens.
Placed(W, from, to) ==
    /\ \A n \in DOMAIN tree : NodePlaced(n, W, from, to)
    /\ from[ROOT] = 0 /\ to[ROOT] = W

\* How many symbols a production has.
LEMMA Lengths ==
    ASSUME NEW p \in DOMAIN Productions
    PROVE  Len(Productions[p]) \in 1 .. 3
BY DEF Productions

\* The nodes of a tree whose leaves are the tokens.
LEMMA TreeIsPlaced ==
    ASSUME Parsed, StateOK, NEW W \in Nat, FrontierOK(tree, <<>>, W)
    PROVE  \E from, to : Placed(W, from, to)
<1>1. PICK N \in Nat \ {0} : N = Len(tree) /\ DOMAIN tree = 1 .. N
  BY DEF Parsed, TreeOK
<1>2. PICK at, M, from, to :
         /\ Spans(tree, N, <<>>, 0, W, at, M, from, to)
         /\ from \in [1 .. N -> Nat] /\ to \in [1 .. N -> Nat]
  <2>1. Len(<<>>) = 0 /\ 0 \in Nat /\ W \in Nat
    OBVIOUS
  <2> QED
    BY ONLY <1>1, <2>1, FrontierOK(tree, <<>>, W), FrontierHasSpans
<1>3. M = W
  BY <1>2 DEF Spans
<1>4. /\ from[ROOT] = 0 /\ to[ROOT] = W
      /\ \A n \in 1 .. N : /\ from[n] \in Nat /\ to[n] \in Nat
                           /\ from[n] <= to[n] /\ to[n] <= W
      /\ \A k \in 1 .. W : at[k] \in 1 .. N /\ tree[at[k]].token = k
  BY <1>2, <1>3 DEF Spans
<1>5. ASSUME NEW n \in 1 .. N PROVE NodePlaced(n, W, from, to)
  <2>0. n \in DOMAIN tree
    BY <1>1
  <2>1. /\ tree[n].children = <<>> =>
              IF tree[n].symbol = EPSILON THEN to[n] = from[n]
              ELSE to[n] = from[n] + 1 /\ at[to[n]] = n
        /\ tree[n].children # <<>> =>
              /\ from[tree[n].children[1]] = from[n]
              /\ to[tree[n].children[Len(tree[n].children)]] = to[n]
              /\ \A i \in 1 .. Len(tree[n].children) - 1 :
                    from[tree[n].children[i + 1]] = to[tree[n].children[i]]
    BY ONLY <1>2, n \in 1 .. N DEF Spans
  <2>2. from[n] \in 0 .. W /\ to[n] \in 0 .. W
    BY <1>4
  <2>3. ASSUME tree[n].production = NONE
        PROVE  IF tree[n].symbol = EPSILON THEN to[n] = from[n]
               ELSE /\ to[n] = from[n] + 1 /\ tree[n].token = to[n]
                    /\ tokens[to[n]].terminal = tree[n].symbol
    <3>1. tree[n].children = <<>>
      BY <2>0, <2>3 DEF Parsed, ExpandedOK
    <3>2. CASE tree[n].symbol = EPSILON
      BY <2>1, <3>1, <3>2
    <3>3. CASE tree[n].symbol # EPSILON
      <4>1. to[n] = from[n] + 1 /\ at[to[n]] = n
        BY <2>1, <3>1, <3>3
      <4>2. to[n] \in 1 .. W
        BY <2>2, <4>1
      <4>3. tree[n].token = to[n] /\ to[n] # 0
        BY <1>4, <4>1, <4>2
      <4>4. tokens[to[n]].terminal = tree[n].symbol
        BY <2>0, <4>3 DEF Parsed, TokensOK
      <4> QED
        BY <3>3, <4>1, <4>3, <4>4
    <3> QED
      BY <3>2, <3>3
  <2>4. ASSUME NEW p \in DOMAIN Productions, NEW K \in 1 .. 3,
               tree[n].production = p, Len(Productions[p]) = K
        PROVE  /\ \A i \in 1 .. K :
                     /\ tree[n].children[i] \in n + 1 .. Len(tree)
                     /\ tree[tree[n].children[i]].symbol = Productions[p][i]
               /\ from[tree[n].children[1]] = from[n]
               /\ to[tree[n].children[K]] = to[n]
               /\ \A i \in 1 .. K - 1 :
                     from[tree[n].children[i + 1]] = to[tree[n].children[i]]
    <3>1. p # NONE
      BY DEF Productions, NONE
    <3>2. /\ Len(tree[n].children) = K
          /\ \A i \in DOMAIN tree[n].children :
                /\ tree[n].children[i] # NO_NODE
                /\ tree[tree[n].children[i]].symbol = Productions[p][i]
      BY <2>0, <2>4, <3>1 DEF Parsed, ExpandedOK
    <3>3. /\ DOMAIN tree[n].children = 1 .. K /\ tree[n].children # <<>>
      <4>1. Ids(tree[n].children)
        BY <2>0, TreeDomain DEF Parsed
      <4>2. DOMAIN tree[n].children = 1 .. K
        BY <3>2, <4>1, FewIds
      <4>3. Len(<<>>) = 0 /\ K # 0
        OBVIOUS
      <4> QED
        BY <3>2, <4>2, <4>3
    <3>4. \A i \in 1 .. K :
             tree[n].children[i] \in {NO_NODE} \cup n + 1 .. Len(tree)
      BY <2>0, <3>3 DEF Parsed, TreeOK
    <3>5. /\ from[tree[n].children[1]] = from[n]
          /\ to[tree[n].children[K]] = to[n]
          /\ \A i \in 1 .. K - 1 :
                from[tree[n].children[i + 1]] = to[tree[n].children[i]]
      BY <2>1, <3>2, <3>3
    <3> QED
      BY <3>2, <3>3, <3>4, <3>5
  <2> QED
    BY <2>2, <2>3, <2>4 DEF NodePlaced
<1> QED
  BY <1>1, <1>4, <1>5 DEF Placed

\* The symbol of each node can stand where the node does.
NodeStands(n, kind, d, from, to) ==
    Stands(tree[n].symbol, kind, d, from[n], to[n])

\* The symbols of a finished parse tree fit the tokens below them.
LEMMA TreeStands ==
    ASSUME Parsed, StateOK, NEW W, NEW kind, NEW d, Depths(W, kind, d),
           \A k \in 1 .. W : kind[k] = tokens[k].terminal,
           NEW from, NEW to, Placed(W, from, to)
    PROVE  \A n \in DOMAIN tree : NodeStands(n, kind, d, from, to)
<1>1. PICK N \in Nat \ {0} : N = Len(tree) /\ DOMAIN tree = 1 .. N
  BY DEF Parsed, TreeOK
<1> DEFINE G == {n \in 1 .. N : NodeStands(n, kind, d, from, to)}
<1>2. ASSUME NEW n \in 1 .. N, n + 1 .. N \subseteq G
      PROVE  n \in G
  <2>0. n \in DOMAIN tree /\ NodePlaced(n, W, from, to)
    BY <1>1 DEF Placed
  <2>1. /\ tree[n].production \in DOMAIN Productions \cup {NONE}
        /\ tree[n].symbol \in Symbols
    <3>1. tree[n] \in ParseTreeNode
      BY <2>0 DEF StateOK
    <3> QED
      BY <3>1 DEF ParseTreeNode, Symbols
  <2>2. CASE tree[n].production = NONE
    <3>1. tree[n].symbol \notin Nonterminals
      <4>1. NONE \notin DOMAIN Productions
        BY DEF Productions, NONE
      <4> QED
        BY <2>0, <2>2, <4>1, NodeIs
    <3>2. CASE tree[n].symbol = EPSILON
      <4>1. to[n] = from[n]
        BY <2>0, <2>2, <3>2 DEF NodePlaced
      <4>2. NodeStands(n, kind, d, from, to)
        BY <3>2, <4>1
        DEF NodeStands, Stands, EPSILON, Terminals, AtomStarts, Quantifiers
      <4> QED
        BY <4>2
    <3>3. CASE tree[n].symbol \in Terminals
      <4>1. /\ to[n] = from[n] + 1 /\ from[n] \in 0 .. W /\ to[n] \in 0 .. W
            /\ tokens[to[n]].terminal = tree[n].symbol
        BY <2>0, <2>2, <3>3, SymbolsApart DEF NodePlaced
      <4>2. to[n] \in 1 .. W
        BY <4>1 DEF Depths
      <4>3. kind[to[n]] = tree[n].symbol
        BY <4>1, <4>2
      <4>4. NodeStands(n, kind, d, from, to)
        BY <3>3, <4>1, <4>3
        DEF NodeStands, Stands, EPSILON, Terminals, AtomStarts, Quantifiers
      <4> QED
        BY <4>4
    <3> QED
      BY <2>1, <3>1, <3>2, <3>3 DEF Symbols
  <2>3. CASE tree[n].production \in DOMAIN Productions
    <3>1. PICK p \in DOMAIN Productions : p = tree[n].production
      BY <2>3
    <3>2. PICK K \in 1 .. 3 : K = Len(Productions[p])
      BY Lengths
    <3>3. /\ \A i \in 1 .. K :
                /\ tree[n].children[i] \in n + 1 .. N
                /\ tree[tree[n].children[i]].symbol = Productions[p][i]
          /\ from[tree[n].children[1]] = from[n]
          /\ to[tree[n].children[K]] = to[n]
          /\ \A i \in 1 .. K - 1 :
                from[tree[n].children[i + 1]] = to[tree[n].children[i]]
      BY <1>1, <2>0, <3>1, <3>2, Zenon DEF NodePlaced
    <3> DEFINE lo == [i \in 1 .. K |-> from[tree[n].children[i]]]
               hi == [i \in 1 .. K |-> to[tree[n].children[i]]]
    <3>4. \A i \in 1 .. K : /\ lo[i] = from[tree[n].children[i]]
                            /\ hi[i] = to[tree[n].children[i]]
      OBVIOUS
    <3> HIDE DEF lo, hi
    <3>5. Chained(W, K, lo, hi)
      <4>1. \A i \in 1 .. K : lo[i] \in 0 .. W /\ hi[i] \in 0 .. W
        <5> TAKE i \in 1 .. K
        <5>1. tree[n].children[i] \in DOMAIN tree
          BY <1>1, <3>3
        <5>2. NodePlaced(tree[n].children[i], W, from, to)
          BY <5>1 DEF Placed
        <5> QED
          BY <3>4, <5>2, Zenon DEF NodePlaced
      <4>2. \A i \in 1 .. K - 1 : lo[i + 1] = hi[i]
        BY <3>3, <3>4
      <4> QED
        BY ONLY <4>1, <4>2 DEF Chained
    <3>6. \A i \in 1 .. K : Stands(Productions[p][i], kind, d, lo[i], hi[i])
      <4> TAKE i \in 1 .. K
      <4>1. NodeStands(tree[n].children[i], kind, d, from, to)
        BY <1>2, <3>3
      <4> QED
        BY <3>3, <3>4, <4>1 DEF NodeStands
    <3>7. Stands(HeadOf[p], kind, d, lo[1], hi[K])
      BY ONLY <3>2, <3>5, <3>6, Depths(W, kind, d), HeadStands
    <3>8. HeadOf[p] = tree[n].symbol
      <4>1. p # NONE
        BY DEF Productions, NONE
      <4> QED
        BY <2>0, <3>1, <4>1 DEF Parsed, ExpandedOK
    <3>9. lo[1] = from[n] /\ hi[K] = to[n]
      BY <3>3, <3>4
    <3>10. NodeStands(n, kind, d, from, to)
      BY <3>7, <3>8, <3>9 DEF NodeStands
    <3> QED
      BY <3>10
  <2> QED
    BY <2>1, <2>2, <2>3
<1> HIDE DEF G
<1>3. 1 .. N \subseteq G
  BY ONLY <1>2, N \in Nat \ {0}, Downwards
<1> QED
  BY <1>1, <1>3 DEF G
-----------------------------------------------------------------------------
(* What the nodes of the parse tree mean.                                  *)

\* What a list means of which L is the meaning so far, and R that of the rest,
\* a tail of this production.
Joined(production, L, R) ==
    IF production = "ALTERNATION_TAIL_PIPE" THEN L \cup R
    ELSE Meaning!Then(L, R)

\* The same with the tail n, if h are the meanings of the nodes.
WithTail(h, L, n) ==
    IF tree[n].production \in EmptyTails THEN L
    ELSE Joined(tree[n].production, L, h[n])

\* What an operand that means R means with a quantifier.
Quantified(R, production, t) ==
    CASE production = "QUANTIFIER_STAR" ->
            Meaning!Powers(R, 0, Meaning!UNBOUNDED, Len(t))
      [] production = "QUANTIFIER_PLUS" ->
            Meaning!Powers(R, 1, Meaning!UNBOUNDED, Len(t))
      [] production = "QUANTIFIER_QUESTION" ->
            Meaning!Powers(R, 0, 1, Len(t))
      [] OTHER -> R

\* The operand of a list or of a tail, and the tail behind it.
OperandOf(n) == tree[n].children[IF tree[n].production
                                       = "ALTERNATION_TAIL_PIPE" THEN 2 ELSE 1]
TailOf(n) == tree[n].children[IF tree[n].production
                                    = "ALTERNATION_TAIL_PIPE" THEN 3 ELSE 2]

\* The meaning of a node, by those of its children.  That of a tail is the
\* meaning of what is behind its bar, if it has one.
NodeMeans(h, n, t) ==
    /\ tree[n].production \in ListProductions \cup ListTails =>
          h[n] = WithTail(h, h[OperandOf(n)], TailOf(n))
    /\ tree[n].production = "REPETITION" =>
          h[n] = Quantified(h[tree[n].children[1]],
                            tree[tree[n].children[2]].production, t)
    /\ tree[n].production = "ATOM_GROUP" => h[n] = h[tree[n].children[2]]
    /\ tree[n].production \in AtomProductions \ {"ATOM_GROUP"} =>
          h[n] = Meaning!Atom(tokens[tree[tree[n].children[1]].token], t)

\* What a node means by where it is, its bar left out.
Placement(f, from, to, n) ==
    Between(f, IF tree[n].production = "ALTERNATION_TAIL_PIPE"
             THEN from[n] + 1 ELSE from[n], to[n])

\* All nodes by where they are.
PlacedMeanings(f, from, to) ==
    [n \in DOMAIN tree |-> Placement(f, from, to, n)]

\* All there is to know of the tree and the tokens.
Situated(w, W, kind, d, f, t, from, to) ==
    /\ w = tokens /\ TokensAre(w, W, kind, d) /\ Unfolds(f, w, t, W)
    /\ Placed(W, from, to)
    /\ \A n \in DOMAIN tree : NodeStands(n, kind, d, from, to)

\* The child c of a node is what the symbol i of its production p says.
ChildStands(c, p, i, W, kind, d, from, to) ==
    /\ c \in DOMAIN tree
    /\ from[c] \in 0 .. W /\ to[c] \in 0 .. W
    /\ tree[c].symbol = Productions[p][i]
    /\ Stands(Productions[p][i], kind, d, from[c], to[c])
    /\ tree[c].symbol \in Nonterminals =>
          /\ tree[c].production \in DOMAIN Productions
          /\ HeadOf[tree[c].production] = tree[c].symbol
    /\ tree[c].symbol \in Terminals =>
          /\ tree[c].token = to[c] /\ to[c] = from[c] + 1
          /\ kind[to[c]] = tree[c].symbol

\* The K children of the node n of production p are next to each other.
ChildrenStand(n, p, K, W, kind, d, from, to) ==
    /\ from[n] \in 0 .. W /\ to[n] \in 0 .. W
    /\ tree[n].symbol = HeadOf[p]
    /\ Stands(HeadOf[p], kind, d, from[n], to[n])
    /\ from[tree[n].children[1]] = from[n]
    /\ to[tree[n].children[K]] = to[n]
    /\ \A i \in 1 .. K - 1 :
          from[tree[n].children[i + 1]] = to[tree[n].children[i]]
    /\ \A i \in 1 .. K :
          ChildStands(tree[n].children[i], p, i, W, kind, d, from, to)

\* The children of a node, one by one.
LEMMA ChildPlaced ==
    ASSUME Parsed, StateOK,
           NEW w, NEW W, NEW kind, NEW d, NEW f, NEW t, NEW from, NEW to,
           Situated(w, W, kind, d, f, t, from, to),
           NEW n \in DOMAIN tree, NEW p \in DOMAIN Productions,
           tree[n].production = p, NEW K \in 1 .. 3, Len(Productions[p]) = K
    PROVE  ChildrenStand(n, p, K, W, kind, d, from, to)
<1>1. /\ Placed(W, from, to)
      /\ \A m \in DOMAIN tree : NodeStands(m, kind, d, from, to)
  BY DEF Situated
<1>2. NodePlaced(n, W, from, to)
  BY <1>1 DEF Placed
<1>3. /\ from[n] \in 0 .. W /\ to[n] \in 0 .. W
      /\ \A i \in 1 .. K :
            /\ tree[n].children[i] \in n + 1 .. Len(tree)
            /\ tree[tree[n].children[i]].symbol = Productions[p][i]
      /\ from[tree[n].children[1]] = from[n]
      /\ to[tree[n].children[K]] = to[n]
      /\ \A i \in 1 .. K - 1 :
            from[tree[n].children[i + 1]] = to[tree[n].children[i]]
  BY <1>2 DEF NodePlaced
<1>4. p # NONE
  BY DEF Productions, NONE
<1>5. tree[n].symbol = HeadOf[p]
  BY <1>4 DEF Parsed, ExpandedOK
<1>6. Stands(HeadOf[p], kind, d, from[n], to[n])
  BY <1>1, <1>5 DEF NodeStands
<1>7. ASSUME NEW i \in 1 .. K, NEW c, c = tree[n].children[i]
      PROVE  ChildStands(c, p, i, W, kind, d, from, to)
  <2>1. c \in DOMAIN tree
    BY <1>3, <1>7, TreeDomain DEF Parsed
  <2>2. tree[c].symbol = Productions[p][i]
    BY <1>3, <1>7
  <2>3. NodePlaced(c, W, from, to) /\ NodeStands(c, kind, d, from, to)
    BY <1>1, <2>1 DEF Placed
  <2>4. from[c] \in 0 .. W /\ to[c] \in 0 .. W
    BY <2>3 DEF NodePlaced
  <2>5. Stands(Productions[p][i], kind, d, from[c], to[c])
    BY <2>2, <2>3 DEF NodeStands
  <2>6. tree[c].symbol \in Nonterminals =>
           /\ tree[c].production \in DOMAIN Productions
           /\ HeadOf[tree[c].production] = tree[c].symbol
    BY <2>1, NodeIs
  <2>7. tree[c].symbol \in Terminals =>
           /\ tree[c].token = to[c] /\ to[c] = from[c] + 1
           /\ kind[to[c]] = tree[c].symbol
    <3> HAVE tree[c].symbol \in Terminals
    <3>1. tree[c].production = NONE
      <4>1. tree[c] \in ParseTreeNode
        BY <2>1 DEF StateOK
      <4>2. tree[c].production \in DOMAIN Productions \cup {NONE}
        BY <4>1 DEF ParseTreeNode
      <4>3. tree[c].production # NONE =>
               tree[c].symbol = HeadOf[tree[c].production]
        BY <2>1 DEF Parsed, ExpandedOK
      <4> QED
        BY <4>2, <4>3, Heads, SymbolsApart
    <3>2. tree[c].token = to[c] /\ to[c] = from[c] + 1
      BY <2>3, <3>1, SymbolsApart DEF NodePlaced
    <3>3. kind[to[c]] = tree[c].symbol
      BY <2>2, <2>5 DEF Stands
    <3> QED
      BY <3>2, <3>3
  <2> QED
    BY <2>1, <2>2, <2>4, <2>5, <2>6, <2>7 DEF ChildStands
<1> QED
  BY <1>3, <1>5, <1>6, <1>7 DEF ChildrenStand

\* A tail is without tokens when it is an empty one.
LEMMA TailWidth ==
    ASSUME Parsed, StateOK,
           NEW w, NEW W, NEW kind, NEW d, NEW f, NEW t, NEW from, NEW to,
           Situated(w, W, kind, d, f, t, from, to), NEW n \in DOMAIN tree
    PROVE  /\ tree[n].production \in EmptyTails => from[n] = to[n]
           /\ tree[n].production \in ListTails => from[n] < to[n]
<1>0. Depths(W, kind, d) /\ W \in Nat
  BY TokensHaveDepths DEF Situated, TokensAre
<1>1. CASE tree[n].production \in EmptyTails
  <2>1. PICK p \in DOMAIN Productions :
           /\ tree[n].production = p /\ Len(Productions[p]) = 1
           /\ Productions[p][1] = EPSILON
    BY <1>1 DEF Productions, EmptyTails
  <2>2. ChildrenStand(n, p, 1, W, kind, d, from, to)
    BY <2>1, ChildPlaced
  <2>3. from[tree[n].children[1]] = from[n] /\ to[tree[n].children[1]] = to[n]
    BY <2>2 DEF ChildrenStand
  <2>4. ChildStands(tree[n].children[1], p, 1, W, kind, d, from, to)
    BY <2>2 DEF ChildrenStand
  <2>5. from[n] = to[n]
    BY <2>1, <2>3, <2>4 DEF ChildStands, Stands
  <2> QED
    BY <1>1, <2>5 DEF EmptyTails, ListTails
<1>2. CASE tree[n].production = "ALTERNATION_TAIL_PIPE"
  <2>1. "ALTERNATION_TAIL_PIPE" \in DOMAIN Productions
        /\ Len(Productions["ALTERNATION_TAIL_PIPE"]) = 3
        /\ Productions["ALTERNATION_TAIL_PIPE"][1] = "PIPE"
        /\ HeadOf["ALTERNATION_TAIL_PIPE"] = "AlternationTail"
    BY DEF Productions, HeadOf
  <2> DEFINE c == tree[n].children[1]
  <2>0. ChildrenStand(n, "ALTERNATION_TAIL_PIPE", 3, W, kind, d, from, to)
    BY <1>2, <2>1, ChildPlaced
  <2>2. /\ Stands("AlternationTail", kind, d, from[n], to[n])
        /\ from[c] = from[n]
    BY <2>0, <2>1 DEF ChildrenStand
  <2>3. \/ from[n] = to[n] \/ from[n] < to[n]
    BY <2>2 DEF Stands
  <2>4. from[n] # to[n]
    <3> DEFINE e == tree[n].children[2]
               q == tree[n].children[3]
    <3>1. /\ Productions["ALTERNATION_TAIL_PIPE"][2] = "Concatenation"
          /\ Productions["ALTERNATION_TAIL_PIPE"][3] = "AlternationTail"
      BY DEF Productions
    <3>4. \A i \in 1 .. 3 : ChildStands(tree[n].children[i],
                "ALTERNATION_TAIL_PIPE", i, W, kind, d, from, to)
      BY <2>0 DEF ChildrenStand
    <3>5. \A i \in 1 .. 2 :
             from[tree[n].children[i + 1]] = to[tree[n].children[i]]
      BY <2>0 DEF ChildrenStand
    <3>6. from[e] = to[c] /\ from[q] = to[e]
      BY <3>5
    <3>7. to[q] = to[n] /\ from[n] \in 0 .. W /\ to[n] \in 0 .. W
      BY <2>0 DEF ChildrenStand
    <3>2. /\ Stands("PIPE", kind, d, from[c], to[c])
          /\ Stands("Concatenation", kind, d, from[e], to[e])
          /\ Stands("AlternationTail", kind, d, from[q], to[q])
          /\ from[e] = to[c] /\ from[q] = to[e] /\ to[q] = to[n]
          /\ from[n] \in 0 .. W /\ to[n] \in 0 .. W
          /\ from[e] \in 0 .. W /\ from[q] \in 0 .. W
      BY <2>1, <3>1, <3>4, <3>6, <3>7 DEF ChildStands
    <3>3. to[c] = from[c] + 1 /\ from[e] < to[e] /\ from[q] <= to[q]
      BY <3>2, SymbolsApart DEF Stands, StartsAtom, Whole
    <3> HIDE DEF c, e, q
    <3> QED
      BY <2>2, <3>2, <3>3
  <2> QED
    BY <1>2, <2>3, <2>4 DEF EmptyTails
<1>3. CASE tree[n].production = "CONCATENATION_TAIL_REPETITION"
  <2> DEFINE c == tree[n].children[1]
             q == tree[n].children[2]
  <2>1. /\ "CONCATENATION_TAIL_REPETITION" \in DOMAIN Productions
        /\ Len(Productions["CONCATENATION_TAIL_REPETITION"]) = 2
        /\ Productions["CONCATENATION_TAIL_REPETITION"][1] = "Repetition"
        /\ Productions["CONCATENATION_TAIL_REPETITION"][2]
             = "ConcatenationTail"
    BY DEF Productions
  <2>0. ChildrenStand(n, "CONCATENATION_TAIL_REPETITION", 2, W, kind, d,
                      from, to)
    BY <1>3, <2>1, ChildPlaced
  <2>6. \A i \in 1 .. 2 : ChildStands(tree[n].children[i],
              "CONCATENATION_TAIL_REPETITION", i, W, kind, d, from, to)
    BY <2>0 DEF ChildrenStand
  <2>7. \A i \in 1 .. 1 :
           from[tree[n].children[i + 1]] = to[tree[n].children[i]]
    BY <2>0 DEF ChildrenStand
  <2>8. from[q] = to[c]
    BY <2>7
  <2>9. from[c] = from[n] /\ to[q] = to[n]
    BY <2>0 DEF ChildrenStand
  <2>2. /\ Stands("Repetition", kind, d, from[c], to[c])
        /\ Stands("ConcatenationTail", kind, d, from[q], to[q])
        /\ from[c] = from[n] /\ from[q] = to[c] /\ to[q] = to[n]
        /\ from[c] \in 0 .. W /\ to[c] \in 0 .. W /\ to[q] \in 0 .. W
    BY <2>1, <2>6, <2>8, <2>9 DEF ChildStands
  <2> HIDE DEF c, q
  <2>3. from[c] < to[c]
    <3>1. RepetitionAt(kind, d, from[c], to[c])
      BY <2>2 DEF Stands
    <3> QED
      BY <1>0, <2>2, <3>1, RepetitionIsWhole DEF StartsAtom
  <2>4. from[q] <= to[q]
    BY <2>2 DEF Stands, OperandsAt, Whole
  <2>5. from[n] < to[n]
    BY <2>2, <2>3, <2>4
  <2> QED
    BY <1>3, <2>5 DEF EmptyTails
<1> QED
  BY <1>1, <1>2, <1>3 DEF ListTails

\* An operand, and the tail of its list.
Listed(o, q) ==
    \/ tree[o].symbol = "Concatenation" /\ tree[q].symbol = "AlternationTail"
    \/ tree[o].symbol = "Repetition" /\ tree[q].symbol = "ConcatenationTail"

\* A list means what its operand means, with its tail.
LEMMA ListMeans ==
    ASSUME Parsed, StateOK,
           NEW w, NEW W, NEW kind, NEW d, NEW f, NEW t, NEW from, NEW to,
           Situated(w, W, kind, d, f, t, from, to),
           NEW o \in DOMAIN tree, NEW q \in DOMAIN tree, Listed(o, q),
           to[o] = from[q],
           NEW h, h = PlacedMeanings(f, from, to)
    PROVE  Between(f, from[o], to[q]) = WithTail(h, h[o], q)
<1>0. TokensAre(w, W, kind, d) /\ Unfolds(f, w, t, W)
  BY DEF Situated
<1>1. /\ from[o] \in 0 .. W /\ to[o] \in 0 .. W
      /\ from[q] \in 0 .. W /\ to[q] \in 0 .. W
  BY DEF Situated, Placed, NodePlaced
<1>2. /\ Stands(tree[o].symbol, kind, d, from[o], to[o])
      /\ Stands(tree[q].symbol, kind, d, from[q], to[q])
  BY DEF Situated, NodeStands
<1>3. /\ tree[o].symbol \in Nonterminals /\ tree[q].symbol \in Nonterminals
  BY DEF Listed, Nonterminals
<1>4. /\ tree[o].production \in DOMAIN Productions
      /\ tree[q].production \in DOMAIN Productions
      /\ HeadOf[tree[o].production] = tree[o].symbol
      /\ HeadOf[tree[q].production] = tree[q].symbol
  BY <1>3, NodeIs
<1>5. /\ tree[o].production # "ALTERNATION_TAIL_PIPE"
      /\ tree[q].production \in ListTails \cup EmptyTails
      /\ tree[q].symbol = "ConcatenationTail" =>
            tree[q].production # "ALTERNATION_TAIL_PIPE"
      /\ tree[q].symbol = "AlternationTail" =>
            tree[q].production \in EmptyTails \cup {"ALTERNATION_TAIL_PIPE"}
  <2>1. /\ HeadOf["ALTERNATION_TAIL_PIPE"] = "AlternationTail"
        /\ HeadOf["CONCATENATION_TAIL_REPETITION"] = "ConcatenationTail"
    BY DEF HeadOf
  <2>2. tree[q].production \in ListTails \cup EmptyTails
    BY <1>4, Heads DEF Listed
  <2> QED
    BY <1>4, <2>1, <2>2 DEF Listed, ListTails
<1>6. h[o] = Between(f, from[o], to[o])
  BY <1>5 DEF PlacedMeanings, Placement
<1>7. CASE tree[q].production \in EmptyTails
  <2>1. from[q] = to[q]
    BY <1>7, TailWidth
  <2> QED
    BY <1>6, <1>7, <2>1 DEF WithTail
<1>8. CASE tree[q].production \in ListTails
  <2>1. from[q] # to[q]
    BY <1>1, <1>8, TailWidth
  <2>2. tree[q].production \notin EmptyTails
    BY <1>8 DEF ListTails, EmptyTails
  <2>3. CASE tree[q].symbol = "AlternationTail"
    <3>1. tree[o].symbol = "Concatenation"
          /\ tree[q].production = "ALTERNATION_TAIL_PIPE"
      BY <1>5, <2>2, <2>3 DEF Listed
    <3>2. h[q] = Between(f, from[q] + 1, to[q])
      BY <3>1 DEF PlacedMeanings, Placement
    <3>3. /\ Stands("Concatenation", kind, d, from[o], from[q])
          /\ Stands("AlternationTail", kind, d, from[q], to[q])
      BY <1>2, <2>3, <3>1
    <3>4. Between(f, from[o], to[q])
            = Between(f, from[o], from[q]) \cup Between(f, from[q] + 1, to[q])
      BY ONLY <1>0, <1>1, <2>1, <3>3, AlternativesMean
    <3> QED
      BY <1>6, <2>2, <3>1, <3>2, <3>4 DEF WithTail, Joined
  <2>4. CASE tree[q].symbol = "ConcatenationTail"
    <3>1. tree[o].symbol = "Repetition"
          /\ tree[q].production # "ALTERNATION_TAIL_PIPE"
      BY <1>5, <2>4 DEF Listed
    <3>2. h[q] = Between(f, from[q], to[q])
      BY <3>1 DEF PlacedMeanings, Placement
    <3>3. /\ Stands("Repetition", kind, d, from[o], from[q])
          /\ Stands("ConcatenationTail", kind, d, from[q], to[q])
      BY <1>2, <2>4, <3>1
    <3>4. Between(f, from[o], to[q])
            = Meaning!Then(Between(f, from[o], from[q]),
                           Between(f, from[q], to[q]))
      BY ONLY <1>0, <1>1, <2>1, <3>3, RepetitionsMean
    <3> QED
      BY <1>6, <2>2, <3>1, <3>2, <3>4 DEF WithTail, Joined
  <2> QED
    BY <2>3, <2>4 DEF Listed
<1> QED
  BY <1>5, <1>7, <1>8
\* What PlacedMeanings gives a node that is no list of alternatives behind a
\* bar.
LEMMA PlacedNode ==
    ASSUME NEW f, NEW from, NEW to, NEW n \in DOMAIN tree,
           NEW h, h = PlacedMeanings(f, from, to)
    PROVE  h[n] = IF tree[n].production = "ALTERNATION_TAIL_PIPE"
                  THEN Between(f, from[n] + 1, to[n])
                  ELSE Between(f, from[n], to[n])
BY DEF PlacedMeanings, Placement

\* A list.
LEMMA ListNodeMeans ==
    ASSUME Parsed, StateOK,
           NEW w, NEW W, NEW kind, NEW d, NEW f, NEW t, NEW from, NEW to,
           Situated(w, W, kind, d, f, t, from, to), NEW n \in DOMAIN tree,
           NEW h, h = PlacedMeanings(f, from, to),
           tree[n].production \in
               {"ALTERNATION", "CONCATENATION", "CONCATENATION_TAIL_REPETITION"}
    PROVE  h[n] = WithTail(h, h[OperandOf(n)], TailOf(n))
<1> DEFINE o == tree[n].children[1]
           q == tree[n].children[2]
<1>1. PICK p \in DOMAIN Productions :
         /\ tree[n].production = p /\ Len(Productions[p]) = 2
         /\ \/ /\ Productions[p][1] = "Concatenation"
               /\ Productions[p][2] = "AlternationTail"
            \/ /\ Productions[p][1] = "Repetition"
               /\ Productions[p][2] = "ConcatenationTail"
         /\ p # "ALTERNATION_TAIL_PIPE"
  BY DEF Productions
<1>2. ChildrenStand(n, p, 2, W, kind, d, from, to)
  BY <1>1, ChildPlaced
<1>3. /\ from[o] = from[n] /\ to[q] = to[n]
      /\ \A i \in 1 .. 1 :
            from[tree[n].children[i + 1]] = to[tree[n].children[i]]
      /\ ChildStands(o, p, 1, W, kind, d, from, to)
      /\ ChildStands(q, p, 2, W, kind, d, from, to)
  BY <1>2 DEF ChildrenStand
<1>4. to[o] = from[q]
  BY <1>3
<1>5. OperandOf(n) = o /\ TailOf(n) = q
  BY <1>1 DEF OperandOf, TailOf
<1>6. h[n] = Between(f, from[n], to[n])
  BY <1>1, PlacedNode
<1> HIDE DEF o, q
<1>7. o \in DOMAIN tree /\ q \in DOMAIN tree /\ Listed(o, q)
  BY <1>1, <1>3 DEF ChildStands, Listed
<1>8. Between(f, from[o], to[q]) = WithTail(h, h[o], q)
  BY <1>4, <1>7, ListMeans
<1> QED
  BY <1>3, <1>5, <1>6, <1>8

\* The rest of a list of alternatives.
LEMMA PipeNodeMeans ==
    ASSUME Parsed, StateOK,
           NEW w, NEW W, NEW kind, NEW d, NEW f, NEW t, NEW from, NEW to,
           Situated(w, W, kind, d, f, t, from, to), NEW n \in DOMAIN tree,
           NEW h, h = PlacedMeanings(f, from, to),
           tree[n].production = "ALTERNATION_TAIL_PIPE"
    PROVE  h[n] = WithTail(h, h[OperandOf(n)], TailOf(n))
<1> DEFINE c == tree[n].children[1]
           o == tree[n].children[2]
           q == tree[n].children[3]
<1>1. PICK p \in DOMAIN Productions :
         /\ tree[n].production = p /\ Len(Productions[p]) = 3
         /\ Productions[p][1] = "PIPE"
         /\ Productions[p][2] = "Concatenation"
         /\ Productions[p][3] = "AlternationTail"
  BY DEF Productions
<1>2. ChildrenStand(n, p, 3, W, kind, d, from, to)
  BY <1>1, ChildPlaced
<1>3. /\ from[c] = from[n] /\ to[q] = to[n]
      /\ \A i \in 1 .. 2 :
            from[tree[n].children[i + 1]] = to[tree[n].children[i]]
      /\ ChildStands(c, p, 1, W, kind, d, from, to)
      /\ ChildStands(o, p, 2, W, kind, d, from, to)
      /\ ChildStands(q, p, 3, W, kind, d, from, to)
  BY <1>2 DEF ChildrenStand
<1>4. to[o] = from[q] /\ to[c] = from[o]
  BY <1>3
<1>5. OperandOf(n) = o /\ TailOf(n) = q
  BY DEF OperandOf, TailOf
<1>6. h[n] = Between(f, from[n] + 1, to[n])
  BY PlacedNode
<1> HIDE DEF c, o, q
<1>7. o \in DOMAIN tree /\ q \in DOMAIN tree /\ Listed(o, q)
  BY <1>1, <1>3 DEF ChildStands, Listed
<1>8. Between(f, from[o], to[q]) = WithTail(h, h[o], q)
  BY <1>4, <1>7, ListMeans
<1>9. to[c] = from[c] + 1
  BY <1>1, <1>3, SymbolsApart DEF ChildStands
<1> QED
  BY <1>3, <1>4, <1>5, <1>6, <1>8, <1>9

\* An operand with its quantifier.
LEMMA RepetitionNodeMeans ==
    ASSUME Parsed, StateOK,
           NEW w, NEW W, NEW kind, NEW d, NEW f, NEW t, NEW from, NEW to,
           Situated(w, W, kind, d, f, t, from, to), NEW n \in DOMAIN tree,
           NEW h, h = PlacedMeanings(f, from, to),
           tree[n].production = "REPETITION"
    PROVE  h[n] = Quantified(h[tree[n].children[1]],
                             tree[tree[n].children[2]].production, t)
<1> DEFINE o == tree[n].children[1]
           q == tree[n].children[2]
           c == tree[q].children[1]
<1>0. TokensAre(w, W, kind, d) /\ Unfolds(f, w, t, W)
  BY DEF Situated
<1>1. PICK p \in DOMAIN Productions :
         /\ tree[n].production = p /\ Len(Productions[p]) = 2
         /\ Productions[p][1] = "Atom" /\ Productions[p][2] = "Quantifier"
  BY DEF Productions
<1>2. ChildrenStand(n, p, 2, W, kind, d, from, to)
  BY <1>1, ChildPlaced
<1>3. /\ from[o] = from[n] /\ to[q] = to[n]
      /\ \A i \in 1 .. 1 :
            from[tree[n].children[i + 1]] = to[tree[n].children[i]]
      /\ ChildStands(o, p, 1, W, kind, d, from, to)
      /\ ChildStands(q, p, 2, W, kind, d, from, to)
      /\ from[n] \in 0 .. W /\ to[n] \in 0 .. W
  BY <1>2 DEF ChildrenStand
<1>4. to[o] = from[q]
  BY <1>3
<1>5. /\ o \in DOMAIN tree /\ q \in DOMAIN tree
      /\ from[o] \in 0 .. W /\ to[o] \in 0 .. W
      /\ Stands("Atom", kind, d, from[o], to[o])
      /\ tree[o].symbol = "Atom" /\ tree[q].symbol = "Quantifier"
  BY <1>1, <1>3 DEF ChildStands
<1>6. /\ tree[o].production \in DOMAIN Productions
      /\ tree[q].production \in DOMAIN Productions
      /\ HeadOf[tree[o].production] = "Atom"
      /\ HeadOf[tree[q].production] = "Quantifier"
  BY <1>3, <1>5 DEF ChildStands, Nonterminals
<1>7. tree[o].production # "ALTERNATION_TAIL_PIPE"
  BY <1>6 DEF HeadOf
<1>8. /\ h[o] = Between(f, from[o], to[o])
      /\ h[n] = Between(f, from[n], to[n])
  BY <1>5, <1>7, PlacedNode
<1>9. AtomAt(kind, d, from[o], to[o])
  BY <1>5 DEF Stands
<1>10. PICK r \in DOMAIN Productions :
          /\ tree[q].production = r /\ HeadOf[r] = "Quantifier"
  BY <1>6
<1>11. /\ Len(Productions[r]) = 1
       /\ \/ r = "QUANTIFIER_EMPTY" /\ Productions[r][1] = EPSILON
          \/ r = "QUANTIFIER_STAR" /\ Productions[r][1] = "STAR"
          \/ r = "QUANTIFIER_PLUS" /\ Productions[r][1] = "PLUS"
          \/ r = "QUANTIFIER_QUESTION" /\ Productions[r][1] = "QUESTION"
  BY <1>10 DEF Productions, HeadOf
<1>12. ChildrenStand(q, r, 1, W, kind, d, from, to)
  BY <1>5, <1>10, <1>11, ChildPlaced
<1>13. /\ from[c] = from[q] /\ to[c] = to[q]
       /\ ChildStands(c, r, 1, W, kind, d, from, to)
  BY <1>12 DEF ChildrenStand
<1> HIDE DEF o, q, c
<1>14. CASE r = "QUANTIFIER_EMPTY"
  <2>1. to[c] = from[c]
    BY <1>11, <1>13, <1>14 DEF ChildStands, Stands
  <2>2. h[n] = h[o]
    BY <2>1, <1>3, <1>4, <1>8, <1>13
  <2>3. Quantified(h[o], r, t) = h[o]
    BY <1>14 DEF Quantified
  <2> QED
    BY <2>2, <2>3, <1>10 DEF o, q
<1>15. CASE r # "QUANTIFIER_EMPTY"
  <2>1. /\ Productions[r][1] \in Quantifiers
        /\ r = "QUANTIFIER_STAR" => Productions[r][1] = "STAR"
        /\ r = "QUANTIFIER_PLUS" => Productions[r][1] = "PLUS"
        /\ r = "QUANTIFIER_QUESTION" => Productions[r][1] = "QUESTION"
    BY <1>11, <1>15 DEF Quantifiers
  <2>2. to[c] = from[c] + 1 /\ kind[to[c]] = Productions[r][1]
    BY <1>13, <2>1, SymbolsApart DEF ChildStands
  <2>3. to[n] = to[o] + 1 /\ kind[to[n]] = Productions[r][1]
    BY <2>2, <1>3, <1>4, <1>13
  <2>4. kind[to[n]] \in Quantifiers
    BY <2>1, <2>3
  <2>5. /\ kind[to[n]] = "STAR" => Between(f, from[o], to[n]) =
                 Meaning!Powers(Between(f, from[o], to[o]), 0,
                                Meaning!UNBOUNDED, Len(t))
        /\ kind[to[n]] = "PLUS" => Between(f, from[o], to[n]) =
                 Meaning!Powers(Between(f, from[o], to[o]), 1,
                                Meaning!UNBOUNDED, Len(t))
        /\ kind[to[n]] = "QUESTION" => Between(f, from[o], to[n]) =
                 Meaning!Powers(Between(f, from[o], to[o]), 0, 1, Len(t))
    BY ONLY <1>0, <1>3, <1>5, <1>9, <2>3, <2>4, QuantifiedMeans
  <2> HIDE DEF Between
  <2>6. /\ r = "QUANTIFIER_STAR" => h[n] =
                 Meaning!Powers(h[o], 0, Meaning!UNBOUNDED, Len(t))
        /\ r = "QUANTIFIER_PLUS" => h[n] =
                 Meaning!Powers(h[o], 1, Meaning!UNBOUNDED, Len(t))
        /\ r = "QUANTIFIER_QUESTION" => h[n] =
                 Meaning!Powers(h[o], 0, 1, Len(t))
    BY <2>1, <2>3, <2>5, <1>3, <1>8
  <2>7. h[n] = Quantified(h[o], r, t)
    BY <2>6, <1>11, <1>15 DEF Quantified
  <2> QED
    BY <2>7, <1>10 DEF o, q
<1> QED
  BY <1>14, <1>15
\* A group.
LEMMA GroupNodeMeans ==
    ASSUME Parsed, StateOK,
           NEW w, NEW W, NEW kind, NEW d, NEW f, NEW t, NEW from, NEW to,
           Situated(w, W, kind, d, f, t, from, to), NEW n \in DOMAIN tree,
           NEW h, h = PlacedMeanings(f, from, to),
           tree[n].production = "ATOM_GROUP"
    PROVE  h[n] = h[tree[n].children[2]]
<1> DEFINE a == tree[n].children[1]
           o == tree[n].children[2]
           c == tree[n].children[3]
<1>0. TokensAre(w, W, kind, d) /\ Unfolds(f, w, t, W)
  BY DEF Situated
<1>1. PICK p \in DOMAIN Productions :
         /\ tree[n].production = p /\ Len(Productions[p]) = 3
         /\ Productions[p][1] = "LPAREN"
         /\ Productions[p][2] = "Alternation"
         /\ Productions[p][3] = "RPAREN"
         /\ HeadOf[p] = "Atom"
  BY DEF Productions, HeadOf
<1>2. ChildrenStand(n, p, 3, W, kind, d, from, to)
  BY <1>1, ChildPlaced
<1>3. /\ from[a] = from[n] /\ to[c] = to[n]
      /\ \A i \in 1 .. 2 :
            from[tree[n].children[i + 1]] = to[tree[n].children[i]]
      /\ ChildStands(a, p, 1, W, kind, d, from, to)
      /\ ChildStands(o, p, 2, W, kind, d, from, to)
      /\ ChildStands(c, p, 3, W, kind, d, from, to)
      /\ from[n] \in 0 .. W /\ to[n] \in 0 .. W
      /\ Stands("Atom", kind, d, from[n], to[n])
  BY <1>1, <1>2 DEF ChildrenStand
<1>4. to[a] = from[o] /\ to[o] = from[c]
  BY <1>3
<1>5. AtomAt(kind, d, from[n], to[n])
  BY <1>3 DEF Stands
<1>6. h[n] = Between(f, from[n], to[n])
  BY <1>1, PlacedNode
<1> HIDE DEF a, o, c
<1>7. to[a] = from[a] + 1
  BY <1>1, <1>3, SymbolsApart DEF ChildStands, AtomStarts
<1>8. to[c] = from[c] + 1 /\ kind[to[c]] = "RPAREN" /\ from[c] \in 0 .. W
  BY <1>1, <1>3, SymbolsApart DEF ChildStands
<1>9. o \in DOMAIN tree /\ tree[o].symbol = "Alternation"
  BY <1>1, <1>3 DEF ChildStands
<1>10. HeadOf[tree[o].production] = "Alternation"
  BY <1>3, <1>9 DEF ChildStands, Nonterminals
<1>11. tree[o].production # "ALTERNATION_TAIL_PIPE"
  BY <1>10 DEF HeadOf
<1>12. h[o] = Between(f, from[o], to[o])
  BY <1>9, <1>11, PlacedNode
<1>13. kind[to[n]] = "RPAREN"
  BY <1>3, <1>8
<1>14. Between(f, from[n], to[n]) = Between(f, from[n] + 1, to[n] - 1)
  BY ONLY <1>0, <1>3, <1>5, <1>13, GroupMeans
<1>15. from[o] = from[n] + 1 /\ to[o] = to[n] - 1
  BY <1>3, <1>4, <1>7, <1>8
<1>16. h[n] = h[o]
  BY ONLY <1>6, <1>12, <1>14, <1>15
<1> QED
  BY <1>16 DEF o

\* A token.
LEMMA TokenNodeMeans ==
    ASSUME Parsed, StateOK,
           NEW w, NEW W, NEW kind, NEW d, NEW f, NEW t, NEW from, NEW to,
           Situated(w, W, kind, d, f, t, from, to), NEW n \in DOMAIN tree,
           NEW h, h = PlacedMeanings(f, from, to),
           tree[n].production \in AtomProductions \ {"ATOM_GROUP"}
    PROVE  h[n] = Meaning!Atom(tokens[tree[tree[n].children[1]].token], t)
<1> DEFINE c == tree[n].children[1]
<1>0. TokensAre(w, W, kind, d) /\ Unfolds(f, w, t, W) /\ w = tokens
  BY DEF Situated
<1>1. PICK p \in DOMAIN Productions :
         /\ tree[n].production = p /\ Len(Productions[p]) = 1
         /\ Productions[p][1] \in AtomStarts \ {"LPAREN"}
         /\ p # "ALTERNATION_TAIL_PIPE"
  BY DEF Productions, AtomProductions, AtomStarts
<1>2. ChildrenStand(n, p, 1, W, kind, d, from, to)
  BY <1>1, ChildPlaced
<1>3. /\ from[c] = from[n] /\ to[c] = to[n]
      /\ ChildStands(c, p, 1, W, kind, d, from, to)
      /\ from[n] \in 0 .. W /\ to[n] \in 0 .. W
  BY <1>2 DEF ChildrenStand
<1>4. h[n] = Between(f, from[n], to[n])
  BY <1>1, PlacedNode
<1> HIDE DEF c
<1>5. /\ to[c] = from[c] + 1 /\ kind[to[c]] = Productions[p][1]
      /\ tree[c].token = to[c]
  BY <1>1, <1>3, SymbolsApart DEF ChildStands
<1>6. /\ to[n] = from[n] + 1 /\ tree[c].token = to[n]
      /\ kind[to[n]] \in AtomStarts \ {"LPAREN"}
  BY <1>1, <1>3, <1>5
<1>7. Between(f, from[n], to[n]) = Meaning!Atom(w[to[n]], t)
  BY ONLY <1>0, <1>3, <1>6, TokenMeans
<1>8. h[n] = Meaning!Atom(tokens[tree[c].token], t)
  BY ONLY <1>0, <1>4, <1>6, <1>7
<1> QED
  BY <1>8 DEF c

\* What the nodes mean by where they are is what they mean by their children.
LEMMA NodeMeaning ==
    ASSUME Parsed, StateOK,
           NEW w, NEW W, NEW kind, NEW d, NEW f, NEW t, NEW from, NEW to,
           Situated(w, W, kind, d, f, t, from, to), NEW n \in DOMAIN tree,
           NEW h, h = PlacedMeanings(f, from, to)
    PROVE  NodeMeans(h, n, t)
<1>1. ASSUME tree[n].production \in ListProductions \cup ListTails
      PROVE  h[n] = WithTail(h, h[OperandOf(n)], TailOf(n))
  <2>1. CASE tree[n].production = "ALTERNATION_TAIL_PIPE"
    BY <2>1, PipeNodeMeans
  <2>2. CASE tree[n].production # "ALTERNATION_TAIL_PIPE"
    <3>1. tree[n].production \in
            {"ALTERNATION", "CONCATENATION", "CONCATENATION_TAIL_REPETITION"}
      BY <1>1, <2>2 DEF ListProductions, ListTails
    <3> QED
      BY <3>1, ListNodeMeans
  <2> QED
    BY <2>1, <2>2
<1>2. tree[n].production = "REPETITION" =>
         h[n] = Quantified(h[tree[n].children[1]],
                           tree[tree[n].children[2]].production, t)
  BY RepetitionNodeMeans
<1>3. tree[n].production = "ATOM_GROUP" => h[n] = h[tree[n].children[2]]
  BY GroupNodeMeans
<1>4. tree[n].production \in AtomProductions \ {"ATOM_GROUP"} =>
         h[n] = Meaning!Atom(tokens[tree[tree[n].children[1]].token], t)
  BY TokenNodeMeans
<1> QED
  BY ONLY <1>1, <1>2, <1>3, <1>4 DEF NodeMeans
-----------------------------------------------------------------------------
(* What the whole parse tree means.                                        *)

\* The instances of the reference count alike.
LEMMA SameDepths ==
    ASSUME NEW w
    PROVE  /\ \A k : Abs!Kind(w, k) = Meaning!Kind(w, k)
           /\ \A k : Abs!Depth(w, k) = Meaning!Depth(w, k)
<1>1. \A S : Abs!Cardinality(S) = Meaning!Cardinality(S)
  BY DEF Abs!Cardinality, Meaning!Cardinality
<1>2. \A k : Abs!Kind(w, k) = Meaning!Kind(w, k)
  BY DEF Abs!Kind, Meaning!Kind
<1>3. \A k : Abs!Depth(w, k) = Meaning!Depth(w, k)
  BY <1>1, <1>2 DEF Abs!Depth, Meaning!Depth
<1> QED
  BY <1>2, <1>3

\* The kinds and depths of the tokens.
LEMMA TokensGiven ==
    ASSUME tokens \in Inputs, NEW W, W = Len(tokens),
           NEW kind, kind = [k \in 1 .. W |-> tokens[k].terminal],
           NEW d, d = [k \in 0 .. W |-> Meaning!Depth(tokens, k)]
    PROVE  TokensAre(tokens, W, kind, d)
<1>1. W \in Nat
  BY TokenFacts
<1>2. \A k \in 1 .. W : kind[k] = Meaning!Kind(tokens, k)
  BY <1>1 DEF Meaning!Kind
<1>3. ASSUME NEW k \in 0 .. W
      PROVE  d[k] = Meaning!Depth(tokens, k) /\ d[k] \in Int
  <2>1. k \in Nat
    BY <1>1
  <2>2. Abs!Depth(tokens, k) \in Int
    BY <2>1, DepthStep
  <2> QED
    BY <2>2, SameDepths
<1>4. ASSUME NEW k \in 1 .. W
      PROVE  d[k] = d[k - 1] - Closes(kind[k])
  <2>1. k - 1 \in Nat /\ k - 1 + 1 = k /\ k - 1 \in 0 .. W /\ k \in 0 .. W
    BY <1>1
  <2>2. Abs!Depth(tokens, k - 1 + 1)
          = Abs!Depth(tokens, k - 1) - Closes(Abs!Kind(tokens, k - 1 + 1))
    BY <2>1, DepthStep
  <2>3. Abs!Depth(tokens, k)
          = Abs!Depth(tokens, k - 1) - Closes(Abs!Kind(tokens, k))
    BY ONLY <2>1, <2>2
  <2>4. Abs!Kind(tokens, k) = kind[k]
    BY <1>2, SameDepths
  <2>5. Abs!Depth(tokens, k) = d[k] /\ Abs!Depth(tokens, k - 1) = d[k - 1]
    BY <1>3, <2>1, SameDepths
  <2> QED
    BY <2>3, <2>4, <2>5
<1> HIDE DEF TokensAre
<1> QED
  BY <1>1, <1>2, <1>3, <1>4 DEF TokensAre

\* The parser has read all tokens.
LEMMA AllRead ==
    ASSUME LoweringIInv, LoweringSyntax,
           mode = "idle", pc = "done", error = NoError
    PROVE  /\ tokens \in Inputs
           /\ FrontierOK(tree, <<>>, Len(tokens))
           /\ tree[ROOT].symbol = "Regex"
<1>1. IInv /\ SyntaxIInv
  BY DEF LoweringIInv, LoweringSyntax
<1>2. /\ tokens \in Inputs /\ PhaseOK /\ LoopOK
      /\ tree # <<>> => tree[ROOT].symbol = "Regex"
      /\ TypeOK
  BY <1>1 DEF IInv
<1>3. stack = <<>>
  BY <1>2 DEF PhaseOK
<1>4. Current = "END"
  BY <1>1, <1>3 DEF SyntaxIInv
<1>5. /\ FrontierOK(tree, <<>>, read) /\ tree # <<>>
      /\ CostOK(tree, stack, 9 * read - 5)
  BY <1>2, <1>3 DEF LoopOK
<1>6. /\ \A k \in DOMAIN tokens :
            Abs!Kind(tokens, k) \in {"END", "ERROR"} <=> k = Len(tokens)
      /\ Len(tokens) \in Nat \ {0} /\ DOMAIN tokens = 1 .. Len(tokens)
  BY <1>2, ParserAssumption, TokenFacts DEF Abs!IsTokenSequence
<1>7. read \in DOMAIN tokens
  <2>1. read \in 0 .. Len(tokens)
    BY <1>2 DEF TypeOK, StateOK
  <2>2. read # 0
    <3>1. Len(stack) = 0
      BY <1>3, NoElements
    <3>2. Len(tree) <= 9 * read - 5
      BY ONLY <1>5, <3>1 DEF CostOK
    <3>3. PICK N \in Nat \ {0} : N = Len(tree)
      BY <1>1, <1>5, TreeDomain DEF IInv
    <3> QED
      BY ONLY <2>1, <3>2, <3>3, <1>6
  <2> QED
    BY <1>6, <2>1, <2>2
<1>8. Abs!Kind(tokens, read) = "END"
  BY <1>4, <1>6, <1>7 DEF Abs!Kind, Current
<1>9. read = Len(tokens)
  BY <1>6, <1>7, <1>8
<1> QED
  BY <1>2, <1>5, <1>9
\* The meanings h of the nodes add up to the one of the whole pattern, goal.
TreeMeans(h, t, goal) ==
    /\ \A n \in DOMAIN tree : NodeMeans(h, n, t)
    /\ tree[ROOT].production = "REGEX_ALTERNATION_END" =>
          h[tree[ROOT].children[1]] = goal
    /\ tree[ROOT].production = "REGEX_END" =>
          goal = Meaning!Identity(Len(t))

\* The root, with the END of the pattern or with all of the pattern before it.
LEMMA RootMeans ==
    ASSUME Parsed, StateOK,
           NEW w, NEW W, NEW kind, NEW d, NEW f, NEW t, NEW from, NEW to,
           Situated(w, W, kind, d, f, t, from, to), ROOT \in DOMAIN tree,
           f = TokenParts(w, t), NEW h, h = PlacedMeanings(f, from, to)
    PROVE  /\ tree[ROOT].production = "REGEX_ALTERNATION_END" =>
                 h[tree[ROOT].children[1]] = Meaning!TokenSpans(w, t)
           /\ tree[ROOT].production = "REGEX_END" =>
                 Meaning!TokenSpans(w, t) = Meaning!Identity(Len(t))
<1>1. /\ from[ROOT] = 0 /\ to[ROOT] = W
      /\ W \in Nat /\ W = Len(w)
  BY DEF Situated, Placed, TokensAre
<1>2. ASSUME tree[ROOT].production = "REGEX_END"
      PROVE  Meaning!TokenSpans(w, t) = Meaning!Identity(Len(t))
  <2> DEFINE c == tree[ROOT].children[1]
  <2>1. /\ "REGEX_END" \in DOMAIN Productions
        /\ Len(Productions["REGEX_END"]) = 1
        /\ Productions["REGEX_END"][1] = "END"
    BY DEF Productions
  <2>2. ChildrenStand(ROOT, "REGEX_END", 1, W, kind, d, from, to)
    BY <1>2, <2>1, ChildPlaced
  <2>3. /\ from[c] = from[ROOT] /\ to[c] = to[ROOT]
        /\ ChildStands(c, "REGEX_END", 1, W, kind, d, from, to)
    BY <2>2 DEF ChildrenStand
  <2> HIDE DEF c
  <2>4. to[c] = from[c] + 1
    BY <2>1, <2>3, SymbolsApart DEF ChildStands
  <2>5. Len(w) = 1
    BY <1>1, <2>3, <2>4
  <2> QED
    BY <2>5, TokenSpansAre
<1>3. ASSUME tree[ROOT].production = "REGEX_ALTERNATION_END"
      PROVE  h[tree[ROOT].children[1]] = Meaning!TokenSpans(w, t)
  <2> DEFINE o == tree[ROOT].children[1]
             c == tree[ROOT].children[2]
  <2>1. PICK p \in DOMAIN Productions :
           /\ tree[ROOT].production = p /\ Len(Productions[p]) = 2
           /\ Productions[p][1] = "Alternation"
           /\ Productions[p][2] = "END"
    BY <1>3 DEF Productions
  <2>2. ChildrenStand(ROOT, p, 2, W, kind, d, from, to)
    BY <2>1, ChildPlaced
  <2>3. /\ from[o] = from[ROOT] /\ to[c] = to[ROOT]
        /\ \A i \in 1 .. 1 : from[tree[ROOT].children[i + 1]]
                               = to[tree[ROOT].children[i]]
        /\ ChildStands(o, p, 1, W, kind, d, from, to)
        /\ ChildStands(c, p, 2, W, kind, d, from, to)
    BY <2>2 DEF ChildrenStand
  <2>4. to[o] = from[c]
    BY <2>3
  <2> HIDE DEF o, c
  <2>5. to[c] = from[c] + 1 /\ from[c] \in 0 .. W
    BY <2>1, <2>3, SymbolsApart DEF ChildStands
  <2>6. /\ o \in DOMAIN tree /\ tree[o].symbol = "Alternation"
        /\ Stands("Alternation", kind, d, from[o], to[o])
    BY <2>1, <2>3 DEF ChildStands
  <2>7. HeadOf[tree[o].production] = "Alternation"
    BY <2>3, <2>6 DEF ChildStands, Nonterminals
  <2>8. tree[o].production # "ALTERNATION_TAIL_PIPE"
    BY <2>7 DEF HeadOf
  <2>9. h[o] = Between(f, from[o], to[o])
    BY <2>6, <2>8, PlacedNode
  <2>10. from[o] < to[o]
    BY <2>6 DEF Stands, StartsAtom
  <2>11. from[o] = 0 /\ to[o] = W - 1 /\ W # 1
    BY <1>1, <2>3, <2>4, <2>5, <2>10
  <2>12. h[o] = f[<<1, Len(w) - 1>>]
    BY <1>1, <2>9, <2>11 DEF Between
  <2>13. h[o] = Meaning!TokenSpans(w, t)
    BY <1>1, <2>11, <2>12, TokenSpansAre
  <2> QED
    BY <2>13 DEF o
<1> QED
  BY <1>2, <1>3

\* The nodes of the parse tree can be given meanings, by those of their
\* children, of which the one of the root is what the tokens mean.
LEMMA TreeHasMeaning ==
    ASSUME LoweringIInv, LoweringSyntax,
           mode = "idle", pc = "done", error = NoError, NEW t
    PROVE  \E h : TreeMeans(h, t, Meaning!TokenSpans(tokens, t))
<1>1. /\ StateOK /\ Parsed /\ ROOT \in DOMAIN tree
  BY TreeGiven
<1>2. PICK W : W = Len(tokens)
  OBVIOUS
<1>3. tokens \in Inputs /\ FrontierOK(tree, <<>>, W)
  BY <1>2, AllRead
<1>4. PICK kind : kind = [k \in 1 .. W |-> tokens[k].terminal]
  OBVIOUS
<1>5. PICK d : d = [k \in 0 .. W |-> Meaning!Depth(tokens, k)]
  OBVIOUS
<1>6. TokensAre(tokens, W, kind, d)
  BY ONLY <1>2, <1>3, <1>4, <1>5, TokensGiven
<1>7. W \in Nat /\ Depths(W, kind, d)
  BY <1>6, TokensHaveDepths DEF TokensAre
<1>8. PICK from, to : Placed(W, from, to)
  BY ONLY <1>1, <1>3, <1>7, TreeIsPlaced
<1>9. \A n \in DOMAIN tree : NodeStands(n, kind, d, from, to)
  <2>1. \A k \in 1 .. W : kind[k] = tokens[k].terminal
    BY <1>4
  <2> QED
    BY ONLY <1>1, <1>7, <1>8, <2>1, TreeStands
<1>10. PICK f : f = TokenParts(tokens, t)
  OBVIOUS
<1>11. Unfolds(f, tokens, t, W)
  <2>1. W \in Nat
    BY ONLY <1>7
  <2>2. Unfolds(TokenParts(tokens, t), tokens, t, W)
    BY ONLY <1>2, <2>1, TokenPartsExist
  <2> QED
    BY ONLY <1>10, <2>2
<1>12. Situated(tokens, W, kind, d, f, t, from, to)
  BY ONLY <1>6, <1>8, <1>9, <1>11 DEF Situated
<1>13. PICK h : h = PlacedMeanings(f, from, to)
  OBVIOUS
<1>14. \A n \in DOMAIN tree : NodeMeans(h, n, t)
  BY ONLY <1>1, <1>12, <1>13, NodeMeaning
<1>15. /\ tree[ROOT].production = "REGEX_ALTERNATION_END" =>
             h[tree[ROOT].children[1]] = Meaning!TokenSpans(tokens, t)
       /\ tree[ROOT].production = "REGEX_END" =>
             Meaning!TokenSpans(tokens, t) = Meaning!Identity(Len(t))
  BY ONLY <1>1, <1>10, <1>12, <1>13, RootMeans
<1>16. TreeMeans(h, t, Meaning!TokenSpans(tokens, t))
  BY ONLY <1>14, <1>15 DEF TreeMeans
<1> QED
  BY ONLY <1>16
-----------------------------------------------------------------------------
(* What the lowering makes of the parse tree.                              *)

\* What comes behind what.
LEMMA ThenIs ==
    ASSUME NEW R, NEW S, NEW x
    PROVE  x \in Meaning!Then(R, S) <=>
             \E p \in R, q \in S : p[2] = q[1] /\ x = <<p[1], q[2]>>
<1>1. ASSUME x \in Meaning!Then(R, S)
      PROVE  \E p \in R, q \in S : p[2] = q[1] /\ x = <<p[1], q[2]>>
  <2>1. PICK y \in R \X S : y[1][2] = y[2][1] /\ x = <<y[1][1], y[2][2]>>
    BY <1>1 DEF Meaning!Then
  <2>2. y[1] \in R /\ y[2] \in S
    OBVIOUS
  <2> QED
    BY <2>1, <2>2
<1>2. ASSUME NEW p \in R, NEW q \in S, p[2] = q[1], x = <<p[1], q[2]>>
      PROVE  x \in Meaning!Then(R, S)
  <2>1. PICK y : y = <<p, q>>
    OBVIOUS
  <2>2. y \in R \X S /\ y[1] = p /\ y[2] = q
    BY <2>1
  <2> QED
    BY <1>2, <2>2 DEF Meaning!Then
<1> QED
  BY <1>1, <1>2

\* It does not matter what is put together first.
LEMMA ThenAssociates ==
    ASSUME NEW R, NEW S, NEW T
    PROVE  Meaning!Then(R, Meaning!Then(S, T))
             = Meaning!Then(Meaning!Then(R, S), T)
<1>1. ASSUME NEW x, x \in Meaning!Then(R, Meaning!Then(S, T))
      PROVE  x \in Meaning!Then(Meaning!Then(R, S), T)
  <2>1. PICK p \in R, y \in Meaning!Then(S, T) :
           p[2] = y[1] /\ x = <<p[1], y[2]>>
    BY <1>1, ThenIs
  <2>2. PICK q \in S, r \in T : q[2] = r[1] /\ y = <<q[1], r[2]>>
    BY ThenIs
  <2>3. y[1] = q[1] /\ y[2] = r[2]
    BY <2>2
  <2>4. PICK z : z = <<p[1], q[2]>>
    OBVIOUS
  <2>5. z \in Meaning!Then(R, S)
    BY <2>1, <2>3, <2>4, ThenIs
  <2>6. z[1] = p[1] /\ z[2] = q[2]
    BY <2>4
  <2>7. z[2] = r[1] /\ x = <<z[1], r[2]>>
    BY <2>1, <2>2, <2>3, <2>6
  <2> QED
    BY <2>5, <2>7, ThenIs
<1>2. ASSUME NEW x, x \in Meaning!Then(Meaning!Then(R, S), T)
      PROVE  x \in Meaning!Then(R, Meaning!Then(S, T))
  <2>1. PICK z \in Meaning!Then(R, S), r \in T :
           z[2] = r[1] /\ x = <<z[1], r[2]>>
    BY <1>2, ThenIs
  <2>2. PICK p \in R, q \in S : p[2] = q[1] /\ z = <<p[1], q[2]>>
    BY ThenIs
  <2>3. z[1] = p[1] /\ z[2] = q[2]
    BY <2>2
  <2>4. PICK y : y = <<q[1], r[2]>>
    OBVIOUS
  <2>5. y \in Meaning!Then(S, T)
    BY <2>1, <2>3, <2>4, ThenIs
  <2>6. y[1] = q[1] /\ y[2] = r[2]
    BY <2>4
  <2>7. p[2] = y[1] /\ x = <<p[1], y[2]>>
    BY <2>1, <2>2, <2>3, <2>6
  <2> QED
    BY <2>5, <2>7, ThenIs
<1> QED
  BY <1>1, <1>2

\* The same for lists of either kind.
LEMMA JoinedAssociates ==
    ASSUME NEW production, NEW L, NEW M, NEW R
    PROVE  Joined(production, L, Joined(production, M, R))
             = Joined(production, Joined(production, L, M), R)
<1>1. L \cup (M \cup R) = (L \cup M) \cup R
  OBVIOUS
<1>2. Meaning!Then(L, Meaning!Then(M, R))
        = Meaning!Then(Meaning!Then(L, M), R)
  BY ThenAssociates
<1>3. CASE production = "ALTERNATION_TAIL_PIPE"
  BY <1>1, <1>3 DEF Joined
<1>4. CASE production # "ALTERNATION_TAIL_PIPE"
  BY ONLY <1>2, <1>4 DEF Joined
<1> QED
  BY <1>3, <1>4

\* The meaning of a node of the result, if m are those of the others.
AstMeans(m, node, t) ==
    CASE node.type = "EMPTY" -> Meaning!Identity(Len(t))
      [] node.type \in {"LITERAL", "CHARACTER_CLASS"} ->
             {<<i, i + 1>> : i \in {i \in 0 .. Len(t) - 1 :
                                       t[i + 1] \in node.chars}}
      [] node.type = "DOT" -> {<<i, i + 1>> : i \in 0 .. Len(t) - 1}
      [] node.type = "ASSERT_START" -> {<<0, 0>>}
      [] node.type = "ASSERT_END" -> {<<Len(t), Len(t)>>}
      [] node.type = "CONCATENATION" ->
             Meaning!Then(m[node.left], m[node.right])
      [] node.type = "ALTERNATION" -> m[node.left] \cup m[node.right]
      [] node.type = "STAR" ->
             Meaning!Powers(m[node.left], 0, Meaning!UNBOUNDED, Len(t))
      [] node.type = "PLUS" ->
             Meaning!Powers(m[node.left], 1, Meaning!UNBOUNDED, Len(t))
      [] node.type = "OPTIONAL" -> Meaning!Powers(m[node.left], 0, 1, Len(t))
      [] OTHER -> Meaning!Powers(m[node.left], node.minimum, node.maximum,
                                 Len(t))

\* It depends on the children only.
LEMMA MeansByChildren ==
    ASSUME NEW node \in AstNode, NEW t, NEW m, NEW g,
           \A c \in Children(node) : m[c] = g[c]
    PROVE  AstMeans(m, node, t) = AstMeans(g, node, t)
<1>1. node.type \in AstType
  BY DEF AstNode
<1>2. CASE node.type \in LeafType
  <2> QED
    BY <1>2 DEF AstMeans, LeafType
<1>3. CASE node.type \in BinaryType
  <2>1. m[node.left] = g[node.left] /\ m[node.right] = g[node.right]
    BY <1>3 DEF Children, LeafType, BinaryType
  <2> QED
    BY <1>3, <2>1 DEF AstMeans, BinaryType
<1>4. CASE node.type \notin LeafType \cup BinaryType
  <2>1. m[node.left] = g[node.left]
    BY <1>4 DEF Children
  <2> QED
    BY <1>1, <1>4, <2>1
    DEF AstMeans, AstType, LeafType, BinaryType, UnaryType
<1> QED
  BY <1>2, <1>3, <1>4

\* Every node of the result means what its children make it mean.
ResultMeans(m, ns, t) == \A n \in DOMAIN ns : m[n] = AstMeans(m, ns[n], t)

\* A call, if what it waits for means `given`, returns what means `wanted`.
CallMeans(h, m, f, given, wanted) ==
    /\ f.waits \in {"first", "atom"} =>
          given = h[tree[f.node].children[1]] /\ wanted = h[f.node]
    /\ f.waits = "next" =>
          /\ given = h[OperandOf(f.node)]
          /\ wanted = WithTail(h, m[f.held], f.node)
    /\ f.waits = "last" => given = wanted

\* The i-th of K calls waits for what means b[i].
CallsMean(h, m, frs, K, b) ==
    \A i \in 1 .. K : CallMeans(h, m, frs[i], b[i], b[i - 1])

\* The meaning of what is under way: called, left to a tail, or returned.
UnderWay(md, tg, l, h, m) ==
    CASE md = "call" -> h[tg]
      [] md = "tail" -> WithTail(h, m[l], tg)
      [] OTHER -> m[l]

\* What is lowered, and what is yet to be, add up to the goal.
Lowers(h, m, b, K, md, tg, l, frs, ns, t, goal) ==
    /\ TreeMeans(h, t, goal) /\ ResultMeans(m, ns, t)
    /\ K \in Nat /\ K = Len(frs) /\ b[0] = goal
    /\ CallsMean(h, m, frs, K, b)
    /\ UnderWay(md, tg, l, h, m) = b[K]

Lowered(md, tg, l, frs, ns, t, goal) ==
    \E h, m, b, K : Lowers(h, m, b, K, md, tg, l, frs, ns, t, goal)

\* The lowering has not failed so far.
IsLowering(md, l) ==
    md \in {"call", "tail"} \/ (md \in {"return", "over"} /\ l # NULL_NODE)

\* The inductive invariant.
LoweringMeans ==
    IsLowering(mode, left) =>
        \A t \in Texts : Lowered(mode, target, left, frames, ast, t,
                                 Meaning!TokenSpans(tokens, t))

\* A call is put on top, of a node that means what it waits for.
LEMMA PushMeans ==
    ASSUME NEW h, NEW m, NEW b, NEW K, NEW md, NEW tg, NEW l, NEW frs, NEW ns,
           NEW t, NEW goal, Lowers(h, m, b, K, md, tg, l, frs, ns, t, goal),
           frs \in Seq(Frame), NEW f \in Frame,
           NEW frs2, frs2 = Append(frs, f), NEW tg2,
           CallMeans(h, m, f, h[tg2], UnderWay(md, tg, l, h, m))
    PROVE  Lowered("call", tg2, l, frs2, ns, t, goal)
<1>1. /\ TreeMeans(h, t, goal) /\ ResultMeans(m, ns, t)
      /\ K \in Nat /\ K = Len(frs) /\ b[0] = goal
      /\ CallsMean(h, m, frs, K, b)
      /\ UnderWay(md, tg, l, h, m) = b[K]
  BY DEF Lowers
<1>2. /\ Len(frs2) = K + 1
      /\ \A i \in 1 .. K : frs2[i] = frs[i]
      /\ frs2[K + 1] = f
  <2>1. frs \in Seq(Frame) /\ f \in Frame /\ K \in Nat /\ K = Len(frs)
        /\ frs2 = Append(frs, f)
    BY <1>1
  <2> QED
    BY ONLY <2>1, PushedCall
<1>3. PICK c : c = [i \in 0 .. K + 1 |-> IF i = K + 1 THEN h[tg2] ELSE b[i]]
  OBVIOUS
<1>4. /\ c[K + 1] = h[tg2] /\ c[0] = b[0]
      /\ \A i \in 0 .. K : c[i] = b[i]
  BY <1>1, <1>3
<1>5. ASSUME NEW i \in 1 .. K + 1
      PROVE  CallMeans(h, m, frs2[i], c[i], c[i - 1])
  <2>1. CASE i = K + 1
    <3>1. c[i] = h[tg2] /\ c[i - 1] = b[K] /\ frs2[i] = f
      BY <1>1, <1>2, <1>4, <2>1
    <3> QED
      BY ONLY <3>1, <1>1, CallMeans(h, m, f, h[tg2], UnderWay(md, tg, l, h, m))
  <2>2. CASE i \in 1 .. K
    <3>1. c[i] = b[i] /\ c[i - 1] = b[i - 1] /\ frs2[i] = frs[i]
      BY <1>1, <1>2, <1>4, <2>2
    <3>2. CallMeans(h, m, frs[i], b[i], b[i - 1])
      BY <1>1, <2>2 DEF CallsMean
    <3> QED
      BY ONLY <3>1, <3>2
  <2> QED
    BY <1>1, <2>1, <2>2
<1>6. CallsMean(h, m, frs2, K + 1, c)
  BY ONLY <1>5 DEF CallsMean
<1>7. UnderWay("call", tg2, l, h, m) = c[K + 1]
  BY <1>4 DEF UnderWay
<1>8. K + 1 \in Nat /\ K + 1 = Len(frs2) /\ c[0] = goal
  BY <1>1, <1>2, <1>4
<1>9. Lowers(h, m, c, K + 1, "call", tg2, l, frs2, ns, t, goal)
  BY ONLY <1>1, <1>6, <1>7, <1>8 DEF Lowers
<1> QED
  BY ONLY <1>9 DEF Lowered

\* The meanings g are m and, for a node that is made, what its children mean.
IsMade(g, m, N, new, node, t) ==
    /\ \A n \in 1 .. N : g[n] = m[n]
    /\ ResultMeans(g, new, t)
    /\ g[N + 1] = AstMeans(m, node, t)

\* A node is made and means what its children do.
LEMMA MadeMeans ==
    ASSUME NEW m, NEW ns \in Seq(AstNode), NEW t, ResultMeans(m, ns, t),
           NEW N \in Nat, N = Len(ns),
           \A n \in 1 .. N : Children(ns[n]) \subseteq 1 .. N,
           NEW node \in AstNode, Children(node) \subseteq 1 .. N,
           NEW new, new = Append(ns, node)
    PROVE  \E g : IsMade(g, m, N, new, node, t)
<1>1. /\ DOMAIN new = 1 .. N + 1 /\ DOMAIN ns = 1 .. N
      /\ \A n \in 1 .. N : new[n] = ns[n] /\ ns[n] \in AstNode
      /\ new[N + 1] = node
  BY ONLY ns \in Seq(AstNode), N \in Nat, N = Len(ns), node \in AstNode,
          new = Append(ns, node)
<1>2. PICK x : x = AstMeans(m, node, t)
  OBVIOUS
<1>3. PICK g : g = [n \in 1 .. N + 1 |-> IF n = N + 1 THEN x ELSE m[n]]
  OBVIOUS
<1>4. g[N + 1] = x /\ \A n \in 1 .. N : g[n] = m[n]
  BY <1>3
<1>5. ASSUME NEW n \in 1 .. N
      PROVE  g[n] = AstMeans(g, new[n], t)
  <2>1. m[n] = AstMeans(m, ns[n], t)
    BY <1>1 DEF ResultMeans
  <2>2. \A c \in Children(ns[n]) : m[c] = g[c]
    BY <1>4
  <2>3. AstMeans(m, ns[n], t) = AstMeans(g, ns[n], t)
    BY ONLY <1>1, <2>2, MeansByChildren
  <2> QED
    BY ONLY <1>1, <1>4, <2>1, <2>3
<1>6. AstMeans(m, node, t) = AstMeans(g, node, t)
  <2>1. \A c \in Children(node) : m[c] = g[c]
    BY <1>4
  <2> QED
    BY ONLY <2>1, node \in AstNode, MeansByChildren
<1>7. ResultMeans(g, new, t)
  <2>1. \A n \in 1 .. N + 1 : n \in 1 .. N \/ n = N + 1
    OBVIOUS
  <2> QED
    BY ONLY <1>1, <1>2, <1>4, <1>5, <1>6, <2>1 DEF ResultMeans
<1> QED
  BY ONLY <1>2, <1>4, <1>7 DEF IsMade

\* The calls hold nothing that is new.
LEMMA CallsMeanAlike ==
    ASSUME NEW h, NEW m, NEW g, NEW frs, NEW K, NEW b,
           CallsMean(h, m, frs, K, b),
           \A i \in 1 .. K : frs[i].waits = "next" =>
                                m[frs[i].held] = g[frs[i].held]
    PROVE  CallsMean(h, g, frs, K, b)
BY DEF CallsMean, CallMeans
\* The call on top is done: it returns what it was to return.
LEMMA PopMeans ==
    ASSUME NEW h, NEW m, NEW b, NEW K, NEW md, NEW tg, NEW l, NEW frs, NEW ns,
           NEW t, NEW goal, Lowers(h, m, b, K, md, tg, l, frs, ns, t, goal),
           frs \in Seq(Frame), frs # <<>>,
           NEW g, NEW ns2, ResultMeans(g, ns2, t),
           \A i \in 1 .. K : frs[i].waits = "next" =>
                                m[frs[i].held] = g[frs[i].held],
           NEW l2, g[l2] = b[K - 1], NEW tg2
    PROVE  Lowered("return", tg2, l2, Front(frs), ns2, t, goal)
<1>1. /\ TreeMeans(h, t, goal)
      /\ K \in Nat /\ K = Len(frs) /\ b[0] = goal
      /\ CallsMean(h, m, frs, K, b)
  BY DEF Lowers
<1>2. K \in Nat \ {0} /\ K - 1 \in Nat
  BY <1>1
<1>3. /\ Len(Front(frs)) = K - 1
      /\ \A i \in 1 .. K - 1 : Front(frs)[i] = frs[i]
  BY ONLY <1>1, <1>2, frs \in Seq(Frame), TopOf
<1>4. CallsMean(h, g, frs, K, b)
  BY <1>1, CallsMeanAlike
<1>5. CallsMean(h, g, Front(frs), K - 1, b)
  <2>1. ASSUME NEW i \in 1 .. K - 1
        PROVE  CallMeans(h, g, Front(frs)[i], b[i], b[i - 1])
    <3>1. i \in 1 .. K /\ Front(frs)[i] = frs[i]
      BY <1>2, <1>3
    <3>2. CallMeans(h, g, frs[i], b[i], b[i - 1])
      BY ONLY <1>4, <3>1 DEF CallsMean
    <3> QED
      BY ONLY <3>1, <3>2
  <2> QED
    BY ONLY <2>1 DEF CallsMean
<1>6. UnderWay("return", tg2, l2, h, g) = b[K - 1]
  BY DEF UnderWay
<1>7. Lowers(h, g, b, K - 1, "return", tg2, l2, Front(frs), ns2, t, goal)
  BY ONLY <1>1, <1>2, <1>3, <1>5, <1>6, ResultMeans(g, ns2, t) DEF Lowers
<1> QED
  BY ONLY <1>7 DEF Lowered

\* The call on top goes on with the tail of its list.
LEMMA GoOnMeans ==
    ASSUME NEW h, NEW m, NEW b, NEW K, NEW md, NEW tg, NEW l, NEW frs, NEW ns,
           NEW t, NEW goal, Lowers(h, m, b, K, md, tg, l, frs, ns, t, goal),
           frs \in Seq(Frame), frs # <<>>,
           NEW g, NEW ns2, ResultMeans(g, ns2, t),
           \A i \in 1 .. K : frs[i].waits = "next" =>
                                m[frs[i].held] = g[frs[i].held],
           NEW l2, NEW tg2, WithTail(h, g[l2], tg2) = b[K - 1],
           NEW f \in Frame, f.waits = "last"
    PROVE  Lowered("tail", tg2, l2, Append(Front(frs), f), ns2, t, goal)
<1>1. /\ TreeMeans(h, t, goal)
      /\ K \in Nat /\ K = Len(frs) /\ b[0] = goal
      /\ CallsMean(h, m, frs, K, b)
  BY DEF Lowers
<1>2. K \in Nat \ {0} /\ K - 1 \in Nat /\ K - 1 + 1 = K
  BY <1>1
<1>3. /\ Front(frs) \in Seq(Frame) /\ Len(Front(frs)) = K - 1
      /\ \A i \in 1 .. K - 1 : Front(frs)[i] = frs[i]
  BY ONLY <1>1, <1>2, frs \in Seq(Frame), TopOf
<1>4. PICK frs2 : frs2 = Append(Front(frs), f)
  OBVIOUS
<1>5. /\ Len(frs2) = K - 1 + 1
      /\ \A i \in 1 .. K - 1 : frs2[i] = Front(frs)[i]
      /\ frs2[K - 1 + 1] = f
  <2>1. K - 1 \in Nat /\ K - 1 = Len(Front(frs))
    BY <1>2, <1>3
  <2>2. Front(frs) \in Seq(Frame)
    BY <1>3
  <2> QED
    BY ONLY <1>4, <2>1, <2>2, f \in Frame, PushedCall
<1>6. CallsMean(h, g, frs, K, b)
  BY <1>1, CallsMeanAlike
<1>7. PICK c : c = [i \in 0 .. K |-> IF i = K THEN b[K - 1] ELSE b[i]]
  OBVIOUS
<1>8. c[K] = b[K - 1] /\ c[0] = b[0] /\ \A i \in 0 .. K - 1 : c[i] = b[i]
  BY <1>2, <1>7
<1>9. ASSUME NEW i \in 1 .. K
      PROVE  CallMeans(h, g, frs2[i], c[i], c[i - 1])
  <2>1. CASE i = K
    <3>1. frs2[i] = f /\ c[i] = b[K - 1] /\ c[i - 1] = b[K - 1]
      BY <1>2, <1>5, <1>8, <2>1
    <3> QED
      BY <3>1 DEF CallMeans
  <2>2. CASE i \in 1 .. K - 1
    <3>1. frs2[i] = frs[i] /\ c[i] = b[i] /\ c[i - 1] = b[i - 1]
      BY <1>2, <1>3, <1>5, <1>8, <2>2
    <3>2. CallMeans(h, g, frs[i], b[i], b[i - 1])
      BY <1>6 DEF CallsMean
    <3> QED
      BY ONLY <3>1, <3>2
  <2> QED
    BY <1>2, <2>1, <2>2
<1>10. CallsMean(h, g, frs2, K, c)
  BY ONLY <1>9 DEF CallsMean
<1>11. UnderWay("tail", tg2, l2, h, g) = c[K]
  BY <1>8 DEF UnderWay
<1>12. Len(frs2) = K /\ c[0] = goal
  BY <1>1, <1>2, <1>5, <1>8
<1>13. Lowers(h, g, c, K, "tail", tg2, l2, frs2, ns2, t, goal)
  BY ONLY <1>1, <1>10, <1>11, <1>12, ResultMeans(g, ns2, t) DEF Lowers
<1>14. Lowered("tail", tg2, l2, frs2, ns2, t, goal)
  BY ONLY <1>13 DEF Lowered
<1> QED
  BY ONLY <1>4, <1>14
-----------------------------------------------------------------------------
(* Step by step.                                                           *)

\* Any of the calls.
LEMMA AnyCallMeans ==
    ASSUME LoweringIInv, mode \in {"call", "tail"},
           NEW i, NEW waits \in {"atom", "first", "next", "last"}, NEW held,
           Call(i, waits, held), held = OnItsWay(mode, left),
           NEW t, NEW goal, NEW h, NEW m, NEW b, NEW K,
           Lowers(h, m, b, K, mode, target, left, frames, ast, t, goal),
           CallMeans(h, m, [waits |-> waits, node |-> target, held |-> held],
                     h[tree[target].children[i]],
                     UnderWay(mode, target, left, h, m))
    PROVE  Lowered(mode', target', left', frames', ast', t, goal)
<1> DEFINE f == [waits |-> waits, node |-> target, held |-> held]
<1>1. /\ StateOK /\ Parsed
      /\ CallsOK(mode, target, left, frames)
      /\ ResultOK(mode, left, frames, ast, positions, owned)
      /\ TreeOK(tree)
  BY AtWork
<1>2. /\ frames' = Append(frames, f) /\ mode' = "call"
      /\ target' = tree[target].children[i] /\ left' = left
      /\ ast' = ast
  BY DEF Call, Child, ParseNode, nodes
<1>3. f \in Frame
  <2>1. target \in Nat
    BY <1>1, TreeDomain DEF CallsOK
  <2>2. held \in Nat
    <3>1. left \in 0 .. Len(ast) /\ Len(ast) \in Nat
      BY <1>1 DEF ResultOK
    <3> QED
      BY <3>1 DEF OnItsWay, NULL_NODE
  <2> QED
    BY <2>1, <2>2 DEF Frame
<1>4. frames \in Seq(Frame)
  BY <1>1 DEF CallsOK
<1>5. /\ Lowers(h, m, b, K, mode, target, left, frames, ast, t, goal)
      /\ CallMeans(h, m, f, h[target'], UnderWay(mode, target, left, h, m))
  BY <1>2
<1> HIDE DEF f
<1>6. Lowered("call", target', left, frames', ast, t, goal)
  BY ONLY <1>2, <1>3, <1>4, <1>5, PushMeans
<1> QED
  BY ONLY <1>2, <1>6

\* The first operand of a list is called.
LEMMA CallListMeans ==
    ASSUME LoweringIInv, CallList, NEW t, NEW goal,
           Lowered(mode, target, left, frames, ast, t, goal)
    PROVE  Lowered(mode', target', left', frames', ast', t, goal)
<1>1. mode = "call" /\ Call(1, "first", NULL_NODE)
  BY DEF CallList, IsCall
<1>2. PICK h, m, b, K :
         Lowers(h, m, b, K, mode, target, left, frames, ast, t, goal)
  BY DEF Lowered
<1>3. CallMeans(h, m, [waits |-> "first", node |-> target,
                       held |-> NULL_NODE], h[tree[target].children[1]],
                UnderWay(mode, target, left, h, m))
  BY <1>1 DEF CallMeans, UnderWay
<1>4. OnItsWay(mode, left) = NULL_NODE
  BY <1>1 DEF OnItsWay
<1> QED
  BY <1>1, <1>2, <1>3, <1>4, AnyCallMeans

\* The atom is called that a quantifier follows, or does not.
LEMMA CallRepetitionMeans ==
    ASSUME LoweringIInv, CallRepetition, NEW t, NEW goal,
           Lowered(mode, target, left, frames, ast, t, goal)
    PROVE  Lowered(mode', target', left', frames', ast', t, goal)
<1>1. mode = "call" /\ Call(1, "atom", NULL_NODE)
  BY DEF CallRepetition, IsCall
<1>2. PICK h, m, b, K :
         Lowers(h, m, b, K, mode, target, left, frames, ast, t, goal)
  BY DEF Lowered
<1>3. CallMeans(h, m, [waits |-> "atom", node |-> target,
                       held |-> NULL_NODE], h[tree[target].children[1]],
                UnderWay(mode, target, left, h, m))
  BY <1>1 DEF CallMeans, UnderWay
<1>4. OnItsWay(mode, left) = NULL_NODE
  BY <1>1 DEF OnItsWay
<1> QED
  BY <1>1, <1>2, <1>3, <1>4, AnyCallMeans

\* What is in a group is called.
LEMMA CallGroupMeans ==
    ASSUME LoweringIInv, CallGroup, NEW t, NEW goal,
           Lowered(mode, target, left, frames, ast, t, goal)
    PROVE  Lowered(mode', target', left', frames', ast', t, goal)
<1>1. /\ mode = "call" /\ Call(2, "last", NULL_NODE)
      /\ tree[target].production = "ATOM_GROUP"
  BY DEF CallGroup, IsCall, ParseNode
<1>2. PICK h, m, b, K :
         Lowers(h, m, b, K, mode, target, left, frames, ast, t, goal)
  BY DEF Lowered
<1>3. target \in DOMAIN tree
  BY <1>1, AtWork DEF CallsOK
<1>4. NodeMeans(h, target, t)
  BY <1>2, <1>3 DEF Lowers, TreeMeans
<1>5. h[tree[target].children[2]] = h[target]
  BY <1>1, <1>4 DEF NodeMeans
<1>6. CallMeans(h, m, [waits |-> "last", node |-> target,
                       held |-> NULL_NODE], h[tree[target].children[2]],
                UnderWay(mode, target, left, h, m))
  BY <1>1, <1>5 DEF CallMeans, UnderWay
<1>7. OnItsWay(mode, left) = NULL_NODE
  BY <1>1 DEF OnItsWay
<1> QED
  BY <1>1, <1>2, <1>6, <1>7, AnyCallMeans

\* Where the operand of a tail is, and the tail of a list behind it.
LEMMA OperandsAre ==
    ASSUME Parsed, StateOK, NEW n \in DOMAIN tree,
           tree[n].production \in ListProductions \cup ListTails
    PROVE  /\ OperandOf(n) = tree[n].children[Len(tree[n].children) - 1]
           /\ tree[n].production \in ListProductions =>
                 OperandOf(n) = tree[n].children[1]
           /\ TailOf(n) = Last(tree[n].children)
           /\ TailOf(n) \in DOMAIN tree
           /\ tree[TailOf(n)].production \in ListTails \cup EmptyTails
           /\ tree[n].production \in ListTails =>
                 tree[TailOf(n)].production
                     \in EmptyTails \cup {tree[n].production}
<1>1. PICK p \in DOMAIN Productions : tree[n].production = p
  BY DEF ListProductions, ListTails, Productions
<1>2. PICK k : k = IF p = "ALTERNATION_TAIL_PIPE" THEN 3 ELSE 2
  OBVIOUS
<1>3. k \in 2 .. 3 /\ Len(Productions[p]) = k
  <2>1. CASE p = "ALTERNATION_TAIL_PIPE"
    BY <1>2, <2>1 DEF Productions
  <2>2. CASE p # "ALTERNATION_TAIL_PIPE"
    <3>1. p \in {"ALTERNATION", "CONCATENATION",
                 "CONCATENATION_TAIL_REPETITION"}
      BY <1>1, <2>2 DEF ListProductions, ListTails
    <3>2. Len(Productions[p]) = 2
      BY <3>1 DEF Productions
    <3> QED
      BY ONLY <1>2, <2>2, <3>2
  <2> QED
    BY <2>1, <2>2
<1>4. PICK symbol : symbol = Productions[p][k]
  OBVIOUS
<1>5. /\ symbol \in Tails /\ symbol \in Nonterminals
      /\ p = "ALTERNATION_TAIL_PIPE" => symbol = "AlternationTail"
      /\ p = "CONCATENATION_TAIL_REPETITION" => symbol = "ConcatenationTail"
  BY <1>1, <1>2, <1>4
  DEF ListProductions, ListTails, Productions, Tails, Nonterminals
<1>6. k \in 1 .. 3 /\ k \in 1 .. k
  BY <1>3
<1>7. /\ Len(tree[n].children) = k
      /\ tree[n].children[k] \in DOMAIN tree
      /\ TailOK(n)
  BY <1>1, <1>3, <1>4, <1>5, <1>6, ChildIs
<1>8. TailOf(n) = tree[n].children[k]
      /\ OperandOf(n) = tree[n].children[k - 1]
  BY <1>1, <1>2 DEF TailOf, OperandOf
<1>9. Last(tree[n].children) = tree[n].children[k]
  BY <1>7 DEF Last
<1>10. tree[TailOf(n)].symbol = symbol
  <2>1. ExpandedOK(tree) /\ p # NONE
    BY DEF Parsed, Productions, NONE
  <2> QED
    BY <1>1, <1>3, <1>4, <1>6, <1>7, <1>8, <2>1 DEF ExpandedOK
<1>11. /\ tree[TailOf(n)].production \in DOMAIN Productions
       /\ HeadOf[tree[TailOf(n)].production] = symbol
  BY <1>5, <1>7, <1>8, <1>10, NodeIs
<1>12. ASSUME p \in ListTails
       PROVE  tree[TailOf(n)].production \in EmptyTails \cup {p}
  <2>1. PICK q \in DOMAIN Productions :
           q = tree[TailOf(n)].production /\ HeadOf[q] = symbol
    BY <1>11
  <2>2. CASE p = "ALTERNATION_TAIL_PIPE"
    BY <1>5, <2>1, <2>2 DEF Productions, HeadOf, EmptyTails
  <2>3. CASE p = "CONCATENATION_TAIL_REPETITION"
    BY <1>5, <2>1, <2>3 DEF Productions, HeadOf, EmptyTails
  <2> QED
    BY <1>12, <2>2, <2>3 DEF ListTails
<1>13. p \in ListProductions => k - 1 = 1
  BY <1>2 DEF ListProductions
<1>14. tree[TailOf(n)].production \in ListTails \cup EmptyTails
  BY <1>7, <1>8, <1>9 DEF TailOK
<1> QED
  BY <1>1, <1>7, <1>8, <1>9, <1>12, <1>13, <1>14
\* The next operand of a list is called, and what there is held.
LEMMA TailGoesOnMeans ==
    ASSUME LoweringIInv, TailGoesOn, NEW t, NEW goal,
           Lowered(mode, target, left, frames, ast, t, goal)
    PROVE  Lowered(mode', target', left', frames', ast', t, goal)
<1>1. /\ mode = "tail" /\ Call(Operand, "next", left)
      /\ tree[target].production \in ListTails
  BY DEF TailGoesOn, ParseNode, ListTails
<1>2. PICK h, m, b, K :
         Lowers(h, m, b, K, mode, target, left, frames, ast, t, goal)
  BY DEF Lowered
<1>3. Parsed /\ StateOK /\ target \in DOMAIN tree
  BY <1>1, AtWork DEF CallsOK
<1>4. OperandOf(target) = tree[target].children[Operand]
  BY <1>1, <1>3, OperandsAre DEF Operand, ParseNode
<1>5. CallMeans(h, m, [waits |-> "next", node |-> target, held |-> left],
                h[tree[target].children[Operand]],
                UnderWay(mode, target, left, h, m))
  BY <1>1, <1>4 DEF CallMeans, UnderWay
<1>6. OnItsWay(mode, left) = left
  BY <1>1 DEF OnItsWay
<1> QED
  BY <1>1, <1>2, <1>5, <1>6, AnyCallMeans

\* An empty tail returns what it was given.
LEMMA TailEndsMeans ==
    ASSUME LoweringIInv, TailEnds, NEW t, NEW goal,
           Lowered(mode, target, left, frames, ast, t, goal)
    PROVE  Lowered(mode', target', left', frames', ast', t, goal)
<1>1. /\ mode = "tail" /\ tree[target].production \in EmptyTails
      /\ mode' = "return"
      /\ UNCHANGED <<target, left, frames, ast>>
  BY DEF TailEnds, ParseNode, EmptyTails, nodes
<1>2. PICK h, m, b, K :
         Lowers(h, m, b, K, mode, target, left, frames, ast, t, goal)
  BY DEF Lowered
<1>3. UnderWay("return", target, left, h, m)
        = UnderWay(mode, target, left, h, m)
  BY <1>1 DEF UnderWay, WithTail
<1>4. Lowers(h, m, b, K, "return", target, left, frames, ast, t, goal)
  BY ONLY <1>2, <1>3 DEF Lowers
<1> QED
  BY <1>1, <1>4 DEF Lowered

\* What returning calls find, with their meanings.
LEMMA ReturnMeans ==
    ASSUME LoweringIInv, mode = "return", frames # <<>>, left # NULL_NODE,
           NEW t, NEW goal, NEW h, NEW m, NEW b, NEW K,
           Lowers(h, m, b, K, mode, target, left, frames, ast, t, goal)
    PROVE  /\ Parsed /\ StateOK /\ frames \in Seq(Frame)
           /\ Caller = Last(frames) /\ Caller \in Frame /\ WaitsOK(Caller)
           /\ Caller.node \in DOMAIN tree
           /\ NodeMeans(h, Caller.node, t)
           /\ CallMeans(h, m, Caller, m[left], b[K - 1])
           /\ ResultMeans(m, ast, t) /\ K \in Nat
<1>1. PICK T : T = Len(tokens)
  OBVIOUS
<1>2. StateOK
  BY ReturnFacts, AtWork
<1>3. /\ Parsed /\ frames \in Seq(Frame)
      /\ Caller = Last(frames) /\ Caller \in Frame /\ WaitsOK(Caller)
      /\ Caller.node \in DOMAIN tree
  <2>1. T \in Nat
    BY <1>1, AtWork, TokenFacts DEF Parsed
  <2> QED
    BY <1>1, <2>1, ReturnFacts
<1>4. /\ TreeMeans(h, t, goal) /\ ResultMeans(m, ast, t)
      /\ K \in Nat /\ K = Len(frames)
      /\ CallsMean(h, m, frames, K, b)
      /\ UnderWay(mode, target, left, h, m) = b[K]
  BY DEF Lowers
<1>5. K \in Nat \ {0}
  BY <1>3, <1>4, TopOf
<1>6. Last(frames) = frames[K]
  BY <1>3, <1>4, TopOf
<1>7. CallMeans(h, m, frames[K], b[K], b[K - 1])
  BY ONLY <1>4, <1>5 DEF CallsMean
<1>8. m[left] = b[K]
  BY <1>4 DEF UnderWay
<1>9. CallMeans(h, m, Caller, m[left], b[K - 1])
  BY ONLY <1>3, <1>6, <1>7, <1>8
<1>10. NodeMeans(h, Caller.node, t)
  BY <1>3, <1>4 DEF TreeMeans
<1> QED
  BY ONLY <1>2, <1>3, <1>4, <1>9, <1>10

\* A group, or a list that is done, returns what its call returned.
LEMMA ReturnLastMeans ==
    ASSUME LoweringIInv, ReturnLast, NEW t, NEW goal,
           Lowered(mode, target, left, frames, ast, t, goal)
    PROVE  Lowered(mode', target', left', frames', ast', t, goal)
<1>1. /\ mode = "return" /\ frames # <<>> /\ Caller.waits = "last"
      /\ left # NULL_NODE /\ frames' = Front(frames)
      /\ UNCHANGED <<mode, target, left, ast>>
  BY DEF ReturnLast, IsReturn, Leave, nodes
<1>2. PICK h, m, b, K :
         Lowers(h, m, b, K, mode, target, left, frames, ast, t, goal)
  BY DEF Lowered
<1>3. /\ frames \in Seq(Frame) /\ ResultMeans(m, ast, t)
      /\ CallMeans(h, m, Caller, m[left], b[K - 1])
  BY <1>1, <1>2, ReturnMeans
<1>4. m[left] = b[K - 1]
  BY <1>1, <1>3 DEF CallMeans
<1>5. Lowered("return", target, left, Front(frames), ast, t, goal)
  BY ONLY <1>1, <1>2, <1>3, <1>4, PopMeans
<1> QED
  BY ONLY <1>1, <1>5

\* The first operand of a list is handed to the tail.
LEMMA ReturnFirstMeans ==
    ASSUME LoweringIInv, ReturnFirst, NEW t, NEW goal,
           Lowered(mode, target, left, frames, ast, t, goal)
    PROVE  Lowered(mode', target', left', frames', ast', t, goal)
<1> DEFINE n == Caller.node
           f == [waits |-> "last", node |-> n, held |-> NULL_NODE]
<1>1. /\ mode = "return" /\ frames # <<>> /\ Caller.waits = "first"
      /\ left # NULL_NODE /\ frames' = Append(Front(frames), f)
      /\ mode' = "tail" /\ target' = Last(tree[n].children)
      /\ UNCHANGED <<left, ast>>
  BY DEF ReturnFirst, IsReturn, GoOnWithTail, nodes
<1>2. PICK h, m, b, K :
         Lowers(h, m, b, K, mode, target, left, frames, ast, t, goal)
  BY DEF Lowered
<1>3. /\ frames \in Seq(Frame) /\ ResultMeans(m, ast, t)
      /\ CallMeans(h, m, Caller, m[left], b[K - 1])
      /\ Parsed /\ StateOK /\ n \in DOMAIN tree
      /\ WaitsOK(Caller) /\ NodeMeans(h, n, t)
  BY <1>1, <1>2, ReturnMeans
<1>4. tree[n].production \in ListProductions
  BY <1>1, <1>3 DEF WaitsOK
<1>5. f \in Frame /\ f.waits = "last"
  BY <1>3, TreeDomain DEF Frame, NULL_NODE, Parsed
<1>6. m[left] = h[tree[n].children[1]] /\ b[K - 1] = h[n]
  BY <1>1, <1>3 DEF CallMeans
<1> HIDE DEF n, f
<1>7. OperandOf(n) = tree[n].children[1] /\ TailOf(n) = target'
  BY <1>1, <1>3, <1>4, OperandsAre
<1>8. h[n] = WithTail(h, h[OperandOf(n)], TailOf(n))
  BY <1>3, <1>4 DEF NodeMeans
<1>9. WithTail(h, m[left], target') = b[K - 1]
  BY <1>6, <1>7, <1>8
<1>10. Lowered("tail", target', left, Append(Front(frames), f), ast, t, goal)
  BY ONLY <1>1, <1>2, <1>3, <1>5, <1>9, GoOnMeans
<1> QED
  BY ONLY <1>1, <1>10
\* Before a node is made: what there is of the result.
LEMMA ResultIsWhole ==
    ASSUME LoweringIInv, WholeOK, mode \in {"call", "return"},
           IsLowering(mode, left), NEW N, N = Len(ast)
    PROVE  /\ N \in Nat /\ ast \in Seq(AstNode) /\ frames \in Seq(Frame)
           /\ \A n \in 1 .. N : Children(ast[n]) \subseteq 1 .. N
           /\ \A i \in DOMAIN frames : frames[i].waits = "next" =>
                                          frames[i].held \in 1 .. N
           /\ left # NULL_NODE => left \in 1 .. N
<1>1. /\ CallsOK(mode, target, left, frames)
      /\ ResultOK(mode, left, frames, ast, positions, owned)
  BY AtWork
<1>2. /\ N \in Nat /\ DOMAIN ast = 1 .. N
      /\ HeldBy(Holding(OnItsWay(mode, left), frames)) \subseteq owned
      /\ owned \subseteq 1 .. N
  BY <1>1, ResultFacts
<1>3. owned = 1 .. N
  BY <1>2 DEF WholeOK, IsLowering
<1>4. \A n \in 1 .. N : Children(ast[n]) \subseteq 1 .. N
  BY <1>1, <1>3 DEF ResultOK, OwnedOK
<1>5. ast \in Seq(AstNode) /\ frames \in Seq(Frame)
  BY <1>1 DEF ResultOK, CallsOK
<1>6. ASSUME NEW i \in DOMAIN frames, frames[i].waits = "next"
      PROVE  frames[i].held \in 1 .. N
  <2>1. PICK K \in Nat : K = Len(frames) /\ DOMAIN frames = 1 .. K
    BY <1>5
  <2>2. i \in 1 .. K /\ i # 0 /\ i > 0
    BY <2>1
  <2>3. frames[i].held # NULL_NODE
    BY <1>1, <1>6 DEF CallsOK, WaitsOK
  <2>4. PICK x : x = Holding(OnItsWay(mode, left), frames)
    OBVIOUS
  <2>5. i \in DOMAIN x /\ x[i] = frames[i].held
    BY <2>1, <2>2, <2>4 DEF Holding
  <2>6. frames[i].held \in HeldBy(x)
    BY <2>3, <2>5 DEF HeldBy
  <2> QED
    BY <1>2, <2>4, <2>6
<1>7. left # NULL_NODE => left \in 1 .. N
  BY <1>1, <1>2 DEF ResultOK, NULL_NODE
<1> QED
  BY <1>2, <1>4, <1>5, <1>6, <1>7

\* A node is made while calls wait.
LEMMA MakeMeans ==
    ASSUME LoweringIInv, WholeOK, mode \in {"call", "return"},
           IsLowering(mode, left), NEW t, NEW goal, NEW h, NEW m, NEW b, NEW K,
           Lowers(h, m, b, K, mode, target, left, frames, ast, t, goal),
           NEW N, N = Len(ast),
           NEW node \in AstNode, Children(node) \subseteq 1 .. N,
           ast' = Append(ast, node)
    PROVE  \E g : /\ ResultMeans(g, ast', t)
                  /\ g[N + 1] = AstMeans(m, node, t)
                  /\ \A i \in 1 .. K : frames[i].waits = "next" =>
                        m[frames[i].held] = g[frames[i].held]
<1>1. /\ N \in Nat /\ ast \in Seq(AstNode) /\ frames \in Seq(Frame)
      /\ \A n \in 1 .. N : Children(ast[n]) \subseteq 1 .. N
      /\ \A i \in DOMAIN frames : frames[i].waits = "next" =>
                                     frames[i].held \in 1 .. N
  BY ResultIsWhole
<1>2. ResultMeans(m, ast, t) /\ K \in Nat /\ K = Len(frames)
  BY DEF Lowers
<1>3. DOMAIN frames = 1 .. K
  BY <1>1, <1>2
<1>4. /\ node \in AstNode /\ Children(node) \subseteq 1 .. N
      /\ ast' = Append(ast, node) /\ N = Len(ast)
  OBVIOUS
<1>5. PICK g : IsMade(g, m, N, ast', node, t)
  <2>1. /\ ast \in Seq(AstNode) /\ ResultMeans(m, ast, t)
        /\ N \in Nat /\ N = Len(ast)
        /\ \A n \in 1 .. N : Children(ast[n]) \subseteq 1 .. N
        /\ node \in AstNode /\ Children(node) \subseteq 1 .. N
        /\ ast' = Append(ast, node)
    BY <1>1, <1>2, <1>4
  <2> QED
    BY ONLY <2>1, MadeMeans
<1>6. \A i \in 1 .. K : frames[i].waits = "next" =>
         m[frames[i].held] = g[frames[i].held]
  BY <1>1, <1>3, <1>5 DEF IsMade
<1> QED
  BY ONLY <1>5, <1>6 DEF IsMade

\* The node that Make makes.
AstNodeOf(type, chars, l, r) ==
    [type |-> type, chars |-> chars, left |-> l, right |-> r,
     minimum |-> 0, maximum |-> 0]

\* A leaf means what its token means.
LEMMA LeafNodeMeans ==
    ASSUME NEW m, NEW t, NEW node, NEW type, NEW chars,
           node.type = type, node.chars = chars,
           NEW word, NEW symbol, word.terminal = symbol, chars = word.chars,
           NEW p \in {"ATOM_LITERAL", "ATOM_DOT", "ATOM_CLASS", "ATOM_CARET",
                      "ATOM_DOLLAR"},
           p = "ATOM_LITERAL" => symbol = "LITERAL" /\ type = "LITERAL",
           p = "ATOM_DOT" => symbol = "DOT" /\ type = "DOT",
           p = "ATOM_CLASS" => symbol = "CLASS" /\ type = "CHARACTER_CLASS",
           p = "ATOM_CARET" => symbol = "CARET" /\ type = "ASSERT_START",
           p = "ATOM_DOLLAR" => symbol = "DOLLAR" /\ type = "ASSERT_END"
    PROVE  AstMeans(m, node, t) = Meaning!Atom(word, t)
<1>1. CASE p \in {"ATOM_LITERAL", "ATOM_CLASS"}
  <2>1. /\ node.type \in {"LITERAL", "CHARACTER_CLASS"}
        /\ word.terminal \in {"LITERAL", "CLASS"}
    BY <1>1
  <2>2. AstMeans(m, node, t) =
          {<<i, i + 1>> : i \in {i \in 0 .. Len(t) - 1 : t[i + 1] \in chars}}
    BY ONLY <2>1, node.chars = chars DEF AstMeans
  <2>3. Meaning!Atom(word, t) =
          {<<i, i + 1>> : i \in {i \in 0 .. Len(t) - 1 : t[i + 1] \in chars}}
    BY ONLY <2>1, chars = word.chars DEF Meaning!Atom
  <2> QED
    BY ONLY <2>2, <2>3
<1>2. CASE p = "ATOM_DOT"
  BY <1>2 DEF AstMeans, Meaning!Atom
<1>3. CASE p = "ATOM_CARET"
  BY <1>3 DEF AstMeans, Meaning!Atom
<1>4. CASE p = "ATOM_DOLLAR"
  BY <1>4 DEF AstMeans, Meaning!Atom
<1> QED
  BY <1>1, <1>2, <1>3, <1>4

\* The node that is made of an atom which is a token.
IsLeaf(n, token, node) ==
    /\ n \in DOMAIN tree
    /\ tree[n].production \in AtomProductions \ {"ATOM_GROUP"}
    /\ token = tree[tree[n].children[1]].token
    /\ node = AstNodeOf(AtomType(tree[n].production), tokens[token].chars,
                        NULL_NODE, NULL_NODE)

\* It means what the token means.
MeansToken(m, node, t, token) ==
    /\ AstMeans(m, node, t) = Meaning!Atom(tokens[token], t)
    /\ node \in AstNode /\ Children(node) = {}

\* The token of an atom is of the kind that the production is for.
LEMMA LeafMeans ==
    ASSUME Parsed, StateOK, NEW n, NEW token, NEW node, IsLeaf(n, token, node),
           NEW m, NEW t
    PROVE  MeansToken(m, node, t, token)
<1> DEFINE c == tree[n].children[1]
<1>0. /\ n \in DOMAIN tree /\ token = tree[c].token
      /\ tree[n].production \in AtomProductions \ {"ATOM_GROUP"}
      /\ node = AstNodeOf(AtomType(tree[n].production), tokens[token].chars,
                          NULL_NODE, NULL_NODE)
  BY DEF IsLeaf
<1>1. PICK p \in DOMAIN Productions :
         /\ tree[n].production = p /\ p \in AtomProductions \ {"ATOM_GROUP"}
  BY <1>0 DEF AtomProductions, Productions
<1>2. PICK symbol : symbol = Productions[p][1]
  OBVIOUS
<1>3. /\ Len(Productions[p]) = 1 /\ symbol \in Terminals
      /\ p = "ATOM_LITERAL" => symbol = "LITERAL"
      /\ p = "ATOM_DOT" => symbol = "DOT"
      /\ p = "ATOM_CLASS" => symbol = "CLASS"
      /\ p = "ATOM_CARET" => symbol = "CARET"
      /\ p = "ATOM_DOLLAR" => symbol = "DOLLAR"
  BY <1>1, <1>2 DEF AtomProductions, Productions, Terminals, AtomStarts
<1>4. 1 \in 1 .. 3 /\ 1 \in 1 .. 1
  BY ONLY 1 \in Nat
<1>5. /\ Len(tree[n].children) = 1
      /\ c \in DOMAIN tree /\ TokenOK(c)
  <2>1. /\ Parsed /\ StateOK /\ n \in DOMAIN tree
        /\ p \in DOMAIN Productions /\ tree[n].production = p
        /\ Len(Productions[p]) = 1 /\ symbol = Productions[p][1]
        /\ symbol \in Terminals
    BY <1>0, <1>1, <1>2, <1>3
  <2> QED
    BY ONLY <1>4, <2>1, ChildIs
<1>6. tree[c].symbol = symbol
  <2>1. ExpandedOK(tree) /\ p # NONE
    BY DEF Parsed, Productions, NONE
  <2> QED
    BY <1>0, <1>1, <1>2, <1>3, <1>4, <1>5, <2>1 DEF ExpandedOK
<1>7. tokens \in Inputs /\ TokensOK(tree)
  BY DEF Parsed
<1>8. /\ token \in DOMAIN tokens /\ token # 0
      /\ tokens \in Seq(Abs!Token)
  <2>1. token \in DOMAIN tokens
    BY <1>0, <1>5 DEF TokenOK
  <2> QED
    BY <1>7, <2>1, TokenFacts, ParserAssumption DEF Abs!IsTokenSequence
<1>9. PICK word : word = tokens[token]
  BY Zenon
<1>10. word.terminal = symbol
  <2>1. token = tree[c].token
    BY <1>0
  <2> HIDE DEF c
  <2> QED
    BY ONLY <1>5, <1>6, <1>7, <1>8, <1>9, <2>1 DEF TokensOK
<1>11. PICK chars : chars = word.chars
  BY Zenon
<1>12. PICK type : type = AtomType(p)
  BY Zenon
<1>13. /\ p \in {"ATOM_LITERAL", "ATOM_DOT", "ATOM_CLASS", "ATOM_CARET",
                 "ATOM_DOLLAR"}
       /\ p = "ATOM_LITERAL" => type = "LITERAL"
       /\ p = "ATOM_DOT" => type = "DOT"
       /\ p = "ATOM_CLASS" => type = "CHARACTER_CLASS"
       /\ p = "ATOM_CARET" => type = "ASSERT_START"
       /\ p = "ATOM_DOLLAR" => type = "ASSERT_END"
  BY <1>1, <1>12 DEF AtomProductions, AtomType
<1>14. type \in LeafType
  BY ONLY <1>13 DEF LeafType
<1>15. node = [type |-> type, chars |-> chars, left |-> NULL_NODE,
               right |-> NULL_NODE, minimum |-> 0, maximum |-> 0]
  BY <1>0, <1>1, <1>9, <1>11, <1>12, Zenon DEF AstNodeOf
<1>16. node \in AstNode /\ Children(node) = {}
  <2>1. word \in Abs!Token
    BY ONLY <1>8, <1>9
  <2>2. chars \in SUBSET Chars /\ NULL_NODE \in Nat
    BY ONLY <1>11, <2>1 DEF Abs!Token, NULL_NODE
  <2> QED
    BY ONLY <1>14, <1>15, <2>2, MadeNodes
<1>17. node.type = type /\ node.chars = chars
  BY ONLY <1>15
<1>18. AstMeans(m, node, t) = Meaning!Atom(word, t)
  BY ONLY <1>3, <1>10, <1>11, <1>13, <1>17, LeafNodeMeans
<1> QED
  BY ONLY <1>9, <1>16, <1>18 DEF MeansToken

\* An atom that is a token returns a leaf.
LEMMA LowerLeafMeans ==
    ASSUME LoweringIInv, WholeOK, LowerLeaf, left' # NULL_NODE,
           NEW t, NEW goal,
           Lowered(mode, target, left, frames, ast, t, goal)
    PROVE  Lowered(mode', target', left', frames', ast', t, goal)
<1>1. PICK token : token = tree[tree[target].children[1]].token
  OBVIOUS
<1>2. PICK node : node = AstNodeOf(AtomType(tree[target].production),
                                   tokens[token].chars, NULL_NODE, NULL_NODE)
  OBVIOUS
<1>3. PICK N : N = Len(ast)
  OBVIOUS
<1>4. /\ mode = "call" /\ mode' = "return"
      /\ tree[target].production \in AtomProductions \ {"ATOM_GROUP"}
      /\ target' = target /\ frames' = frames
      /\ ast' = Append(ast, node) /\ left' = N + 1
  BY <1>1, <1>2, <1>3
  DEF LowerLeaf, IsCall, ParseNode, Child, AtomProductions, Return,
      LowerFails, Make, AstNodeOf
<1>5. PICK h, m, b, K :
         Lowers(h, m, b, K, mode, target, left, frames, ast, t, goal)
  BY DEF Lowered
<1>6. Parsed /\ StateOK /\ target \in DOMAIN tree
  <2>1. /\ mode = "call" /\ Parsed /\ StateOK
        /\ CallsOK(mode, target, left, frames)
    BY <1>4, AtWork
  <2> QED
    BY ONLY <2>1 DEF CallsOK
<1>7. /\ AstMeans(m, node, t) = Meaning!Atom(tokens[token], t)
      /\ node \in AstNode /\ Children(node) = {}
  <2>1. IsLeaf(target, token, node)
    BY <1>1, <1>2, <1>4, <1>6, Zenon DEF IsLeaf
  <2>2. MeansToken(m, node, t, token)
    BY ONLY <1>6, <2>1, LeafMeans
  <2> QED
    BY ONLY <2>2 DEF MeansToken
<1>8. Children(node) \subseteq 1 .. N /\ mode \in {"call", "return"}
      /\ IsLowering(mode, left)
  BY <1>4, <1>7 DEF IsLowering
<1>9. PICK g : /\ ResultMeans(g, ast', t)
               /\ g[N + 1] = AstMeans(m, node, t)
               /\ \A i \in 1 .. K : frames[i].waits = "next" =>
                     m[frames[i].held] = g[frames[i].held]
  BY ONLY LoweringIInv, WholeOK, <1>3, <1>4, <1>5, <1>7, <1>8, MakeMeans
<1>10. /\ TreeMeans(h, t, goal) /\ K \in Nat /\ K = Len(frames)
       /\ b[0] = goal /\ CallsMean(h, m, frames, K, b)
       /\ h[target] = b[K]
  BY <1>4, <1>5 DEF Lowers, UnderWay
<1>11. NodeMeans(h, target, t)
  BY <1>6, <1>10 DEF TreeMeans
<1>12. h[target] = Meaning!Atom(tokens[token], t)
  BY <1>1, <1>4, <1>11 DEF NodeMeans
<1>13. CallsMean(h, g, frames, K, b)
  BY <1>9, <1>10, CallsMeanAlike
<1>14. UnderWay("return", target, N + 1, h, g) = b[K]
  BY <1>7, <1>9, <1>10, <1>12 DEF UnderWay
<1>15. Lowers(h, g, b, K, "return", target, N + 1, frames, ast', t, goal)
  BY ONLY <1>9, <1>10, <1>13, <1>14 DEF Lowers
<1> QED
  BY ONLY <1>4, <1>15 DEF Lowered
\* The atom returns to its quantifier.
LEMMA ReturnAtomMeans ==
    ASSUME LoweringIInv, WholeOK, ReturnAtom, left' # NULL_NODE,
           NEW t, NEW goal,
           Lowered(mode, target, left, frames, ast, t, goal)
    PROVE  Lowered(mode', target', left', frames', ast', t, goal)
<1> DEFINE n == Caller.node
<1>1. PICK production : production = tree[tree[n].children[2]].production
  OBVIOUS
<1>2. PICK N : N = Len(ast)
  OBVIOUS
<1>3. PICK node : node = AstNodeOf(UnaryTypeOf(production), {}, left,
                                   NULL_NODE)
  OBVIOUS
<1>4. /\ mode = "return" /\ frames # <<>> /\ left # NULL_NODE
      /\ Caller.waits = "atom" /\ target' = target
      /\ frames' = Front(frames)
      /\ \/ /\ production = "QUANTIFIER_EMPTY"
            /\ mode' = mode /\ left' = left /\ ast' = ast
         \/ /\ production # "QUANTIFIER_EMPTY"
            /\ mode' = "return" /\ left' = N + 1 /\ ast' = Append(ast, node)
  <2>1. /\ IsReturn("atom") /\ left # NULL_NODE /\ Leave /\ target' = target
        /\ Quantifier.production = production
    BY <1>1, Zenon DEF ReturnAtom, Quantifier
  <2>2. \/ /\ production = "QUANTIFIER_EMPTY"
           /\ UNCHANGED <<mode, left, nodes>>
        \/ /\ production # "QUANTIFIER_EMPTY"
           /\ \E operator : Make(UnaryTypeOf(production), {}, left,
                                 NULL_NODE, operator)
           /\ Return(N + 1)
    <3>1. \A operator, why : LowerFails(operator, why) => left' = NULL_NODE
      BY DEF LowerFails, Return
    <3> QED
      BY ONLY <1>2, <2>1, <3>1, ReturnAtom, left' # NULL_NODE DEF ReturnAtom
  <2>3. \A operator : Make(UnaryTypeOf(production), {}, left, NULL_NODE,
                           operator) => ast' = Append(ast, node)
    BY <1>3, Zenon DEF Make, AstNodeOf
  <2>4. /\ mode = "return" /\ frames # <<>> /\ Caller.waits = "atom"
        /\ frames' = Front(frames)
    BY ONLY <2>1 DEF IsReturn, Leave
  <2>5. \/ /\ production = "QUANTIFIER_EMPTY"
           /\ mode' = mode /\ left' = left /\ ast' = ast
        \/ /\ production # "QUANTIFIER_EMPTY"
           /\ mode' = "return" /\ left' = N + 1 /\ ast' = Append(ast, node)
    BY ONLY <2>2, <2>3 DEF Return, nodes
  <2> QED
    BY ONLY <2>1, <2>4, <2>5
<1>5. PICK h, m, b, K :
         Lowers(h, m, b, K, mode, target, left, frames, ast, t, goal)
  BY DEF Lowered
<1>6. /\ Parsed /\ StateOK /\ frames \in Seq(Frame)
      /\ WaitsOK(Caller) /\ n \in DOMAIN tree /\ NodeMeans(h, n, t)
      /\ CallMeans(h, m, Caller, m[left], b[K - 1])
      /\ ResultMeans(m, ast, t)
  BY ONLY LoweringIInv, <1>4, <1>5, ReturnMeans
<1>7. tree[n].production = "REPETITION"
  BY <1>4, <1>6 DEF WaitsOK
<1>8. m[left] = h[tree[n].children[1]] /\ b[K - 1] = h[n]
  BY <1>4, <1>6 DEF CallMeans
<1>9. b[K - 1] = Quantified(m[left], production, t)
  BY <1>1, <1>6, <1>7, <1>8 DEF NodeMeans
<1>10. production \in Quantifying \cup {"QUANTIFIER_EMPTY"}
  BY <1>1, <1>6, <1>7, Shapes
<1> HIDE DEF n
<1>11. CASE /\ production = "QUANTIFIER_EMPTY"
            /\ mode' = mode /\ left' = left /\ ast' = ast
  <2>1. m[left] = b[K - 1]
    BY <1>9, <1>11 DEF Quantified
  <2>2. \A i \in 1 .. K : frames[i].waits = "next" =>
           m[frames[i].held] = m[frames[i].held]
    OBVIOUS
  <2>3. Lowered("return", target, left, Front(frames), ast, t, goal)
    BY ONLY <1>4, <1>5, <1>6, <2>1, <2>2, PopMeans
  <2> QED
    BY ONLY <1>4, <1>11, <2>3
<1>12. CASE /\ production # "QUANTIFIER_EMPTY"
            /\ mode' = "return" /\ left' = N + 1 /\ ast' = Append(ast, node)
  <2>1. production \in Quantifying
    BY <1>10, <1>12
  <2>2. IsLowering(mode, left) /\ mode \in {"call", "return"}
    BY <1>4 DEF IsLowering
  <2>3. left \in 1 .. N /\ N \in Nat
    BY ONLY LoweringIInv, WholeOK, <1>2, <1>4, <2>2, ResultIsWhole
  <2>4. PICK type : type = UnaryTypeOf(production)
    OBVIOUS
  <2>5. /\ production = "QUANTIFIER_STAR" => type = "STAR"
        /\ production = "QUANTIFIER_PLUS" => type = "PLUS"
        /\ production = "QUANTIFIER_QUESTION" => type = "OPTIONAL"
    BY <2>4 DEF UnaryTypeOf
  <2>6. node = [type |-> type, chars |-> {}, left |-> left,
                right |-> NULL_NODE, minimum |-> 0, maximum |-> 0]
    BY <1>3, <2>4 DEF AstNodeOf
  <2>7. node \in AstNode /\ Children(node) = {left}
    <3>1. type \in UnaryType
      BY <2>1, <2>5 DEF Quantifying, UnaryType
    <3>2. left \in Nat /\ NULL_NODE \in Nat /\ {} \in SUBSET Chars
      BY <2>3 DEF NULL_NODE
    <3> QED
      BY ONLY <2>6, <3>1, <3>2, MadeNodes
  <2>8. AstMeans(m, node, t) = Quantified(m[left], production, t)
    <3>1. node.type = type /\ node.left = left
      BY <2>6
    <3>2. CASE production = "QUANTIFIER_STAR"
      BY ONLY <2>5, <3>1, <3>2 DEF AstMeans, Quantified
    <3>3. CASE production = "QUANTIFIER_PLUS"
      BY ONLY <2>5, <3>1, <3>3 DEF AstMeans, Quantified
    <3>4. CASE production = "QUANTIFIER_QUESTION"
      BY ONLY <2>5, <3>1, <3>4 DEF AstMeans, Quantified
    <3> QED
      BY <2>1, <3>2, <3>3, <3>4 DEF Quantifying
  <2>9. Children(node) \subseteq 1 .. N
    BY <2>3, <2>7
  <2>10. PICK g : /\ ResultMeans(g, ast', t)
                  /\ g[N + 1] = AstMeans(m, node, t)
                  /\ \A i \in 1 .. K : frames[i].waits = "next" =>
                        m[frames[i].held] = g[frames[i].held]
    BY ONLY LoweringIInv, WholeOK, <1>2, <1>5, <1>12, <2>2, <2>7, <2>9,
            MakeMeans
  <2>11. g[N + 1] = b[K - 1]
    BY <1>9, <2>8, <2>10
  <2>12. Lowered("return", target, N + 1, Front(frames), ast', t, goal)
    BY ONLY <1>4, <1>5, <1>6, <2>10, <2>11, PopMeans
  <2> QED
    BY ONLY <1>4, <1>12, <2>12
<1> QED
  BY ONLY <1>4, <1>11, <1>12

\* A list and its tail, from the operand on that is joined to those before it.
LEMMA TailMeans ==
    ASSUME Parsed, StateOK, NEW n \in DOMAIN tree,
           tree[n].production \in ListTails,
           NEW h, NEW t, NodeMeans(h, n, t), NEW L
    PROVE  WithTail(h, Joined(tree[n].production, L, h[OperandOf(n)]),
                    TailOf(n))
             = WithTail(h, L, n)
<1>1. PICK p, q : p = tree[n].production /\ q = TailOf(n)
  OBVIOUS
<1>2. tree[q].production \in EmptyTails \cup {p}
  BY <1>1, OperandsAre
<1>3. h[n] = WithTail(h, h[OperandOf(n)], q)
  BY <1>1 DEF NodeMeans
<1>4. WithTail(h, L, n) = Joined(p, L, h[n])
  BY <1>1 DEF WithTail, ListTails, EmptyTails
<1>5. PICK R : R = h[OperandOf(n)]
  OBVIOUS
<1>6. CASE tree[q].production \in EmptyTails
  BY ONLY <1>1, <1>3, <1>4, <1>5, <1>6 DEF WithTail
<1>7. CASE tree[q].production = p /\ p \notin EmptyTails
  <2>1. h[n] = Joined(p, R, h[q])
    BY ONLY <1>3, <1>5, <1>7 DEF WithTail
  <2>2. WithTail(h, Joined(p, L, R), q) = Joined(p, Joined(p, L, R), h[q])
    BY ONLY <1>7 DEF WithTail
  <2>3. Joined(p, L, Joined(p, R, h[q])) = Joined(p, Joined(p, L, R), h[q])
    BY JoinedAssociates
  <2> QED
    BY ONLY <1>1, <1>4, <1>5, <2>1, <2>2, <2>3
<1> QED
  BY <1>2, <1>6, <1>7

\* An operand is joined to those before it.
LEMMA ReturnNextMeans ==
    ASSUME LoweringIInv, WholeOK, ReturnNext, left' # NULL_NODE,
           NEW t, NEW goal,
           Lowered(mode, target, left, frames, ast, t, goal)
    PROVE  Lowered(mode', target', left', frames', ast', t, goal)
<1> DEFINE n == Caller.node
           f == [waits |-> "last", node |-> n, held |-> NULL_NODE]
<1>1. PICK production, type : /\ production = tree[n].production
                              /\ type = BinaryTypeOf(production)
  OBVIOUS
<1>2. PICK N : N = Len(ast)
  OBVIOUS
<1>3. PICK node : node = AstNodeOf(type, {}, Caller.held, left)
  OBVIOUS
<1>4. /\ mode = "return" /\ frames # <<>> /\ left # NULL_NODE
      /\ Caller.waits = "next"
      /\ frames' = Append(Front(frames), f)
      /\ mode' = "tail" /\ target' = Last(tree[n].children)
      /\ left' = N + 1 /\ ast' = Append(ast, node)
  BY <1>1, <1>2, <1>3
  DEF ReturnNext, IsReturn, GoOnWithTail, Combine, Return, Make, LowerFails,
      AstNodeOf
<1>5. PICK h, m, b, K :
         Lowers(h, m, b, K, mode, target, left, frames, ast, t, goal)
  BY DEF Lowered
<1>6. /\ Parsed /\ StateOK /\ frames \in Seq(Frame)
      /\ WaitsOK(Caller) /\ n \in DOMAIN tree /\ NodeMeans(h, n, t)
      /\ CallMeans(h, m, Caller, m[left], b[K - 1])
      /\ ResultMeans(m, ast, t) /\ Caller = Last(frames)
  BY ONLY LoweringIInv, <1>4, <1>5, ReturnMeans
<1>7. production \in ListTails
  BY <1>1, <1>4, <1>6 DEF WaitsOK
<1>8. /\ m[left] = h[OperandOf(n)]
      /\ b[K - 1] = WithTail(h, m[Caller.held], n)
  BY <1>4, <1>6 DEF CallMeans
<1>9. f \in Frame /\ f.waits = "last"
  BY <1>6, TreeDomain DEF Frame, NULL_NODE, Parsed
<1> HIDE DEF n, f
<1>10. IsLowering(mode, left) /\ mode \in {"call", "return"}
  BY <1>4 DEF IsLowering
<1>11. /\ N \in Nat
       /\ \A i \in DOMAIN frames : frames[i].waits = "next" =>
                                      frames[i].held \in 1 .. N
       /\ left # NULL_NODE => left \in 1 .. N
  BY ONLY LoweringIInv, WholeOK, <1>2, <1>10, ResultIsWhole
<1>12. left \in 1 .. N /\ Caller.held \in 1 .. N
  <2>1. Last(frames) = frames[Len(frames)] /\ Len(frames) \in DOMAIN frames
    <3>1. frames \in Seq(Frame) /\ frames # <<>>
      BY <1>4, <1>6
    <3>2. /\ Last(frames) = frames[Len(frames)]
          /\ Len(frames) \in Nat \ {0} /\ DOMAIN frames = 1 .. Len(frames)
      BY ONLY <3>1, TopOf
    <3>3. PICK Z \in Nat \ {0} : Z = Len(frames)
      BY <3>2
    <3> QED
      BY ONLY <3>2, <3>3
  <2> QED
    BY <1>4, <1>6, <1>11, <2>1
<1>13. PICK x : x = Caller.held
  OBVIOUS
<1>14. node = [type |-> type, chars |-> {}, left |-> x, right |-> left,
               minimum |-> 0, maximum |-> 0]
  BY <1>3, <1>13 DEF AstNodeOf
<1>15. node \in AstNode /\ Children(node) = {x, left}
  <2>1. type \in BinaryType
    BY <1>1 DEF BinaryTypeOf, BinaryType
  <2>2. left \in Nat /\ x \in Nat /\ {} \in SUBSET Chars
    BY <1>11, <1>12, <1>13
  <2> QED
    BY ONLY <1>14, <2>1, <2>2, MadeNodes
<1>16. Children(node) \subseteq 1 .. N
  BY <1>12, <1>13, <1>15
<1>17. PICK g : /\ ResultMeans(g, ast', t)
                /\ g[N + 1] = AstMeans(m, node, t)
                /\ \A i \in 1 .. K : frames[i].waits = "next" =>
                      m[frames[i].held] = g[frames[i].held]
  <2>1. /\ N = Len(ast) /\ node \in AstNode /\ Children(node) \subseteq 1 .. N
        /\ ast' = Append(ast, node)
    BY <1>2, <1>4, <1>15, <1>16
  <2> QED
    BY ONLY LoweringIInv, WholeOK, <1>5, <1>10, <2>1, MakeMeans
<1>18. AstMeans(m, node, t) = Joined(production, m[x], m[left])
  <2>1. node.type = type /\ node.left = x /\ node.right = left
    BY <1>14
  <2>2. CASE production = "ALTERNATION_TAIL_PIPE"
    BY ONLY <1>1, <2>1, <2>2 DEF BinaryTypeOf, AstMeans, Joined
  <2>3. CASE production # "ALTERNATION_TAIL_PIPE"
    BY ONLY <1>1, <2>1, <2>3 DEF BinaryTypeOf, AstMeans, Joined
  <2> QED
    BY <2>2, <2>3
<1>19. TailOf(n) = target'
  BY <1>1, <1>4, <1>6, <1>7, OperandsAre
<1>20. WithTail(h, Joined(production, m[x], h[OperandOf(n)]), TailOf(n))
         = WithTail(h, m[x], n)
  BY <1>1, <1>6, <1>7, TailMeans
<1>21. WithTail(h, g[N + 1], target') = b[K - 1]
  BY ONLY <1>8, <1>13, <1>17, <1>18, <1>19, <1>20
<1>22. Lowered("tail", target', N + 1, Append(Front(frames), f), ast', t, goal)
  BY ONLY <1>4, <1>5, <1>6, <1>9, <1>17, <1>21, GoOnMeans
<1> QED
  BY ONLY <1>4, <1>22
\* The lowering begins with the whole tree.
LEMMA LowerRootMeans ==
    ASSUME LoweringIInv, LoweringSyntax, LowerRoot, NEW t
    PROVE  Lowered(mode', target', left', frames', ast', t,
                   Meaning!TokenSpans(tokens, t))
<1>1. /\ pc = "done" /\ mode = "idle" /\ error = NoError
      /\ tree[ROOT].production = "REGEX_ALTERNATION_END"
      /\ mode' = "call" /\ target' = tree[ROOT].children[1]
      /\ frames' = frames /\ ast' = ast
  BY DEF LowerRoot, nodes
<1>2. frames = <<>> /\ ast = <<>>
  BY <1>1, TreeGiven
<1>3. PICK goal : goal = Meaning!TokenSpans(tokens, t)
  OBVIOUS
<1>4. PICK h : TreeMeans(h, t, goal)
  BY <1>1, <1>3, TreeHasMeaning
<1>5. PICK m, b : m = [n \in {} |-> {}] /\ b = [i \in {0} |-> goal]
  OBVIOUS
<1>6. ResultMeans(m, ast', t)
  <2>1. DOMAIN ast' = {}
    BY <1>1, <1>2
  <2> QED
    BY ONLY <2>1 DEF ResultMeans
<1>7. /\ 0 \in Nat /\ 0 = Len(frames') /\ b[0] = goal
      /\ CallsMean(h, m, frames', 0, b)
  BY <1>1, <1>2, <1>5 DEF CallsMean
<1>8. UnderWay("call", target', left', h, m) = b[0]
  BY <1>1, <1>4, <1>7 DEF UnderWay, TreeMeans
<1>9. Lowers(h, m, b, 0, "call", target', left', frames', ast', t, goal)
  BY ONLY <1>4, <1>6, <1>7, <1>8 DEF Lowers
<1> QED
  BY ONLY <1>1, <1>3, <1>9 DEF Lowered

\* The empty pattern returns an empty node.
LEMMA LowerEmptyMeans ==
    ASSUME LoweringIInv, LoweringSyntax, LowerEmpty, left' # NULL_NODE, NEW t
    PROVE  Lowered(mode', target', left', frames', ast', t,
                   Meaning!TokenSpans(tokens, t))
<1>1. PICK node : node = AstNodeOf("EMPTY", {}, NULL_NODE, NULL_NODE)
  OBVIOUS
<1>2. /\ pc = "done" /\ mode = "idle" /\ error = NoError
      /\ tree[ROOT].production = "REGEX_END"
      /\ mode' = "return" /\ left' = Len(ast) + 1
      /\ frames' = frames /\ ast' = Append(ast, node)
  BY <1>1 DEF LowerEmpty, Return, Make, LowerFails, AstNodeOf
<1>3. frames = <<>> /\ ast = <<>>
  BY <1>2, TreeGiven
<1>4. /\ DOMAIN ast' = {1} /\ ast'[1] = node /\ left' = 1
      /\ Len(frames') = 0
  BY <1>2, <1>3
<1>5. PICK goal : goal = Meaning!TokenSpans(tokens, t)
  OBVIOUS
<1>6. PICK h : TreeMeans(h, t, goal)
  BY <1>2, <1>5, TreeHasMeaning
<1>7. goal = Meaning!Identity(Len(t))
  BY <1>2, <1>6 DEF TreeMeans
<1>8. PICK m, b : m = [n \in {1} |-> goal] /\ b = [i \in {0} |-> goal]
  OBVIOUS
<1>9. m[1] = goal /\ b[0] = goal
  BY <1>8
<1>10. AstMeans(m, node, t) = Meaning!Identity(Len(t))
  <2>1. node.type = "EMPTY"
    BY <1>1 DEF AstNodeOf
  <2> QED
    BY ONLY <2>1 DEF AstMeans
<1>11. ResultMeans(m, ast', t)
  BY ONLY <1>4, <1>7, <1>9, <1>10 DEF ResultMeans
<1>12. 0 \in Nat /\ 0 = Len(frames') /\ CallsMean(h, m, frames', 0, b)
  BY <1>4 DEF CallsMean
<1>13. UnderWay("return", target', left', h, m) = b[0]
  BY <1>4, <1>9 DEF UnderWay
<1>14. Lowers(h, m, b, 0, "return", target', left', frames', ast', t, goal)
  BY ONLY <1>6, <1>9, <1>11, <1>12, <1>13 DEF Lowers
<1> QED
  BY ONLY <1>2, <1>5, <1>14 DEF Lowered

\* parser_parse returns what the lowering returned.
LEMMA ParseReturnsMeans ==
    ASSUME ParseReturns, NEW t, NEW goal,
           Lowered(mode, target, left, frames, ast, t, goal)
    PROVE  Lowered(mode', target', left', frames', ast', t, goal)
<1>1. /\ mode = "return" /\ mode' = "over"
      /\ UNCHANGED <<target, left, frames, ast>>
  BY DEF ParseReturns, nodes
<1>2. PICK h, m, b, K :
         Lowers(h, m, b, K, mode, target, left, frames, ast, t, goal)
  BY DEF Lowered
<1>3. UnderWay("over", target, left, h, m)
        = UnderWay(mode, target, left, h, m)
  BY <1>1 DEF UnderWay
<1>4. Lowers(h, m, b, K, "over", target, left, frames, ast, t, goal)
  BY ONLY <1>2, <1>3 DEF Lowers
<1> QED
  BY <1>1, <1>4 DEF Lowered

\* The parse tree stays, and so do the meanings of its nodes.
LEMMA TreeStays ==
    ASSUME tree' = tree, tokens' = tokens,
           \A t \in Texts : Lowered(mode', target', left', frames', ast', t,
                                    Meaning!TokenSpans(tokens, t))
    PROVE  LoweringMeans'
<1>1. \A n : OperandOf(n)' = OperandOf(n) /\ TailOf(n)' = TailOf(n)
  BY DEF OperandOf, TailOf
<1>2. \A h, L, n : WithTail(h, L, n)' = WithTail(h, L, n)
  BY DEF WithTail
<1>3. \A h, n, t : NodeMeans(h, n, t)' <=> NodeMeans(h, n, t)
  BY <1>1, <1>2 DEF NodeMeans
<1>4. \A h, t, goal : TreeMeans(h, t, goal)' <=> TreeMeans(h, t, goal)
  BY <1>3 DEF TreeMeans
<1>5. \A h, m, f, x, y : CallMeans(h, m, f, x, y)' <=> CallMeans(h, m, f, x, y)
  BY <1>1, <1>2 DEF CallMeans
<1>6. \A t \in Texts : Lowered(mode, target, left, frames, ast, t,
                               Meaning!TokenSpans(tokens, t))'
  <2> TAKE t \in Texts
  <2>1. PICK goal : goal = Meaning!TokenSpans(tokens, t)
    OBVIOUS
  <2>2. PICK h, m, b, K : Lowers(h, m, b, K, mode', target', left', frames',
                                 ast', t, goal)
    BY <2>1 DEF Lowered
  <2>3. /\ TreeMeans(h, t, goal) /\ ResultMeans(m, ast', t)
        /\ K \in Nat /\ K = Len(frames') /\ b[0] = goal
        /\ CallsMean(h, m, frames', K, b)
        /\ UnderWay(mode', target', left', h, m) = b[K]
    BY <2>2 DEF Lowers
  <2>4. CallsMean(h, m, frames, K, b)'
    BY <1>5, <2>3 DEF CallsMean
  <2>5. UnderWay(mode, target, left, h, m)' = b[K]
    BY <1>2, <2>3 DEF UnderWay
  <2>6. ResultMeans(m, ast, t)'
    BY <2>3 DEF ResultMeans
  <2>7. Lowers(h, m, b, K, mode, target, left, frames, ast, t, goal)'
    BY <1>4, <2>3, <2>4, <2>5, <2>6 DEF Lowers
  <2>8. Lowered(mode, target, left, frames, ast, t, goal)'
    BY <2>7 DEF Lowered
  <2>9. goal = Meaning!TokenSpans(tokens, t)'
    BY <2>1
  <2> QED
    BY <2>8, <2>9
<1> QED
  BY <1>6 DEF LoweringMeans

\* Every step of the lowering adds up to the same.
LEMMA LoweringMeansStep ==
    ASSUME LoweringIInv, WholeOK, LoweringSyntax, LoweringMeans,
           [LoweringNext]_all
    PROVE  LoweringMeans'
<1> SUFFICES ASSUME IsLowering(mode', left')
             PROVE  LoweringMeans'
  BY DEF LoweringMeans, IsLowering
<1> DEFINE Holds(t) == Lowered(mode', target', left', frames', ast', t,
                               Meaning!TokenSpans(tokens, t))
           Held(t) == Lowered(mode, target, left, frames, ast, t,
                              Meaning!TokenSpans(tokens, t))
<1>0. ASSUME UNCHANGED <<tree, tokens>>, \A t \in Texts : Holds(t)
      PROVE  LoweringMeans'
  BY <1>0, TreeStays
<1>1. IsLowering(mode, left) => \A t \in Texts : Held(t)
  BY DEF LoweringMeans
<1> HIDE DEF Holds, Held
<1>2. ASSUME mode \in {"call", "tail"}
             \/ (mode = "return" /\ left # NULL_NODE)
      PROVE  \A t \in Texts : Held(t)
  BY <1>1, <1>2 DEF IsLowering
<1>3. mode' = "return" => left' # NULL_NODE
  BY DEF IsLowering
<1>4. CASE LowerRoot
  <2>1. \A t \in Texts : Holds(t)
    BY <1>4, LowerRootMeans DEF Holds
  <2>2. UNCHANGED <<tree, tokens>>
    BY <1>4 DEF LowerRoot, vars, memory
  <2> QED
    BY <1>0, <2>1, <2>2
<1>5. CASE LowerEmpty
  <2>1. left' # NULL_NODE
    BY <1>3, <1>5 DEF LowerEmpty, Return, LowerFails
  <2>2. \A t \in Texts : Holds(t)
    BY <1>5, <2>1, LowerEmptyMeans DEF Holds
  <2>3. UNCHANGED <<tree, tokens>>
    BY <1>5 DEF LowerEmpty, memory
  <2> QED
    BY <1>0, <2>2, <2>3
<1>6. CASE CallList
  <2>1. /\ mode \in {"call", "tail"}
        /\ UNCHANGED <<tree, tokens>>
    BY <1>6 DEF CallList, IsCall, Call, still, memory
  <2>2. \A t \in Texts : Held(t)
    BY <1>2, <2>1
  <2>3. \A t \in Texts : Holds(t)
    BY <1>6, <2>2, CallListMeans DEF Held, Holds
  <2> QED
    BY <1>0, <2>1, <2>3
<1>7. CASE CallRepetition
  <2>1. /\ mode \in {"call", "tail"}
        /\ UNCHANGED <<tree, tokens>>
    BY <1>7 DEF CallRepetition, IsCall, Call, still, memory
  <2>2. \A t \in Texts : Held(t)
    BY <1>2, <2>1
  <2>3. \A t \in Texts : Holds(t)
    BY <1>7, <2>2, CallRepetitionMeans DEF Held, Holds
  <2> QED
    BY <1>0, <2>1, <2>3
<1>8. CASE CallGroup
  <2>1. /\ mode \in {"call", "tail"}
        /\ UNCHANGED <<tree, tokens>>
    BY <1>8 DEF CallGroup, IsCall, Call, still, memory
  <2>2. \A t \in Texts : Held(t)
    BY <1>2, <2>1
  <2>3. \A t \in Texts : Holds(t)
    BY <1>8, <2>2, CallGroupMeans DEF Held, Holds
  <2> QED
    BY <1>0, <2>1, <2>3
<1>9. CASE LowerLeaf
  <2>1. /\ mode \in {"call", "tail"}
        /\ left' # NULL_NODE
        /\ UNCHANGED <<tree, tokens>>
    BY <1>3, <1>9
    DEF LowerLeaf, IsCall, Return, LowerFails, still, memory
  <2>2. \A t \in Texts : Held(t)
    BY <1>2, <2>1
  <2>3. \A t \in Texts : Holds(t)
    BY <1>9, <2>1, <2>2, LowerLeafMeans DEF Held, Holds
  <2> QED
    BY <1>0, <2>1, <2>3
<1>10. CASE TailEnds
  <2>1. /\ mode \in {"call", "tail"}
        /\ UNCHANGED <<tree, tokens>>
    BY <1>10 DEF TailEnds, still, memory
  <2>2. \A t \in Texts : Held(t)
    BY <1>2, <2>1
  <2>3. \A t \in Texts : Holds(t)
    BY <1>10, <2>2, TailEndsMeans DEF Held, Holds
  <2> QED
    BY <1>0, <2>1, <2>3
<1>11. CASE TailGoesOn
  <2>1. /\ mode \in {"call", "tail"}
        /\ UNCHANGED <<tree, tokens>>
    BY <1>11 DEF TailGoesOn, Call, still, memory
  <2>2. \A t \in Texts : Held(t)
    BY <1>2, <2>1
  <2>3. \A t \in Texts : Holds(t)
    BY <1>11, <2>2, TailGoesOnMeans DEF Held, Holds
  <2> QED
    BY <1>0, <2>1, <2>3
<1>12. CASE ReturnLast
  <2>1. /\ mode = "return" /\ left # NULL_NODE
        /\ UNCHANGED <<tree, tokens>>
    BY <1>12 DEF ReturnLast, IsReturn, still, memory
  <2>2. \A t \in Texts : Held(t)
    BY <1>2, <2>1
  <2>3. \A t \in Texts : Holds(t)
    BY <1>12, <2>2, ReturnLastMeans DEF Held, Holds
  <2> QED
    BY <1>0, <2>1, <2>3
<1>13. CASE ReturnFirst
  <2>1. /\ mode = "return" /\ left # NULL_NODE
        /\ UNCHANGED <<tree, tokens>>
    BY <1>13 DEF ReturnFirst, IsReturn, still, memory
  <2>2. \A t \in Texts : Held(t)
    BY <1>2, <2>1
  <2>3. \A t \in Texts : Holds(t)
    BY <1>13, <2>2, ReturnFirstMeans DEF Held, Holds
  <2> QED
    BY <1>0, <2>1, <2>3
<1>14. CASE ReturnNext
  <2>0. PICK N : N = Len(ast)
    OBVIOUS
  <2>1. /\ mode = "return" /\ left # NULL_NODE
        /\ left' = N + 1 \/ mode' = "return"
        /\ UNCHANGED <<tree, tokens>>
    BY <1>14, <2>0
    DEF ReturnNext, IsReturn, Return, LowerFails, still, memory
  <2>4. IsLowering(mode, left) /\ mode \in {"call", "return"}
    BY <2>1 DEF IsLowering
  <2>5. N \in Nat
    BY ONLY LoweringIInv, WholeOK, <2>0, <2>4, ResultIsWhole
  <2>6. left' # NULL_NODE
    BY ONLY <1>3, <2>1, <2>5 DEF NULL_NODE
  <2>2. \A t \in Texts : Held(t)
    BY <1>2, <2>1
  <2>3. \A t \in Texts : Holds(t)
    BY <1>14, <2>6, <2>2, ReturnNextMeans DEF Held, Holds
  <2> QED
    BY <1>0, <2>1, <2>3
<1>15. CASE ReturnAtom
  <2>1. /\ mode = "return" /\ left # NULL_NODE
        /\ left' # NULL_NODE
        /\ UNCHANGED <<tree, tokens>>
    BY <1>3, <1>15
    DEF ReturnAtom, IsReturn, Return, LowerFails, nodes, still, memory
  <2>2. \A t \in Texts : Held(t)
    BY <1>2, <2>1
  <2>3. \A t \in Texts : Holds(t)
    BY <1>15, <2>1, <2>2, ReturnAtomMeans DEF Held, Holds
  <2> QED
    BY <1>0, <2>1, <2>3
<1>16. CASE ParseReturns
  <2>1. /\ mode = "return" /\ mode' = "over" /\ left' = left
        /\ UNCHANGED <<tree, tokens>>
    BY <1>16 DEF ParseReturns
  <2>2. \A t \in Texts : Held(t)
    BY <1>2, <2>1 DEF IsLowering
  <2>3. \A t \in Texts : Holds(t)
    BY <1>16, <2>2, ParseReturnsMeans DEF Held, Holds
  <2> QED
    BY <1>0, <2>1, <2>3
<1>17. CASE Parse \/ ParseFailed \/ ReturnNull
  <2>1. /\ mode' = mode /\ left' = left
        /\ mode = "idle" \/ (mode = "return" /\ left = NULL_NODE)
    BY <1>17 DEF Parse, ParseFailed, ReturnNull, lowering
  <2> QED
    BY <2>1 DEF IsLowering
<1>18. CASE UNCHANGED all
  <2>1. UNCHANGED <<mode, target, left, frames, ast, tree, tokens>>
    BY <1>18 DEF all, vars, lowering, nodes, memory
  <2>2. \A t \in Texts : Holds(t)
    BY <1>1, <2>1 DEF Held, Holds
  <2> QED
    BY <1>0, <2>1, <2>2
<1> QED
  BY <1>4, <1>5, <1>6, <1>7, <1>8, <1>9, <1>10, <1>11, <1>12, <1>13, <1>14,
     <1>15, <1>16, <1>17, <1>18 DEF LoweringNext
-----------------------------------------------------------------------------
(* The result means what the pattern means.                                *)

\* The meanings of the nodes of a tree, as the reference chooses them.
AstParts(ns, t) ==
    CHOOSE spans : spans = [n \in 1 .. Len(ns) |-> AstMeans(spans, ns[n], t)]

\* The meaning of a tree is that of its last node.
LEMMA AstSpansAre ==
    ASSUME NEW ns, NEW t
    PROVE  Meaning!Spans(ns, t) = AstParts(ns, t)[Len(ns)]
BY DEF Meaning!Spans, AstParts, AstMeans

\* Whatever means what its children make it mean is what a tree means.
LEMMA ResultHasMeaning ==
    ASSUME NEW ns, IsAst(ns), ns # <<>>, NEW t, NEW m, ResultMeans(m, ns, t)
    PROVE  Meaning!Spans(ns, t) = m[Len(ns)]
<1>1. PICK L : L = Len(ns)
  OBVIOUS
<1>2. /\ L \in Nat /\ L # 0 /\ DOMAIN ns = 1 .. L /\ ns \in Seq(AstNode)
      /\ \A n \in 1 .. L : /\ ns[n] \in AstNode
                           /\ Children(ns[n]) \subseteq 1 .. n - 1
  BY <1>1 DEF IsAst
<1>3. \A n \in 1 .. L : m[n] = AstMeans(m, ns[n], t)
  BY <1>2 DEF ResultMeans
<1> DEFINE g == [n \in 1 .. L |-> m[n]]
           f == AstParts(ns, t)
<1>4. \A n \in 1 .. L : g[n] = AstMeans(g, ns[n], t)
  <2> TAKE n \in 1 .. L
  <2>1. \A c \in Children(ns[n]) : m[c] = g[c]
    BY <1>2
  <2> HIDE DEF g
  <2>2. AstMeans(m, ns[n], t) = AstMeans(g, ns[n], t)
    BY <1>2, <2>1, MeansByChildren
  <2> QED
    BY <1>3, <2>2 DEF g
<1>5. g = [n \in 1 .. L |-> AstMeans(g, ns[n], t)]
  <2>1. g = [n \in 1 .. L |-> g[n]]
    OBVIOUS
  <2> HIDE DEF g
  <2> QED
    BY <1>4, <2>1
<1> HIDE DEF g
<1>6. f = [n \in 1 .. L |-> AstMeans(f, ns[n], t)]
  BY <1>1, <1>5 DEF AstParts
<1> HIDE DEF f
<1>7. \A n \in 1 .. L : f[n] = AstMeans(f, ns[n], t)
  BY <1>6
<1> DEFINE Same == {n \in 0 .. L : \A c \in 1 .. n : f[c] = m[c]}
<1>8. 0 \in Same
  BY <1>2
<1>9. ASSUME NEW n \in 1 .. L, n - 1 \in Same PROVE n \in Same
  <2>1. \A c \in 1 .. n - 1 : f[c] = m[c]
    BY <1>9
  <2>2. \A c \in Children(ns[n]) : f[c] = m[c]
    BY <1>2, <2>1
  <2>3. AstMeans(f, ns[n], t) = AstMeans(m, ns[n], t)
    BY <1>2, <2>2, MeansByChildren
  <2>4. f[n] = m[n]
    BY <1>3, <1>7, <2>3
  <2>5. \A c \in 1 .. n : c = n \/ c \in 1 .. n - 1
    BY <1>2
  <2> QED
    BY <1>2, <2>1, <2>4, <2>5
<1> HIDE DEF Same
<1>10. 0 .. L \subseteq Same
  BY ONLY <1>2, <1>8, <1>9, Upwards
<1>11. f[L] = m[L]
  BY <1>2, <1>10 DEF Same
<1> QED
  BY <1>1, <1>11, AstSpansAre DEF f

\* The invariant says so at the end.
LEMMA LoweringMeansAll ==
    ASSUME LoweringIInv, WholeOK, LoweringMeans PROVE ParsedMeansPattern
<1>1. ReturnsAst
  BY WholeIsAst
<1> SUFFICES ASSUME parsed, left # NULL_NODE, NEW t \in Texts
             PROVE  Meaning!Spans(ast, t) = Meaning!TokenSpans(tokens, t)
  BY <1>1 DEF ParsedMeansPattern
<1>2. PICK goal : goal = Meaning!TokenSpans(tokens, t)
  OBVIOUS
<1>3. mode = "over" /\ frames = <<>>
  BY DEF LoweringIInv
<1>4. IsAst(ast) /\ left = Len(ast)
  BY <1>1 DEF ReturnsAst
<1>5. PICK h, m, b, K :
         Lowers(h, m, b, K, mode, target, left, frames, ast, t, goal)
  BY <1>2, <1>3 DEF LoweringMeans, IsLowering, Lowered
<1>6. /\ ResultMeans(m, ast, t) /\ K = Len(frames) /\ b[0] = goal
      /\ UnderWay("over", target, left, h, m) = b[K]
  BY <1>3, <1>5 DEF Lowers
<1>7. K = 0
  BY <1>3, <1>6
<1>8. m[left] = goal
  BY <1>6, <1>7 DEF UnderWay
<1>9. ast # <<>>
  BY <1>4 DEF NULL_NODE
<1>10. Meaning!Spans(ast, t) = m[Len(ast)]
  BY <1>4, <1>6, <1>9, ResultHasMeaning
<1> QED
  BY <1>2, <1>4, <1>8, <1>10

(* While a tree is lowered, its finished part, the calls that wait and the *)
(* rest of the parse tree add up to what the pattern means, and the nodes  *)
(* that are made are one whole tree: no step of the lowering, and no order *)
(* in which the operands of a list are combined, changes what is said.     *)
THEOREM LoweringKeepsMeaning == LoweringSpec => [](WholeOK /\ LoweringMeans)
<1>1. LoweringInit => WholeOK
  BY DEF LoweringInit, WholeOK
<1>2. LoweringInit => LoweringSyntax
  BY InitIsRight DEF LoweringInit, LoweringSyntax
<1>3. LoweringInit => LoweringMeans
  BY DEF LoweringInit, LoweringMeans, IsLowering
<1>4. LoweringIInv /\ WholeOK /\ [LoweringNext]_all => WholeOK'
  BY StepWhole
<1>5. LoweringIInv /\ LoweringSyntax /\ [LoweringNext]_all /\ LoweringIInv'
        => LoweringSyntax'
  BY LoweringSyntaxStep
<1>6. LoweringIInv /\ WholeOK /\ LoweringSyntax /\ LoweringMeans
        /\ [LoweringNext]_all => LoweringMeans'
  BY LoweringMeansStep
<1> QED
  BY <1>1, <1>2, <1>3, <1>4, <1>5, <1>6, LoweringInvariant, PTL
     DEF LoweringSpec

(* Parsing by the table and lowering to left-leaning trees do not change   *)
(* what a pattern says: the tree that parser_parse returns matches the     *)
(* spans of a text that the tokens of the pattern do by the precedence of  *)
(* the operators, for patterns and texts of every length.                  *)
THEOREM ParsedMeaning == LoweringSpec => []ParsedMeansPattern
<1>1. LoweringIInv /\ WholeOK /\ LoweringMeans => ParsedMeansPattern
  BY LoweringMeansAll
<1> QED
  BY <1>1, LoweringInvariant, LoweringKeepsMeaning, PTL
=============================================================================
