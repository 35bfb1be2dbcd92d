-------------------------- MODULE MerkleTreeProofs --------------------------
(***************************************************************************)
(* Proofs about MerkleTree for every depth, capacity and history size, and *)
(* for every Hash: that the tree stays well-formed, that the ring buffer   *)
(* of roots holds exactly the roots of the latest states, and that insert  *)
(* computes the root of the complete tree.                                 *)
(***************************************************************************)
EXTENDS MerkleTree, NaturalFacts, TLAPS

\* How many insertions ago slot i of the ring buffer was written.
Age(i) == IF i <= current_root_index
          THEN current_root_index - i
          ELSE current_root_index - i + ROOT_HISTORY_SIZE

\* What every slot holds: the root of the tree Age(i) insertions ago, or the
\* Zero of storage that was never written.
RingInv ==
    \A i \in 0 .. ROOT_HISTORY_SIZE - 1 :
        roots[i] = IF Age(i) <= next_index THEN RootAfter(next_index - Age(i)) ELSE Zero

\* The inductive invariant.
TreeInv == TreeTypeOK /\ (\E S : events \in Seq(S)) /\ RingInv

-----------------------------------------------------------------------------

\* SlotAfter, the (current_root_index + 1) % ROOT_HISTORY_SIZE of insert,
\* without the modulus.
LEMMA SlotAfterCases ==
    ASSUME NEW i \in 0 .. ROOT_HISTORY_SIZE - 1
    PROVE  SlotAfter(i) = IF i = ROOT_HISTORY_SIZE - 1 THEN 0 ELSE i + 1
<1>1. CASE i = ROOT_HISTORY_SIZE - 1
    BY <1>1, SizeAssumption, SMT DEF SlotAfter
<1>2. CASE i # ROOT_HISTORY_SIZE - 1
    BY <1>2, SizeAssumption, SMT DEF SlotAfter
<1>3. QED BY <1>1, <1>2

LEMMA InitTreeInv == initialize => TreeInv
<1> SUFFICES ASSUME initialize PROVE TreeInv
    OBVIOUS
<1>1. TreeTypeOK
    BY SizeAssumption DEF initialize, TreeTypeOK
<1>2. events \in Seq({})
    BY DEF initialize
<1>3. RingInv
    BY SizeAssumption DEF initialize, RingInv, Age, RootAfter
<1>4. QED BY <1>1, <1>2, <1>3 DEF TreeInv

\* What an insertion does to the parts of the state that are not hashes.
LEMMA InsertTypeOK ==
    ASSUME TreeTypeOK, NEW S, events \in Seq(S), NEW leaf, insert(leaf)
    PROVE  LET event == [leaf |-> leaf, index |-> next_index,
                         root |-> PathHashes(leaf, next_index)[LEVELS]]
           IN  /\ TreeTypeOK'
               /\ next_index' = next_index + 1
               /\ events' = Append(events, event)
               /\ events' \in Seq(S \cup {event})
               /\ events'[next_index + 1] = event
               /\ \A n \in 1 .. next_index : events'[n] = events[n]
<1> DEFINE root == PathHashes(leaf, next_index)[LEVELS]
           slot == SlotAfter(current_root_index)
           event == [leaf |-> leaf, index |-> next_index, root |-> root]
<1> USE SizeAssumption
<1>1. /\ next_index < CAPACITY
      /\ next_index' = next_index + 1
      /\ roots' = [roots EXCEPT ![slot] = root]
      /\ current_root_index' = slot
      /\ events' = Append(events, event)
    BY DEF insert, HasRoom
<1>2. DOMAIN filled_subtrees' = 0 .. LEVELS - 1
    BY DEF insert, Frontier
<1>3. slot \in 0 .. ROOT_HISTORY_SIZE - 1
    BY SlotAfterCases DEF TreeTypeOK
<1> SUFFICES /\ TreeTypeOK'
             /\ events' \in Seq(S \cup {event})
             /\ events'[next_index + 1] = event
             /\ \A n \in 1 .. next_index : events'[n] = events[n]
    BY <1>1
<1> HIDE DEF root, slot, event
<1>4. events' \in Seq(S \cup {event})
    BY <1>1
<1>5. /\ Len(events') = next_index + 1
      /\ events'[next_index + 1] = event
      /\ \A n \in 1 .. next_index : events'[n] = events[n]
    BY <1>1 DEF TreeTypeOK
<1>6. TreeTypeOK'
    BY <1>1, <1>2, <1>3, <1>5 DEF TreeTypeOK
<1>7. QED BY <1>4, <1>5, <1>6

LEMMA InsertTreeInv ==
    ASSUME TreeInv, NEW leaf, insert(leaf)
    PROVE  TreeInv'
<1> DEFINE root == PathHashes(leaf, next_index)[LEVELS]
           slot == SlotAfter(current_root_index)
           event == [leaf |-> leaf, index |-> next_index, root |-> root]
<1> USE SizeAssumption
<1>1. PICK S : events \in Seq(S)
    BY DEF TreeInv
<1>2. roots' = [roots EXCEPT ![slot] = root] /\ current_root_index' = slot
    BY DEF insert
<1>3. /\ TreeTypeOK'
      /\ next_index' = next_index + 1
      /\ events' \in Seq(S \cup {event})
      /\ events'[next_index + 1] = event
      /\ \A n \in 1 .. next_index : events'[n] = events[n]
    BY <1>1, InsertTypeOK DEF TreeInv
<1>4. event.root = root
    OBVIOUS
<1> HIDE DEF root, slot, event
<1>5. slot = IF current_root_index = ROOT_HISTORY_SIZE - 1 THEN 0 ELSE current_root_index + 1
    BY SlotAfterCases DEF TreeInv, TreeTypeOK, slot
<1>6. RingInv'
  <2> SUFFICES ASSUME NEW i \in 0 .. ROOT_HISTORY_SIZE - 1
               PROVE  roots'[i] = IF Age(i)' <= next_index'
                                  THEN RootAfter(next_index - Age(i))'
                                  ELSE Zero
      BY DEF RingInv
  <2>1. CASE i = slot
    <3>1. Age(i)' = 0
        BY <1>2, <1>5, <2>1 DEF TreeInv, TreeTypeOK, Age
    <3>2. roots'[i] = root
        BY <1>2, <2>1 DEF TreeInv, TreeTypeOK
    <3>3. RootAfter(next_index - Age(i))' = root
        BY <1>3, <1>4, <3>1 DEF TreeInv, TreeTypeOK, RootAfter
    <3>4. QED BY <1>3, <3>1, <3>2, <3>3 DEF TreeInv, TreeTypeOK
  <2>2. CASE i # slot
    <3>1. /\ Age(i)' = Age(i) + 1
          /\ Age(i) \in 0 .. ROOT_HISTORY_SIZE - 1
        BY <1>2, <1>5, <2>2 DEF TreeInv, TreeTypeOK, Age
    <3>2. roots'[i] = roots[i]
        BY <1>2, <2>2 DEF TreeInv, TreeTypeOK
    <3>3. \A n \in 0 .. next_index : RootAfter(n)' = RootAfter(n)
        BY <1>3 DEF RootAfter
    <3>4. Age(i) <= next_index => RootAfter(next_index - Age(i))' = RootAfter(next_index - Age(i))
        BY <1>3, <3>1, <3>3 DEF TreeInv, TreeTypeOK
    <3>5. QED BY <1>3, <3>1, <3>2, <3>4 DEF TreeInv, TreeTypeOK, RingInv
  <2>3. QED BY <2>1, <2>2
<1>7. QED BY <1>3, <1>6 DEF TreeInv

\* From what each slot holds to the set of roots that is_known_root accepts.
LEMMA RingInvWindow ==
    ASSUME TreeTypeOK, RingInv
    PROVE  RootWindow
<1> DEFINE Known == {root \in {roots[i] : i \in DOMAIN roots} : is_known_root(root)}
           Recent == {RootAfter(n) : n \in Window} \ {Zero}
<1> USE SizeAssumption
<1>1. ASSUME NEW root \in Known
      PROVE  root \in Recent
  <2>1. PICK i \in 0 .. ROOT_HISTORY_SIZE - 1 : root = roots[i] /\ root # Zero
      BY <1>1 DEF TreeTypeOK, is_known_root
  <2>2. Age(i) \in 0 .. ROOT_HISTORY_SIZE - 1
      BY DEF Age, TreeTypeOK
  <2>3. Age(i) <= next_index /\ root = RootAfter(next_index - Age(i))
      BY <2>1 DEF RingInv
  <2>4. next_index - Age(i) \in Window
      BY <2>2, <2>3 DEF Window, TreeTypeOK
  <2>5. QED BY <2>1, <2>3, <2>4
<1>2. ASSUME NEW root \in Recent
      PROVE  root \in Known
  <2>1. PICK n \in Window : root = RootAfter(n) /\ root # Zero
      BY <1>2
  <2> DEFINE age == next_index - n
             i == IF age <= current_root_index
                  THEN current_root_index - age
                  ELSE current_root_index - age + ROOT_HISTORY_SIZE
  <2>2. n \in 0 .. next_index /\ age \in 0 .. ROOT_HISTORY_SIZE - 1
      BY DEF Window, TreeTypeOK
  <2>3. i \in 0 .. ROOT_HISTORY_SIZE - 1 /\ Age(i) = age
      BY <2>2 DEF Age, TreeTypeOK
  <2>4. next_index - age = n /\ age <= next_index
      BY <2>2 DEF TreeTypeOK
  <2> HIDE DEF age, i
  <2>5. roots[i] = root
      BY <2>1, <2>3, <2>4 DEF RingInv
  <2>6. QED BY <2>1, <2>3, <2>5 DEF is_known_root, TreeTypeOK
<1>3. QED BY <1>1, <1>2 DEF RootWindow

-----------------------------------------------------------------------------

LEMMA TreeInvInvariant == TreeSpec => []TreeInv
<1>1. TreeInv /\ [TreeNext]_treeVars => TreeInv'
  <2> SUFFICES ASSUME TreeInv, [TreeNext]_treeVars PROVE TreeInv'
      OBVIOUS
  <2>1. CASE TreeNext
      BY <2>1, InsertTreeInv DEF TreeNext
  <2>2. CASE UNCHANGED treeVars
      BY <2>2 DEF TreeInv, TreeTypeOK, RingInv, Age, RootAfter, treeVars
  <2>3. QED BY <2>1, <2>2
<1>2. QED BY InitTreeInv, <1>1, PTL DEF TreeSpec

\* The tree stays well-formed: next_index never passes the capacity the guard
\* of insert names, and every slot the code addresses exists.
THEOREM TreeTypeCorrect == TreeSpec => []TreeTypeOK
<1>1. TreeInv => TreeTypeOK
    BY DEF TreeInv
<1>2. QED BY TreeInvInvariant, <1>1, PTL

\* is_known_root accepts exactly the roots of the latest ROOT_HISTORY_SIZE
\* states of the tree, whatever the size of the history and the depth.
THEOREM RootWindowCorrect == TreeSpec => []RootWindow
<1>1. TreeInv => RootWindow
    BY RingInvWindow DEF TreeInv
<1>2. QED BY TreeInvInvariant, <1>1, PTL

-----------------------------------------------------------------------------
(***************************************************************************)
(* The recursive functions of the tree satisfy their equations.  Each      *)
(* proof builds the function level by level.                               *)
(***************************************************************************)

\* g is get_zero up to height n.
ZeroUpTo(g, n) ==
    g = [level \in 0 .. n |-> IF level = 0 THEN ZERO_LEAF ELSE Hash(g[level - 1], g[level - 1])]

LEMMA ZeroEquations ==
    /\ get_zero[0] = ZERO_LEAF
    /\ \A level \in 0 .. LEVELS - 1 :
            get_zero[level + 1] = Hash(get_zero[level], get_zero[level])
<1> DEFINE S == {n \in Nat : \E g : ZeroUpTo(g, n)}
<1>1. 0 \in S
  <2>1. ZeroUpTo([level \in 0 .. 0 |-> ZERO_LEAF], 0)
      BY DEF ZeroUpTo
  <2>2. QED BY <2>1
<1>2. ASSUME NEW n \in Nat, n \in S PROVE n + 1 \in S
  <2>1. PICK g : ZeroUpTo(g, n)
      BY <1>2
  <2> DEFINE h == [level \in 0 .. n + 1 |-> IF level = n + 1 THEN Hash(g[n], g[n]) ELSE g[level]]
  <2>2. \A level \in 0 .. n :
            g[level] = IF level = 0 THEN ZERO_LEAF ELSE Hash(g[level - 1], g[level - 1])
      BY <2>1 DEF ZeroUpTo
  <2>3. \A level \in 0 .. n + 1 :
            h[level] = IF level = 0 THEN ZERO_LEAF ELSE Hash(h[level - 1], h[level - 1])
    <3> TAKE level \in 0 .. n + 1
    <3>1. CASE level = n + 1
      <4>1. level # 0 /\ level - 1 = n /\ h[n] = g[n] /\ h[level] = Hash(g[n], g[n])
          BY <3>1
      <4>2. QED BY <3>1, <4>1
    <3>2. CASE level # n + 1
      <4>1. level \in 0 .. n /\ h[level] = g[level] /\ (level # 0 => h[level - 1] = g[level - 1])
          BY <3>2
      <4>2. QED BY <2>2, <4>1
    <3>3. QED BY <3>1, <3>2
  <2>4. h = [level \in 0 .. n + 1 |-> h[level]]
      OBVIOUS
  <2> HIDE DEF h
  <2>5. ZeroUpTo(h, n + 1)
      BY <2>3, <2>4 DEF ZeroUpTo
  <2>6. QED BY <2>5
<1> HIDE DEF S
<1>3. LEVELS \in S
    BY <1>1, <1>2, SetInduction, SizeAssumption
<1>4. \E g : ZeroUpTo(g, LEVELS)
    BY <1>3 DEF S
<1>5. ZeroUpTo(get_zero, LEVELS)
    BY <1>4 DEF ZeroUpTo, get_zero
<1>6. get_zero[0] = ZERO_LEAF
    BY <1>5, SizeAssumption DEF ZeroUpTo
<1>7. ASSUME NEW level \in 0 .. LEVELS - 1
      PROVE  get_zero[level + 1] = Hash(get_zero[level], get_zero[level])
  <2>1. level + 1 \in 0 .. LEVELS /\ level + 1 # 0 /\ (level + 1) - 1 = level
      BY SizeAssumption
  <2>2. QED BY <1>5, <2>1 DEF ZeroUpTo
<1>8. QED BY <1>6, <1>7

\* g is the path of insert from leaf number index, with the frontier filled, up
\* to height n.
PathUpTo(g, leaf, index, filled, n) ==
    g = [level \in 0 .. n |->
            IF level = 0 THEN leaf
            ELSE IF IsLeft(index, level - 1)
                 THEN Hash(g[level - 1], get_zero[level - 1])
                 ELSE Hash(filled[level - 1], g[level - 1])]

LEMMA PathExists ==
    ASSUME NEW leaf, NEW index, NEW filled, NEW N \in Nat
    PROVE  \E g : PathUpTo(g, leaf, index, filled, N)
<1> DEFINE Up(v, level) == IF IsLeft(index, level - 1)
                           THEN Hash(v, get_zero[level - 1])
                           ELSE Hash(filled[level - 1], v)
           S == {n \in Nat : \E g : PathUpTo(g, leaf, index, filled, n)}
<1>1. 0 \in S
  <2>1. PathUpTo([level \in 0 .. 0 |-> leaf], leaf, index, filled, 0)
      BY DEF PathUpTo
  <2>2. QED BY <2>1
<1>2. ASSUME NEW n \in Nat, n \in S PROVE n + 1 \in S
  <2>1. PICK g : PathUpTo(g, leaf, index, filled, n)
      BY <1>2
  <2> DEFINE h == [level \in 0 .. n + 1 |-> IF level = n + 1 THEN Up(g[n], n + 1) ELSE g[level]]
  <2>2. \A level \in 0 .. n : g[level] = IF level = 0 THEN leaf ELSE Up(g[level - 1], level)
      BY <2>1 DEF PathUpTo
  <2>3. \A level \in 0 .. n + 1 : h[level] = IF level = 0 THEN leaf ELSE Up(h[level - 1], level)
    <3> HIDE DEF Up
    <3> TAKE level \in 0 .. n + 1
    <3>1. CASE level = n + 1
      <4>1. level # 0 /\ level - 1 = n /\ h[n] = g[n] /\ h[level] = Up(g[n], n + 1)
          BY <3>1
      <4>2. QED BY <3>1, <4>1
    <3>2. CASE level # n + 1
      <4>1. level \in 0 .. n /\ h[level] = g[level] /\ (level # 0 => h[level - 1] = g[level - 1])
          BY <3>2
      <4>2. QED BY <2>2, <4>1
    <3>3. QED BY <3>1, <3>2
  <2>4. h = [level \in 0 .. n + 1 |-> h[level]]
      OBVIOUS
  <2> HIDE DEF h
  <2>5. PathUpTo(h, leaf, index, filled, n + 1)
      BY <2>3, <2>4 DEF PathUpTo
  <2>6. QED BY <2>5
<1> HIDE DEF S
<1>3. N \in S
    BY <1>1, <1>2, SetInduction
<1>4. QED BY <1>3 DEF S

LEMMA PathEquations ==
    ASSUME NEW leaf, NEW index
    PROVE  LET path == PathHashes(leaf, index)
           IN  /\ path[0] = leaf
               /\ \A level \in 0 .. LEVELS - 1 :
                    path[level + 1] = IF IsLeft(index, level)
                                      THEN Hash(path[level], get_zero[level])
                                      ELSE Hash(filled_subtrees[level], path[level])
<1>1. \E g : PathUpTo(g, leaf, index, filled_subtrees, LEVELS)
    BY PathExists, SizeAssumption
<1>2. PathUpTo(PathHashes(leaf, index), leaf, index, filled_subtrees, LEVELS)
    BY <1>1 DEF PathUpTo, PathHashes
<1> DEFINE path == PathHashes(leaf, index)
<1> HIDE DEF path
<1>3. path[0] = leaf
    BY <1>2, SizeAssumption DEF PathUpTo, path
<1>4. ASSUME NEW level \in 0 .. LEVELS - 1
      PROVE  path[level + 1] = IF IsLeft(index, level)
                               THEN Hash(path[level], get_zero[level])
                               ELSE Hash(filled_subtrees[level], path[level])
  <2>1. level + 1 \in 0 .. LEVELS /\ level + 1 # 0 /\ (level + 1) - 1 = level
      BY SizeAssumption
  <2>2. QED BY <1>2, <2>1 DEF PathUpTo, path
<1>5. QED BY <1>3, <1>4 DEF path

\* g is the complete tree over leaves, up to height n.
TreeUpTo(g, leaves, n) ==
    g = [level \in 0 .. n |->
            IF level = 0 THEN leaves
            ELSE [i \in 0 .. 2^(LEVELS - level) - 1 |->
                     Hash(g[level - 1][2 * i], g[level - 1][2 * i + 1])]]

LEMMA TreeExists ==
    ASSUME NEW leaves, NEW N \in Nat
    PROVE  \E g : TreeUpTo(g, leaves, N)
<1> DEFINE Up(v, level) == [i \in 0 .. 2^(LEVELS - level) - 1 |-> Hash(v[2 * i], v[2 * i + 1])]
           S == {n \in Nat : \E g : TreeUpTo(g, leaves, n)}
<1>1. 0 \in S
  <2>1. TreeUpTo([level \in 0 .. 0 |-> leaves], leaves, 0)
      BY DEF TreeUpTo
  <2>2. QED BY <2>1
<1>2. ASSUME NEW n \in Nat, n \in S PROVE n + 1 \in S
  <2>1. PICK g : TreeUpTo(g, leaves, n)
      BY <1>2
  <2> DEFINE h == [level \in 0 .. n + 1 |-> IF level = n + 1 THEN Up(g[n], n + 1) ELSE g[level]]
  <2>2. \A level \in 0 .. n : g[level] = IF level = 0 THEN leaves ELSE Up(g[level - 1], level)
      BY <2>1 DEF TreeUpTo
  <2>3. \A level \in 0 .. n + 1 : h[level] = IF level = 0 THEN leaves ELSE Up(h[level - 1], level)
    <3> HIDE DEF Up
    <3> TAKE level \in 0 .. n + 1
    <3>1. CASE level = n + 1
      <4>1. level # 0 /\ level - 1 = n /\ h[n] = g[n] /\ h[level] = Up(g[n], n + 1)
          BY <3>1
      <4>2. QED BY <3>1, <4>1
    <3>2. CASE level # n + 1
      <4>1. level \in 0 .. n /\ h[level] = g[level] /\ (level # 0 => h[level - 1] = g[level - 1])
          BY <3>2
      <4>2. QED BY <2>2, <4>1
    <3>3. QED BY <3>1, <3>2
  <2>4. h = [level \in 0 .. n + 1 |-> h[level]]
      OBVIOUS
  <2> HIDE DEF h
  <2>5. TreeUpTo(h, leaves, n + 1)
      BY <2>3, <2>4 DEF TreeUpTo
  <2>6. QED BY <2>5
<1> HIDE DEF S
<1>3. N \in S
    BY <1>1, <1>2, SetInduction
<1>4. QED BY <1>3 DEF S

LEMMA TreeEquations ==
    ASSUME NEW leaves
    PROVE  LET node == FullTree(leaves)
           IN  /\ node[0] = leaves
               /\ \A level \in 0 .. LEVELS - 1 : \A i \in 0 .. 2^(LEVELS - (level + 1)) - 1 :
                    node[level + 1][i] = Hash(node[level][2 * i], node[level][2 * i + 1])
<1> DEFINE node == FullTree(leaves)
<1>1. \E g : TreeUpTo(g, leaves, LEVELS)
    BY TreeExists, SizeAssumption
<1>2. TreeUpTo(node, leaves, LEVELS)
    BY <1>1 DEF TreeUpTo, FullTree
<1> HIDE DEF node
<1>3. node[0] = leaves
    BY <1>2, SizeAssumption DEF TreeUpTo
<1>4. ASSUME NEW level \in 0 .. LEVELS - 1
      PROVE  node[level + 1] = [i \in 0 .. 2^(LEVELS - (level + 1)) - 1 |->
                                    Hash(node[level][2 * i], node[level][2 * i + 1])]
  <2>1. level + 1 \in 0 .. LEVELS /\ level + 1 # 0 /\ (level + 1) - 1 = level
      BY SizeAssumption
  <2>2. QED BY <1>2, <2>1 DEF TreeUpTo
<1>5. QED BY <1>3, <1>4 DEF node

-----------------------------------------------------------------------------
(***************************************************************************)
(* The complete tree: where its nodes are, what one leaf changes, and what *)
(* an empty part of it holds.                                              *)
(***************************************************************************)

\* The ancestors of a leaf are nodes of the tree.
LEMMA AncestorInTree ==
    ASSUME NEW index \in 0 .. CAPACITY - 1
    PROVE  \A level \in 0 .. LEVELS : index \div 2^level \in 0 .. 2^(LEVELS - level) - 1
<1> USE SizeAssumption, CapacityAssumption
<1> DEFINE In(level) == index \div 2^level \in 0 .. 2^(LEVELS - level) - 1
           S == {level \in 0 .. LEVELS : In(level)}
<1>1. 0 \in S
  <2>1. 2^0 = 1 /\ LEVELS - 0 = LEVELS
      BY SMT
  <2>2. index \div 1 = index
      BY SMT
  <2>3. QED BY <2>1, <2>2
<1>2. ASSUME NEW level \in 0 .. LEVELS - 1, level \in S PROVE level + 1 \in S
  <2> DEFINE q == index \div 2^level
             m == 2^(LEVELS - (level + 1))
  <2>1. q \in Nat /\ index \div 2^(level + 1) = q \div 2
    <3>1. index \in Nat /\ level \in Nat
        OBVIOUS
    <3>2. QED BY <3>1, Ancestor, Zenon
  <2>2. m \in Nat /\ 2^(LEVELS - level) = 2 * m
    <3>1. LEVELS - (level + 1) \in Nat /\ (LEVELS - (level + 1)) + 1 = LEVELS - level
        OBVIOUS
    <3>2. QED BY <3>1, PowerDouble, PowerPositive
  <2>3. q \in 0 .. 2 * m - 1
      BY <1>2, <2>2
  <2> HIDE DEF q, m
  <2>4. q \div 2 \in 0 .. m - 1
      BY <2>1, <2>2, <2>3, SMT
  <2>5. In(level + 1)
      BY <2>1, <2>4 DEF q, m
  <2>6. QED BY <2>5
<1> HIDE DEF S
<1>3. 0 .. LEVELS \subseteq S
    BY <1>1, <1>2, IntervalInduction
<1>4. QED BY <1>3 DEF S

\* A node of height level + 1 and its two children exist.
LEMMA ChildrenInTree ==
    ASSUME NEW level \in 0 .. LEVELS - 1, NEW i \in 0 .. 2^(LEVELS - (level + 1)) - 1
    PROVE  /\ 2 * i \in 0 .. 2^(LEVELS - level) - 1
           /\ 2 * i + 1 \in 0 .. 2^(LEVELS - level) - 1
<1> USE SizeAssumption
<1> DEFINE m == 2^(LEVELS - (level + 1))
<1>1. LEVELS - (level + 1) \in Nat /\ (LEVELS - (level + 1)) + 1 = LEVELS - level
    OBVIOUS
<1>2. m \in Nat /\ 2^(LEVELS - level) = 2 * m
    BY <1>1, PowerDouble, PowerPositive
<1>3. i \in 0 .. m - 1
    OBVIOUS
<1> HIDE DEF m
<1>4. QED BY <1>2, <1>3

\* Only the ancestors of a leaf depend on it.
LEMMA OtherNodesUnchanged ==
    ASSUME NEW leaves, NEW leaves2, NEW index \in 0 .. CAPACITY - 1,
           \A j \in 0 .. CAPACITY - 1 : j # index => leaves2[j] = leaves[j]
    PROVE  \A level \in 0 .. LEVELS : \A i \in 0 .. 2^(LEVELS - level) - 1 :
                i # index \div 2^level => FullTree(leaves2)[level][i] = FullTree(leaves)[level][i]
<1> USE SizeAssumption, CapacityAssumption
<1> DEFINE A == FullTree(leaves)
           B == FullTree(leaves2)
           Same(level) == \A i \in 0 .. 2^(LEVELS - level) - 1 :
                            i # index \div 2^level => B[level][i] = A[level][i]
           S == {level \in 0 .. LEVELS : Same(level)}
<1>1. 0 \in S
  <2>1. 2^0 = 1 /\ LEVELS - 0 = LEVELS /\ index \div 1 = index
      BY SMT
  <2>2. A[0] = leaves /\ B[0] = leaves2
      BY TreeEquations
  <2>3. QED BY <2>1, <2>2
<1>2. ASSUME NEW level \in 0 .. LEVELS - 1, level \in S PROVE level + 1 \in S
  <2>1. ASSUME NEW i \in 0 .. 2^(LEVELS - (level + 1)) - 1, i # index \div 2^(level + 1)
        PROVE  B[level + 1][i] = A[level + 1][i]
    <3> DEFINE q == index \div 2^level
    <3>1. q \in Nat /\ i # q \div 2
      <4>1. index \in Nat /\ level \in Nat
          OBVIOUS
      <4>2. QED BY <2>1, <4>1, Ancestor, Zenon
    <3>2. i \in Int
        BY <2>1, PowerPositive
    <3>3. 2 * i # q /\ 2 * i + 1 # q
      <4> HIDE DEF q
      <4> QED BY <3>1, <3>2, SMT
    <3>4. B[level][2 * i] = A[level][2 * i] /\ B[level][2 * i + 1] = A[level][2 * i + 1]
        BY <1>2, <3>3, ChildrenInTree
    <3>5. /\ A[level + 1][i] = Hash(A[level][2 * i], A[level][2 * i + 1])
          /\ B[level + 1][i] = Hash(B[level][2 * i], B[level][2 * i + 1])
        BY TreeEquations
    <3>6. QED BY <3>4, <3>5
  <2>2. QED BY <2>1
<1> HIDE DEF S
<1>3. 0 .. LEVELS \subseteq S
    BY <1>1, <1>2, IntervalInduction
<1>4. QED BY <1>3 DEF S

\* A subtree whose leaves are all ZERO_LEAF has the root get_zero names: every
\* node that starts at or after the number n of inserted leaves.
LEMMA EmptyNodes ==
    ASSUME NEW leaves, NEW n \in Nat,
           \A j \in 0 .. CAPACITY - 1 : j >= n => leaves[j] = ZERO_LEAF
    PROVE  \A level \in 0 .. LEVELS : \A i \in 0 .. 2^(LEVELS - level) - 1 :
                2^level * i >= n => FullTree(leaves)[level][i] = get_zero[level]
<1> USE SizeAssumption, CapacityAssumption
<1> DEFINE A == FullTree(leaves)
           Empty(level) == \A i \in 0 .. 2^(LEVELS - level) - 1 :
                                2^level * i >= n => A[level][i] = get_zero[level]
           S == {level \in 0 .. LEVELS : Empty(level)}
<1>1. 0 \in S
  <2>1. 2^0 = 1 /\ LEVELS - 0 = LEVELS
      BY SMT
  <2>2. A[0] = leaves
      BY TreeEquations
  <2>3. QED BY <2>1, <2>2, ZeroEquations
<1>2. ASSUME NEW level \in 0 .. LEVELS - 1, level \in S PROVE level + 1 \in S
  <2>1. ASSUME NEW i \in 0 .. 2^(LEVELS - (level + 1)) - 1, 2^(level + 1) * i >= n
        PROVE  A[level + 1][i] = get_zero[level + 1]
    <3> DEFINE d == 2^level
    <3>1. d \in Nat \ {0} /\ (2 * d) * i >= n
        BY <2>1, PowerDouble, PowerPositive
    <3>2. i \in Nat
        BY <2>1, PowerPositive
    <3>3. d * (2 * i) >= n /\ d * (2 * i + 1) >= n
      <4> HIDE DEF d
      <4>1. d * (2 * i) = (2 * d) * i
          BY <3>1, <3>2, SMT
      <4>2. d * (2 * i + 1) = (2 * d) * i + d
          BY <3>1, <3>2, SMT
      <4>3. QED BY <3>1, <3>2, <4>1, <4>2
    <3>4. A[level][2 * i] = get_zero[level] /\ A[level][2 * i + 1] = get_zero[level]
        BY <1>2, <3>3, ChildrenInTree
    <3>5. A[level + 1][i] = Hash(A[level][2 * i], A[level][2 * i + 1])
        BY TreeEquations
    <3>6. QED BY <3>4, <3>5, ZeroEquations
  <2>2. QED BY <2>1
<1> HIDE DEF S
<1>3. 0 .. LEVELS \subseteq S
    BY <1>1, <1>2, IntervalInduction
<1>4. QED BY <1>3 DEF S

-----------------------------------------------------------------------------
(***************************************************************************)
(* insert computes the root of the complete tree.                          *)
(***************************************************************************)

\* Where the path of the next leaf is a right child, the frontier holds its left
\* sibling: what the next insertion will read is a node of the complete tree.
\* Where it is a left child, the entry is about to be overwritten.
FrontierInv ==
    \A level \in 0 .. LEVELS - 1 :
        ~ IsLeft(next_index, level)
            => filled_subtrees[level] = FullTree(Leaves)[level][next_index \div 2^level - 1]

\* Going to the next leaf, a node of the path stays or moves one to the right.
LEMMA NextQuotient ==
    ASSUME NEW a \in Nat, NEW d \in Nat \ {0}
    PROVE  (a + 1) \div d = a \div d \/ (a + 1) \div d = a \div d + 1
<1> DEFINE q == a \div d
<1>1. q \in Nat /\ d * q <= a /\ a < d * q + d
    BY DivBounds
<1> HIDE DEF q
<1>2. CASE a + 1 < d * q + d
  <2>1. d * q \in Nat /\ d * q <= a + 1
      BY <1>1
  <2>2. (a + 1) \div d = q
      BY <1>1, <1>2, <2>1, DivUnique
  <2>3. QED BY <2>2 DEF q
<1>3. CASE a + 1 = d * q + d
  <2>1. d * (q + 1) = d * q + d
      BY <1>1, SMT
  <2>2. (a + 1) \div d = q + 1
      BY <1>1, <1>3, <2>1, DivUnique
  <2>3. QED BY <2>2 DEF q
<1>4. QED
  <2>1. d * q \in Nat
      BY <1>1
  <2>2. QED BY <1>1, <1>2, <1>3, <2>1

\* The left and the right child on a path, by the parity that insert tests.
LEMMA Parity ==
    ASSUME NEW index \in Nat, NEW level \in Nat
    PROVE  LET q == index \div 2^level
           IN  /\ q \in Nat
               /\ index \div 2^(level + 1) = q \div 2
               /\ IsLeft(index, level) => q = 2 * (q \div 2)
               /\ ~ IsLeft(index, level) => q = 2 * (q \div 2) + 1
<1> DEFINE q == index \div 2^level
<1>1. q \in Nat /\ index \div 2^(level + 1) = q \div 2
    BY Ancestor
<1>2. IsLeft(index, level) <=> q % 2 = 0
    BY DEF IsLeft
<1> HIDE DEF q
<1>3. (q % 2 = 0 => q = 2 * (q \div 2)) /\ (q % 2 # 0 => q = 2 * (q \div 2) + 1)
    BY <1>1, SMT
<1>4. QED BY <1>1, <1>2, <1>3 DEF q

\* The leaves after an insertion.
LEMMA LeavesAfterInsert ==
    ASSUME TreeTypeOK, NEW S, events \in Seq(S), NEW leaf, insert(leaf)
    PROVE  /\ next_index \in 0 .. CAPACITY - 1
           /\ Leaves'[next_index] = leaf
           /\ \A j \in 0 .. CAPACITY - 1 : j # next_index => Leaves'[j] = Leaves[j]
           /\ \A j \in 0 .. CAPACITY - 1 : j >= next_index + 1 => Leaves'[j] = ZERO_LEAF
<1> USE SizeAssumption
<1> DEFINE event == [leaf |-> leaf, index |-> next_index,
                     root |-> PathHashes(leaf, next_index)[LEVELS]]
<1>1. next_index \in 0 .. CAPACITY - 1
    BY DEF insert, HasRoom, TreeTypeOK
<1>2. /\ Len(events') = next_index + 1
      /\ events'[next_index + 1] = event
      /\ \A n \in 1 .. next_index : events'[n] = events[n]
      /\ Len(events) = next_index
    BY InsertTypeOK DEF TreeTypeOK
<1>3. event.leaf = leaf
    OBVIOUS
<1> HIDE DEF event
<1>4. ASSUME NEW j \in 0 .. CAPACITY - 1
      PROVE  Leaves'[j] = IF j < next_index THEN events[j + 1].leaf
                          ELSE IF j = next_index THEN leaf ELSE ZERO_LEAF
  <2>1. Leaves'[j] = IF j < Len(events') THEN events'[j + 1].leaf ELSE ZERO_LEAF
      BY DEF Leaves
  <2>2. QED BY <1>1, <1>2, <1>3, <2>1
<1>5. ASSUME NEW j \in 0 .. CAPACITY - 1
      PROVE  Leaves[j] = IF j < next_index THEN events[j + 1].leaf ELSE ZERO_LEAF
    BY <1>2 DEF Leaves
<1>6. QED BY <1>1, <1>4, <1>5

\* The path that insert hashes is the path of the new leaf in the new complete
\* tree.
LEMMA PathOfFullTree ==
    ASSUME TreeTypeOK, NEW S, events \in Seq(S), FrontierInv, NEW leaf, insert(leaf)
    PROVE  \A level \in 0 .. LEVELS :
                PathHashes(leaf, next_index)[level]
                    = FullTree(Leaves')[level][next_index \div 2^level]
<1> USE SizeAssumption, CapacityAssumption
<1> DEFINE n == next_index
           path == PathHashes(leaf, n)
           A == FullTree(Leaves)
           B == FullTree(Leaves')
           Agree(level) == path[level] = B[level][n \div 2^level]
           T == {level \in 0 .. LEVELS : Agree(level)}
<1>1. /\ n \in 0 .. CAPACITY - 1
      /\ Leaves'[n] = leaf
      /\ \A j \in 0 .. CAPACITY - 1 : j # n => Leaves'[j] = Leaves[j]
      /\ \A j \in 0 .. CAPACITY - 1 : j >= n + 1 => Leaves'[j] = ZERO_LEAF
    BY LeavesAfterInsert
<1>2. n \in Nat /\ n + 1 \in Nat
    BY <1>1
<1>3. 0 \in T
  <2>1. 2^0 = 1 /\ n \div 1 = n
      BY <1>2, SMT
  <2>2. path[0] = leaf /\ B[0] = Leaves'
      BY PathEquations, TreeEquations
  <2>3. QED BY <1>1, <2>1, <2>2
<1>4. ASSUME NEW level \in 0 .. LEVELS - 1, level \in T PROVE level + 1 \in T
  <2> DEFINE q == n \div 2^level
             k == q \div 2
  <2>1. /\ q \in Nat
        /\ n \div 2^(level + 1) = k
        /\ IsLeft(n, level) => q = 2 * k
        /\ ~ IsLeft(n, level) => q = 2 * k + 1
    <3>1. level \in Nat
        OBVIOUS
    <3>2. QED BY <1>2, <3>1, Parity
  <2>2. level + 1 \in 0 .. LEVELS /\ level \in 0 .. LEVELS
      OBVIOUS
  <2>3. k \in 0 .. 2^(LEVELS - (level + 1)) - 1
      BY <1>1, <2>1, <2>2, AncestorInTree
  <2>4. /\ 2 * k \in 0 .. 2^(LEVELS - level) - 1
        /\ 2 * k + 1 \in 0 .. 2^(LEVELS - level) - 1
      BY <2>3, ChildrenInTree
  <2>5. B[level + 1][k] = Hash(B[level][2 * k], B[level][2 * k + 1])
      BY <2>3, TreeEquations
  <2>6. path[level] = B[level][q]
      BY <1>4
  <2>7. CASE IsLeft(n, level)
    <3>1. path[level + 1] = Hash(path[level], get_zero[level])
        BY <2>7, PathEquations
    <3>2. 2^level * (2 * k + 1) >= n + 1
      <4>1. 2^level \in Nat \ {0}
          BY PowerPositive
      <4>2. n < 2^level * q + 2^level
          BY <1>2, <4>1, DivBounds
      <4>3. q + 1 = 2 * k + 1
          BY <2>1, <2>7
      <4> HIDE DEF q, k
      <4>4. 2^level * (q + 1) = 2^level * q + 2^level
          BY <2>1, <4>1, SMT
      <4>5. QED BY <1>2, <2>1, <4>1, <4>2, <4>3, <4>4
    <3>3. B[level][2 * k + 1] = get_zero[level]
        BY <1>1, <1>2, <2>2, <2>4, <3>2, EmptyNodes
    <3>4. path[level + 1] = B[level + 1][k]
        BY <2>1, <2>5, <2>6, <2>7, <3>1, <3>3
    <3>5. QED BY <2>1, <2>2, <3>4
  <2>8. CASE ~ IsLeft(n, level)
    <3>1. path[level + 1] = Hash(filled_subtrees[level], path[level])
        BY <2>8, PathEquations
    <3>2. filled_subtrees[level] = A[level][q - 1]
        BY <2>8 DEF FrontierInv
    <3>3. q - 1 = 2 * k /\ 2 * k # q
      <4> HIDE DEF k, q
      <4>1. k \in Int
          BY <2>1, SMT DEF k
      <4>2. QED BY <2>1, <2>8, <4>1
    <3>4. B[level][2 * k] = A[level][2 * k]
        BY <1>1, <2>2, <2>4, <3>3, OtherNodesUnchanged
    <3>5. path[level + 1] = B[level + 1][k]
        BY <2>1, <2>5, <2>6, <2>8, <3>1, <3>2, <3>3, <3>4
    <3>6. QED BY <2>1, <2>2, <3>5
  <2>9. QED BY <2>7, <2>8
<1> HIDE DEF T
<1>5. 0 .. LEVELS \subseteq T
    BY <1>3, <1>4, IntervalInduction
<1>6. QED BY <1>5 DEF T

LEMMA InsertFrontierInv ==
    ASSUME TreeTypeOK, NEW S, events \in Seq(S), FrontierInv, NEW leaf, insert(leaf)
    PROVE  FrontierInv'
<1> USE SizeAssumption, CapacityAssumption
<1> DEFINE n == next_index
           path == PathHashes(leaf, n)
           A == FullTree(Leaves)
           B == FullTree(Leaves')
<1>1. /\ n \in 0 .. CAPACITY - 1
      /\ \A j \in 0 .. CAPACITY - 1 : j # n => Leaves'[j] = Leaves[j]
    BY LeavesAfterInsert
<1>2. next_index' = n + 1 /\ filled_subtrees' = Frontier(path, n) /\ n \in Nat /\ n + 1 \in Nat
    BY <1>1 DEF insert
<1>3. ASSUME NEW level \in 0 .. LEVELS - 1, ~ IsLeft(n + 1, level)
      PROVE  filled_subtrees'[level] = B[level][(n + 1) \div 2^level - 1]
  <2> DEFINE q == n \div 2^level
             r == (n + 1) \div 2^level
  <2>1. level \in Nat /\ level \in 0 .. LEVELS /\ 2^level \in Nat \ {0}
      BY PowerPositive
  <2>2. /\ q \in Nat
        /\ IsLeft(n, level) => q = 2 * (q \div 2)
        /\ ~ IsLeft(n, level) => q = 2 * (q \div 2) + 1
      BY <1>2, <2>1, Parity
  <2>3. r \in Nat /\ r = 2 * (r \div 2) + 1
      BY <1>2, <1>3, <2>1, Parity
  <2>4. r = q \/ r = q + 1
      BY <1>2, <2>1, NextQuotient
  <2>5. filled_subtrees'[level] = IF IsLeft(n, level) THEN path[level] ELSE filled_subtrees[level]
      BY <1>2 DEF Frontier
  <2>6. q \in 0 .. 2^(LEVELS - level) - 1
      BY <1>1, <2>1, AncestorInTree
  <2>7. CASE IsLeft(n, level)
    <3>1. r - 1 = q
      <4> HIDE DEF q, r
      <4> QED BY <2>2, <2>3, <2>4, <2>7, SMT
    <3>2. path[level] = B[level][q]
        BY <2>1, PathOfFullTree
    <3>3. QED BY <2>5, <2>7, <3>1, <3>2
  <2>8. CASE ~ IsLeft(n, level)
    <3>1. r = q /\ q - 1 \in 0 .. 2^(LEVELS - level) - 1 /\ q - 1 # q
      <4>1. 2^(LEVELS - level) \in Nat
          BY <2>1, PowerPositive
      <4> HIDE DEF q, r
      <4> QED BY <2>2, <2>3, <2>4, <2>6, <2>8, <4>1, SMT
    <3>2. filled_subtrees[level] = A[level][q - 1]
        BY <2>8 DEF FrontierInv
    <3>3. B[level][q - 1] = A[level][q - 1]
      <4>1. \A i \in 0 .. 2^(LEVELS - level) - 1 : i # q => B[level][i] = A[level][i]
        <5>1. \A h \in 0 .. LEVELS : \A i \in 0 .. 2^(LEVELS - h) - 1 :
                 i # n \div 2^h => B[h][i] = A[h][i]
          <6> HIDE DEF q
          <6> QED BY <1>1, OtherNodesUnchanged
        <5>2. QED BY <2>1, <5>1
      <4>2. QED BY <3>1, <4>1
    <3>4. QED BY <2>5, <2>8, <3>1, <3>2, <3>3
  <2>9. QED BY <2>7, <2>8
<1>4. QED
  <2>1. SUFFICES ASSUME NEW level \in 0 .. LEVELS - 1, ~ IsLeft(next_index', level)
                 PROVE  filled_subtrees'[level] = FullTree(Leaves')[level][next_index' \div 2^level - 1]
      BY DEF FrontierInv, IsLeft
  <2>2. QED BY <1>2, <1>3, <2>1

\* The root that insert stores is the root of the new complete tree.
LEMMA InsertRoot ==
    ASSUME TreeTypeOK, NEW S, events \in Seq(S), FrontierInv, NEW leaf, insert(leaf)
    PROVE  RootOfFullTree'
<1> USE SizeAssumption, CapacityAssumption
<1>1. next_index \in 0 .. CAPACITY - 1
    BY LeavesAfterInsert
<1>2. next_index \div 2^LEVELS = 0
  <2>1. 2^LEVELS \in Nat \ {0} /\ next_index \in Nat /\ next_index < 2^LEVELS
      BY <1>1, PowerPositive
  <2>2. 2^LEVELS * 0 = 0
      BY <2>1
  <2>3. QED BY <2>1, <2>2, DivUnique
<1>3. PathHashes(leaf, next_index)[LEVELS] = FullTree(Leaves')[LEVELS][0]
    BY <1>2, PathOfFullTree
<1>4. get_root' = PathHashes(leaf, next_index)[LEVELS]
  <2>1. SlotAfter(current_root_index) \in 0 .. ROOT_HISTORY_SIZE - 1
      BY SlotAfterCases DEF TreeTypeOK
  <2>2. QED BY <2>1 DEF insert, get_root, TreeTypeOK
<1>5. QED BY <1>3, <1>4 DEF RootOfFullTree

\* The empty tree.
LEMMA InitRoot == initialize => FrontierInv /\ RootOfFullTree
<1> USE SizeAssumption, CapacityAssumption
<1> SUFFICES ASSUME initialize PROVE FrontierInv /\ RootOfFullTree
    OBVIOUS
<1>1. FrontierInv
  <2>1. ASSUME NEW level \in 0 .. LEVELS - 1 PROVE IsLeft(next_index, level)
    <3>1. 2^level \in Nat \ {0}
        BY PowerPositive
    <3>2. 2^level * 0 = 0
        BY <3>1
    <3>3. 0 \div 2^level = 0
        BY <3>1, <3>2, DivUnique
    <3>4. next_index = 0 /\ 0 % 2 = 0
        BY DEF initialize
    <3>5. QED BY <3>3, <3>4 DEF IsLeft
  <2>2. QED BY <2>1 DEF FrontierInv
<1>2. \A j \in 0 .. CAPACITY - 1 : j >= 0 => Leaves[j] = ZERO_LEAF
    BY DEF initialize, Leaves
<1>3. FullTree(Leaves)[LEVELS][0] = get_zero[LEVELS]
  <2>1. 2^LEVELS * 0 = 0 /\ 2^(LEVELS - LEVELS) = 1
    <3>1. 2^LEVELS \in Nat
        BY PowerPositive
    <3>2. LEVELS - LEVELS = 0 /\ 2^0 = 1
        BY SMT
    <3>3. QED BY <3>1, <3>2
  <2>2. 0 \in 0 .. 2^(LEVELS - LEVELS) - 1 /\ LEVELS \in 0 .. LEVELS
      BY <2>1
  <2>3. \A i \in 0 .. 2^(LEVELS - LEVELS) - 1 :
            2^LEVELS * i >= 0 => FullTree(Leaves)[LEVELS][i] = get_zero[LEVELS]
      BY <1>2, <2>2, EmptyNodes
  <2>4. QED BY <2>1, <2>2, <2>3
<1>4. get_root = get_zero[LEVELS]
    BY DEF initialize, get_root
<1>5. QED BY <1>1, <1>3, <1>4 DEF RootOfFullTree

\* The root that insert computes from the frontier alone is the root of the
\* complete tree over all the inserted leaves, for every depth of the tree and
\* every number of leaves up to a full tree.
THEOREM RootOfFullTreeCorrect == TreeSpec => []RootOfFullTree
<1> DEFINE Inv == TreeInv /\ FrontierInv /\ RootOfFullTree
<1>1. initialize => Inv
    BY InitTreeInv, InitRoot
<1>2. Inv /\ [TreeNext]_treeVars => Inv'
  <2> SUFFICES ASSUME Inv, [TreeNext]_treeVars PROVE Inv'
      OBVIOUS
  <2>1. CASE TreeNext
    <3>1. PICK leaf \in Leaf : insert(leaf)
        BY <2>1 DEF TreeNext
    <3>2. PICK S : events \in Seq(S)
        BY DEF TreeInv
    <3>3. QED BY <3>1, <3>2, InsertTreeInv, InsertFrontierInv, InsertRoot DEF TreeInv
  <2>2. CASE UNCHANGED treeVars
    <3>1. Leaves' = Leaves
        BY <2>2 DEF Leaves, treeVars
    <3>2. QED BY <2>2, <3>1 DEF TreeInv, TreeTypeOK, RingInv, Age, RootAfter, treeVars,
                               FrontierInv, IsLeft, RootOfFullTree, get_root
  <2>3. QED BY <2>1, <2>2
<1>3. Inv => RootOfFullTree
    OBVIOUS
<1>4. QED BY <1>1, <1>2, <1>3, PTL DEF TreeSpec

-----------------------------------------------------------------------------
(***************************************************************************)
(* The roots of the past.                                                  *)
(***************************************************************************)

\* The leaves of the complete tree after the first n insertions.
LeavesAfter(n) == [i \in 0 .. CAPACITY - 1 |-> IF i < n THEN events[i + 1].leaf ELSE ZERO_LEAF]

\* Every root in the history is the root of the complete tree of its time.
HistoryInv == \A n \in 0 .. next_index : RootAfter(n) = FullTree(LeavesAfter(n))[LEVELS][0]

LEMMA LatestRoot ==
    TreeInv /\ RootOfFullTree =>
        RootAfter(next_index) = FullTree(LeavesAfter(next_index))[LEVELS][0]
<1> SUFFICES ASSUME TreeInv, RootOfFullTree
             PROVE  RootAfter(next_index) = FullTree(LeavesAfter(next_index))[LEVELS][0]
    OBVIOUS
<1> USE SizeAssumption
<1>1. /\ current_root_index \in 0 .. ROOT_HISTORY_SIZE - 1
      /\ next_index \in Nat /\ Len(events) = next_index
    BY DEF TreeInv, TreeTypeOK
<1>2. Age(current_root_index) = 0 /\ next_index - 0 = next_index
    BY <1>1 DEF Age
<1>3. get_root = RootAfter(next_index)
    BY <1>1, <1>2 DEF TreeInv, RingInv, get_root
<1>4. Leaves = LeavesAfter(next_index)
    BY <1>1 DEF Leaves, LeavesAfter
<1>5. QED BY <1>3, <1>4 DEF RootOfFullTree

LEMMA InitHistory == initialize => HistoryInv
<1> SUFFICES ASSUME initialize PROVE HistoryInv
    OBVIOUS
<1>1. RootAfter(0) = FullTree(LeavesAfter(0))[LEVELS][0] /\ next_index = 0
    BY InitTreeInv, InitRoot, LatestRoot DEF initialize
<1>2. QED BY <1>1 DEF HistoryInv

LEMMA InsertHistory ==
    ASSUME TreeInv, FrontierInv, HistoryInv, NEW leaf, insert(leaf)
    PROVE  HistoryInv'
<1> USE SizeAssumption
<1>1. PICK S : events \in Seq(S)
    BY DEF TreeInv
<1>2. TreeInv' /\ RootOfFullTree'
    BY <1>1, InsertTreeInv, InsertRoot DEF TreeInv
<1>3. /\ next_index \in Nat /\ next_index' = next_index + 1
      /\ \A n \in 1 .. next_index : events'[n] = events[n]
  <2>1. TreeTypeOK
      BY DEF TreeInv
  <2>2. next_index \in Nat
      BY <2>1 DEF TreeTypeOK
  <2>3. QED BY <1>1, <2>1, <2>2, InsertTypeOK
<1>4. (RootAfter(next_index) = FullTree(LeavesAfter(next_index))[LEVELS][0])'
    BY <1>2, LatestRoot, PTL
<1> DEFINE After(n) == [i \in 0 .. CAPACITY - 1 |->
                            IF i < n THEN events'[i + 1].leaf ELSE ZERO_LEAF]
           Root(n) == IF n = 0 THEN get_zero[LEVELS] ELSE events'[n].root
<1>5. ASSUME NEW n \in 0 .. next_index
      PROVE  Root(n) = FullTree(After(n))[LEVELS][0]
  <2>1. Root(n) = RootAfter(n)
      BY <1>3 DEF RootAfter
  <2>2. \A i \in 0 .. CAPACITY - 1 :
            (IF i < n THEN events'[i + 1].leaf ELSE ZERO_LEAF)
                = (IF i < n THEN events[i + 1].leaf ELSE ZERO_LEAF)
    <3> TAKE i \in 0 .. CAPACITY - 1
    <3>1. CASE i < n
      <4>1. i + 1 \in 1 .. next_index
          BY <1>3, <3>1
      <4>2. QED BY <1>3, <3>1, <4>1
    <3>2. QED BY <3>1
  <2>3. After(n) = LeavesAfter(n)
      BY <2>2 DEF LeavesAfter
  <2>4. QED BY <2>1, <2>3 DEF HistoryInv
<1>6. Root(next_index + 1) = FullTree(After(next_index + 1))[LEVELS][0]
    BY <1>3, <1>4 DEF RootAfter, LeavesAfter
<1> HIDE DEF Root, After
<1>7. \A n \in 0 .. next_index + 1 : Root(n) = FullTree(After(n))[LEVELS][0]
    BY <1>3, <1>5, <1>6
<1>8. QED BY <1>3, <1>7 DEF HistoryInv, RootAfter, LeavesAfter, Root, After

\* A root of the window is accepted.
LEMMA WindowAccepted ==
    ASSUME TreeInv, NEW n \in Window, RootAfter(n) # Zero
    PROVE  is_known_root(RootAfter(n))
<1>1. RootWindow
    BY RingInvWindow DEF TreeInv
<1>2. RootAfter(n) \in {RootAfter(m) : m \in Window} \ {Zero}
    OBVIOUS
<1>3. QED BY <1>1, <1>2 DEF RootWindow

\* What stuttering preserves.
LEMMA TreeStutter ==
    ASSUME UNCHANGED treeVars, TreeInv, FrontierInv, RootOfFullTree, HistoryInv
    PROVE  TreeInv' /\ FrontierInv' /\ RootOfFullTree' /\ HistoryInv'
<1>1. TreeInv'
    BY DEF TreeInv, TreeTypeOK, RingInv, Age, RootAfter, treeVars
<1>2. Leaves' = Leaves
    BY DEF Leaves, treeVars
<1>3. FrontierInv' /\ RootOfFullTree'
    BY <1>2 DEF treeVars, FrontierInv, IsLeft, RootOfFullTree, get_root
<1>4. HistoryInv'
    BY DEF treeVars, HistoryInv, RootAfter, LeavesAfter
<1>5. QED BY <1>1, <1>3, <1>4

=============================================================================
