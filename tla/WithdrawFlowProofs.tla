------------------------- MODULE WithdrawFlowProofs -------------------------
(***************************************************************************)
(* Proofs about WithdrawFlow, for every depth and history size: that the   *)
(* client's tree answers for each of its leaves with a path the circuit    *)
(* accepts, and that a claim's root is the root of a prefix of the leaves  *)
(* of the contract.  Nothing is assumed of the two hashes.                 *)
(***************************************************************************)
EXTENDS WithdrawFlow, MerkleTreeProofs

\* What MerkleTreeProofs proves of the contract's tree, for the client's.
ClientTree == INSTANCE MerkleTreeProofs WITH
    Hash <- PoseidonFr, next_index <- c_next_index, filled_subtrees <- c_filled_subtrees,
    roots <- c_roots, current_root_index <- c_current_root_index, events <- c_events

\* The client's tree has the fields and the insertion of a MerkleTree.
LEMMA ClientIsTree ==
    /\ Client!initialize <=> ClientTree!initialize
    /\ \A leaf : Client!insert(leaf) <=> ClientTree!insert(leaf)
    /\ Client!get_zero = ClientTree!get_zero
    /\ Client!get_root = ClientTree!get_root
    /\ \A index, level : Client!IsLeft(index, level) <=> ClientTree!IsLeft(index, level)
    /\ \A leaf, index : Client!PathHashes(leaf, index) = ClientTree!PathHashes(leaf, index)
<1>1. Client!get_zero = ClientTree!get_zero
    BY DEF Client!get_zero, ClientTree!get_zero
<1>2. Client!get_root = ClientTree!get_root
    BY DEF Client!get_root, ClientTree!get_root
<1>3. \A index, level : Client!IsLeft(index, level) <=> ClientTree!IsLeft(index, level)
    BY DEF Client!IsLeft, ClientTree!IsLeft
<1>4. \A leaf, index : Client!PathHashes(leaf, index) = ClientTree!PathHashes(leaf, index)
    BY DEF Client!PathHashes, ClientTree!PathHashes, Client!get_zero, ClientTree!get_zero,
           Client!IsLeft, ClientTree!IsLeft
<1>5. Client!initialize <=> ClientTree!initialize
    BY <1>1 DEF Client!initialize, ClientTree!initialize
<1>6. ASSUME NEW leaf PROVE Client!insert(leaf) <=> ClientTree!insert(leaf)
  <2>1. \A path, index : Client!Frontier(path, index) = ClientTree!Frontier(path, index)
      BY DEF Client!Frontier, ClientTree!Frontier, Client!IsLeft, ClientTree!IsLeft
  <2>2. \A i : Client!SlotAfter(i) = ClientTree!SlotAfter(i)
      BY DEF Client!SlotAfter, ClientTree!SlotAfter
  <2>3. Client!HasRoom <=> ClientTree!HasRoom
      BY DEF Client!HasRoom, ClientTree!HasRoom
  <2>4. QED BY <1>4, <2>1, <2>2, <2>3 DEF Client!insert, ClientTree!insert
<1>7. QED BY <1>1, <1>2, <1>3, <1>4, <1>5, <1>6

-----------------------------------------------------------------------------
(***************************************************************************)
(* The nodes the client stores.                                            *)
(***************************************************************************)

\* The complete tree over the client's leaves.
Node == ClientTree!FullTree(ClientTree!Leaves)

\* MerkleStorage holds nodes of the complete tree, and every node it does not
\* hold is the root of an empty subtree: get_proof may answer for any leaf.
StorageInv ==
    \A level \in 0 .. LEVELS : \A i \in 0 .. 2^(LEVELS - level) - 1 :
        Node[level][i] = IF <<level, i>> \in DOMAIN c_storage
                         THEN c_storage[<<level, i>>]
                         ELSE ClientTree!get_zero[level]

LEMMA InitStorage == Client!new => StorageInv
<1> SUFFICES ASSUME Client!new PROVE StorageInv
    OBVIOUS
<1> USE SizeAssumption, CapacityAssumption
<1>1. c_storage = <<>> /\ ClientTree!initialize
    BY ClientIsTree DEF Client!new
<1>2. \A j \in 0 .. CAPACITY - 1 : j >= 0 => ClientTree!Leaves[j] = ZERO_LEAF
    BY <1>1 DEF ClientTree!initialize, ClientTree!Leaves
<1>3. \A level \in 0 .. LEVELS : \A i \in 0 .. 2^(LEVELS - level) - 1 :
        2^level * i >= 0 => Node[level][i] = ClientTree!get_zero[level]
    BY <1>2, ClientTree!EmptyNodes DEF Node
<1>4. ASSUME NEW level \in 0 .. LEVELS, NEW i \in 0 .. 2^(LEVELS - level) - 1
      PROVE  2^level * i >= 0
  <2>1. 2^level \in Nat /\ i \in Nat
      BY PowerPositive
  <2>2. QED BY <2>1, SMT
<1>5. DOMAIN c_storage = {}
    BY <1>1
<1>6. QED BY <1>3, <1>4, <1>5 DEF StorageInv

LEMMA InsertStorage ==
    ASSUME ClientTree!TreeInv, ClientTree!FrontierInv, StorageInv,
           NEW leaf, Client!insert_leaf(leaf)
    PROVE  StorageInv'
<1> USE SizeAssumption, CapacityAssumption
<1> DEFINE n == c_next_index
           path == ClientTree!PathHashes(leaf, n)
           onPath == {<<level, n \div 2^level>> : level \in 0 .. LEVELS}
           left == {<<level, n \div 2^level - 1>> :
                        level \in {l \in 0 .. LEVELS - 1 : ~ClientTree!IsLeft(n, l)}}
           B == ClientTree!FullTree(ClientTree!Leaves')
<1>1. ClientTree!insert(leaf)
    BY ClientIsTree DEF Client!insert_leaf
<1>2. PICK S : c_events \in Seq(S)
    BY DEF ClientTree!TreeInv
<1>3. ClientTree!TreeTypeOK
    BY DEF ClientTree!TreeInv
<1>4. c_storage' = [x \in DOMAIN c_storage \cup onPath \cup left |->
                        IF x \in onPath THEN path[x[1]]
                        ELSE IF x \in left THEN c_filled_subtrees[x[1]]
                        ELSE c_storage[x]]
    BY ClientIsTree DEF Client!insert_leaf, Client!Stored
<1>5. /\ n \in 0 .. CAPACITY - 1
      /\ \A j \in 0 .. CAPACITY - 1 : j # n => ClientTree!Leaves'[j] = ClientTree!Leaves[j]
    BY <1>1, <1>2, <1>3, ClientTree!LeavesAfterInsert
<1>6. \A level \in 0 .. LEVELS : path[level] = B[level][n \div 2^level]
    BY <1>1, <1>2, <1>3, ClientTree!PathOfFullTree
<1>7. \A level \in 0 .. LEVELS : \A i \in 0 .. 2^(LEVELS - level) - 1 :
        i # n \div 2^level => B[level][i] = Node[level][i]
    BY <1>5, ClientTree!OtherNodesUnchanged DEF Node
<1>8. \A level \in 0 .. LEVELS - 1 : ~ClientTree!IsLeft(n, level) =>
        c_filled_subtrees[level] = Node[level][n \div 2^level - 1]
    BY DEF ClientTree!FrontierInv, Node
<1> HIDE DEF path, B
<1>9. ASSUME NEW level \in 0 .. LEVELS, NEW i \in 0 .. 2^(LEVELS - level) - 1
      PROVE  B[level][i] = IF <<level, i>> \in DOMAIN c_storage'
                           THEN c_storage'[<<level, i>>]
                           ELSE ClientTree!get_zero[level]
  <2> DEFINE x == <<level, i>>
  <2>1. x[1] = level
      OBVIOUS
  <2>2. x \in onPath <=> i = n \div 2^level
      OBVIOUS
  <2>3. x \in left <=> level \in 0 .. LEVELS - 1 /\ ~ClientTree!IsLeft(n, level) /\ i = n \div 2^level - 1
      OBVIOUS
  <2>4. Node[level][i] = IF x \in DOMAIN c_storage THEN c_storage[x] ELSE ClientTree!get_zero[level]
      BY DEF StorageInv
  <2> HIDE DEF x, onPath, left, n
  <2>5. CASE x \in onPath
    <3>1. x \in DOMAIN c_storage' /\ c_storage'[x] = path[level]
        BY <1>4, <2>1, <2>5
    <3>2. path[level] = B[level][i]
        BY <1>6, <2>2, <2>5
    <3>3. QED BY <3>1, <3>2 DEF x
  <2>6. CASE x \notin onPath /\ x \in left
    <3>1. x \in DOMAIN c_storage' /\ c_storage'[x] = c_filled_subtrees[level]
        BY <1>4, <2>1, <2>6
    <3>2. c_filled_subtrees[level] = Node[level][i] /\ B[level][i] = Node[level][i]
        BY <1>7, <1>8, <2>2, <2>3, <2>6
    <3>3. QED BY <3>1, <3>2 DEF x
  <2>7. CASE x \notin onPath /\ x \notin left
    <3>1. /\ x \in DOMAIN c_storage' <=> x \in DOMAIN c_storage
          /\ x \in DOMAIN c_storage => c_storage'[x] = c_storage[x]
        BY <1>4, <2>7
    <3>2. B[level][i] = Node[level][i]
        BY <1>7, <2>2, <2>7
    <3>3. QED BY <2>4, <3>1, <3>2 DEF x
  <2>8. QED BY <2>5, <2>6, <2>7
<1>10. Node' = B /\ ClientTree!get_zero' = ClientTree!get_zero
    BY DEF Node, B, ClientTree!FullTree, ClientTree!get_zero
<1>11. QED BY <1>9, <1>10 DEF StorageInv

-----------------------------------------------------------------------------
(***************************************************************************)
(* The circuit's path.                                                     *)
(***************************************************************************)

\* g is the path the circuit computes, up to height n.
CircuitPathUpTo(g, leaf, elements, indices, n) ==
    g = [level \in 0 .. n |->
            IF level = 0 THEN leaf
            ELSE LET out == Circuit!DualMux(<<g[level - 1], elements[level - 1]>>,
                                            indices[level - 1])
                 IN  PoseidonFr(out[1], out[2])]

LEMMA CircuitPathExists ==
    ASSUME NEW leaf, NEW elements, NEW indices, NEW N \in Nat
    PROVE  \E g : CircuitPathUpTo(g, leaf, elements, indices, N)
<1> DEFINE Up(v, level) == LET out == Circuit!DualMux(<<v, elements[level - 1]>>, indices[level - 1])
                           IN  PoseidonFr(out[1], out[2])
           S == {n \in Nat : \E g : CircuitPathUpTo(g, leaf, elements, indices, n)}
<1>1. 0 \in S
  <2>1. CircuitPathUpTo([level \in 0 .. 0 |-> leaf], leaf, elements, indices, 0)
      BY DEF CircuitPathUpTo
  <2>2. QED BY <2>1
<1>2. ASSUME NEW n \in Nat, n \in S PROVE n + 1 \in S
  <2>1. PICK g : CircuitPathUpTo(g, leaf, elements, indices, n)
      BY <1>2
  <2> DEFINE h == [level \in 0 .. n + 1 |-> IF level = n + 1 THEN Up(g[n], n + 1) ELSE g[level]]
  <2>2. \A level \in 0 .. n : g[level] = IF level = 0 THEN leaf ELSE Up(g[level - 1], level)
      BY <2>1 DEF CircuitPathUpTo
  <2>3. \A level \in 0 .. n + 1 : h[level] = IF level = 0 THEN leaf ELSE Up(h[level - 1], level)
    <3> HIDE DEF Up
    <3> TAKE level \in 0 .. n + 1
    <3>1. CASE level = n + 1
      <4>1. level # 0 /\ level - 1 = n /\ h[n] = g[n] /\ h[level] = Up(g[n], n + 1)
          BY <3>1
      <4>2. QED BY <3>1, <4>1
    <3>2. CASE level # n + 1
      <4>1. level \in 0 .. n /\ h[level] = g[level] /\ (level # 0 => h[level - 1] = g[level - 1])
          BY <3>2
      <4>2. QED BY <2>2, <4>1
    <3>3. QED BY <3>1, <3>2
  <2>4. h = [level \in 0 .. n + 1 |-> h[level]]
      OBVIOUS
  <2> HIDE DEF h
  <2>5. CircuitPathUpTo(h, leaf, elements, indices, n + 1)
      BY <2>3, <2>4 DEF CircuitPathUpTo
  <2>6. QED BY <2>5
<1> HIDE DEF S
<1>3. N \in S
    BY <1>1, <1>2, SetInduction
<1>4. QED BY <1>3 DEF S

\* The path of MerkleTreeChecker, with the two inputs in the order DualMux gives.
LEMMA CircuitPath ==
    ASSUME NEW leaf, NEW elements, NEW indices
    PROVE  LET path == Circuit!PathOf(leaf, elements, indices)
           IN  /\ path[0] = leaf
               /\ \A level \in 0 .. LEVELS - 1 :
                    path[level + 1] = IF indices[level] = 0
                                      THEN PoseidonFr(path[level], elements[level])
                                      ELSE PoseidonFr(elements[level], path[level])
<1> DEFINE path == Circuit!PathOf(leaf, elements, indices)
<1>1. \E g : CircuitPathUpTo(g, leaf, elements, indices, LEVELS)
    BY CircuitPathExists, SizeAssumption
<1>2. CircuitPathUpTo(path, leaf, elements, indices, LEVELS)
    BY <1>1 DEF CircuitPathUpTo, Circuit!PathOf
<1> HIDE DEF path
<1>3. path[0] = leaf
  <2>1. 0 \in 0 .. LEVELS
      BY SizeAssumption
  <2>2. \A level \in 0 .. LEVELS :
            level = 0 => path[level] = leaf
      BY <1>2 DEF CircuitPathUpTo
  <2>3. QED BY <2>1, <2>2
<1>4. ASSUME NEW level \in 0 .. LEVELS - 1
      PROVE  path[level + 1] = IF indices[level] = 0
                               THEN PoseidonFr(path[level], elements[level])
                               ELSE PoseidonFr(elements[level], path[level])
  <2> DEFINE out == Circuit!DualMux(<<path[level], elements[level]>>, indices[level])
  <2>1. level + 1 \in 0 .. LEVELS /\ level + 1 # 0 /\ (level + 1) - 1 = level
      BY SizeAssumption
  <2>2. path[level + 1] = PoseidonFr(out[1], out[2])
      BY <1>2, <2>1 DEF CircuitPathUpTo
  <2>3. out = IF indices[level] = 0 THEN <<path[level], elements[level]>>
              ELSE <<elements[level], path[level]>>
      BY DEF Circuit!DualMux
  <2> HIDE DEF out
  <2>4. QED BY <2>2, <2>3
<1>5. QED BY <1>3, <1>4 DEF path

\* What get_proof answers for a leaf of the client: the sibling of every node on
\* the leaf's path, and whether that node is a right child.
LEMMA ProofElements ==
    ASSUME StorageInv, NEW index \in 0 .. CAPACITY - 1, NEW level \in 0 .. LEVELS - 1
    PROVE  LET q == index \div 2^level
               k == index \div 2^(level + 1)
               proof == Client!get_proof(index)
           IN  /\ k \in 0 .. 2^(LEVELS - (level + 1)) - 1
               /\ \/ /\ q = 2 * k
                     /\ proof.path_indices[level] = 0
                     /\ proof.path_elements[level] = Node[level][2 * k + 1]
                  \/ /\ q = 2 * k + 1
                     /\ proof.path_indices[level] = 1
                     /\ proof.path_elements[level] = Node[level][2 * k]
<1> USE SizeAssumption, CapacityAssumption
<1> DEFINE q == index \div 2^level
           k == index \div 2^(level + 1)
           proof == Client!get_proof(index)
<1>1. index \in Nat /\ level \in Nat /\ level \in 0 .. LEVELS /\ level + 1 \in 0 .. LEVELS
    OBVIOUS
<1>2. q \in Nat /\ k = q \div 2
    BY <1>1, Ancestor
<1>3. k \in 0 .. 2^(LEVELS - (level + 1)) - 1
    BY <1>1, AncestorInTree
<1>4. 2 * k \in 0 .. 2^(LEVELS - level) - 1 /\ 2 * k + 1 \in 0 .. 2^(LEVELS - level) - 1
    BY <1>3, ChildrenInTree
<1>5. proof.path_indices[level] = q % 2 /\ proof.path_elements[level] = Client!Sibling(level, q)
    BY DEF Client!get_proof
<1> HIDE DEF proof, q, k
<1>6. k \in Int /\ ((q % 2 = 0 /\ q = 2 * k) \/ (q % 2 = 1 /\ q = 2 * k + 1))
    BY <1>2, SMT
<1>7. ASSUME NEW i \in 0 .. 2^(LEVELS - level) - 1, Client!SiblingIndex(q) = i
      PROVE  Client!Sibling(level, q) = Node[level][i]
    BY <1>1, <1>7, ClientIsTree DEF StorageInv, Client!Sibling
<1>8. CASE q % 2 = 0 /\ q = 2 * k
  <2>1. Client!SiblingIndex(q) = 2 * k + 1
      BY <1>8 DEF Client!SiblingIndex
  <2>2. QED BY <1>3, <1>4, <1>5, <1>7, <1>8, <2>1 DEF q, k, proof
<1>9. CASE q % 2 = 1 /\ q = 2 * k + 1
  <2>1. Client!SiblingIndex(q) = 2 * k
      BY <1>6, <1>9 DEF Client!SiblingIndex
  <2>2. QED BY <1>3, <1>4, <1>5, <1>7, <1>9, <2>1 DEF q, k, proof
<1>10. QED BY <1>6, <1>8, <1>9

\* The path the circuit computes from get_proof's answer is the path of the leaf
\* in the complete tree.
LEMMA CircuitPathOfLeaf ==
    ASSUME StorageInv, NEW index \in 0 .. CAPACITY - 1
    PROVE  LET proof == Client!get_proof(index)
               path == Circuit!PathOf(ClientTree!Leaves[index], proof.path_elements, proof.path_indices)
           IN  \A level \in 0 .. LEVELS : path[level] = Node[level][index \div 2^level]
<1> USE SizeAssumption, CapacityAssumption
<1> DEFINE proof == Client!get_proof(index)
           path == Circuit!PathOf(ClientTree!Leaves[index], proof.path_elements, proof.path_indices)
           Agree(level) == path[level] = Node[level][index \div 2^level]
           T == {level \in 0 .. LEVELS : Agree(level)}
<1>1. 0 \in T
  <2>1. 2^0 = 1 /\ index \div 1 = index
      BY SMT
  <2>2. path[0] = ClientTree!Leaves[index] /\ Node[0] = ClientTree!Leaves
      BY CircuitPath, ClientTree!TreeEquations DEF Node
  <2>3. QED BY <2>1, <2>2
<1>2. ASSUME NEW level \in 0 .. LEVELS - 1, level \in T PROVE level + 1 \in T
  <2> DEFINE q == index \div 2^level
             k == index \div 2^(level + 1)
  <2>1. /\ k \in 0 .. 2^(LEVELS - (level + 1)) - 1
        /\ \/ /\ q = 2 * k
              /\ proof.path_indices[level] = 0
              /\ proof.path_elements[level] = Node[level][2 * k + 1]
           \/ /\ q = 2 * k + 1
              /\ proof.path_indices[level] = 1
              /\ proof.path_elements[level] = Node[level][2 * k]
      BY ProofElements
  <2>2. path[level + 1] = IF proof.path_indices[level] = 0
                          THEN PoseidonFr(path[level], proof.path_elements[level])
                          ELSE PoseidonFr(proof.path_elements[level], path[level])
      BY CircuitPath
  <2>3. Node[level + 1][k] = PoseidonFr(Node[level][2 * k], Node[level][2 * k + 1])
      BY <2>1, ClientTree!TreeEquations DEF Node
  <2>4. path[level] = Node[level][q]
      BY <1>2
  <2> HIDE DEF proof, path, q, k
  <2>5. path[level + 1] = Node[level + 1][k]
      BY <2>1, <2>2, <2>3, <2>4
  <2>6. QED BY <2>5 DEF k
<1> HIDE DEF T
<1>3. 0 .. LEVELS \subseteq T
    BY <1>1, <1>2, IntervalInduction
<1>4. QED BY <1>3 DEF T

LEMMA ProofAccepted ==
    ASSUME ClientTree!TreeInv, ClientTree!RootOfFullTree, StorageInv
    PROVE  ProofForEveryLeaf
<1> USE SizeAssumption, CapacityAssumption
<1>1. /\ c_next_index \in 0 .. CAPACITY /\ Len(c_events) = c_next_index
    BY DEF ClientTree!TreeInv, ClientTree!TreeTypeOK
<1>2. ASSUME NEW index \in 0 .. c_next_index - 1
      PROVE  LET proof == Client!get_proof(index)
             IN  Circuit!MerkleTreeChecker(c_events[index + 1].leaf, proof.root,
                                           proof.path_elements, proof.path_indices)
  <2> DEFINE proof == Client!get_proof(index)
             path == Circuit!PathOf(c_events[index + 1].leaf, proof.path_elements, proof.path_indices)
  <2>1. index \in 0 .. CAPACITY - 1 /\ index \in Nat
      BY <1>1
  <2>2. ClientTree!Leaves[index] = c_events[index + 1].leaf
      BY <1>1, <2>1 DEF ClientTree!Leaves
  <2>3. path[LEVELS] = Node[LEVELS][index \div 2^LEVELS]
      BY <2>1, <2>2, CircuitPathOfLeaf
  <2>4. index \div 2^LEVELS = 0
    <3>1. 2^LEVELS \in Nat \ {0} /\ index < 2^LEVELS
        BY <2>1, PowerPositive
    <3>2. 2^LEVELS * 0 = 0
        BY <3>1
    <3>3. QED BY <2>1, <3>1, <3>2, DivUnique
  <2>5. proof.root = Node[LEVELS][0]
      BY ClientIsTree DEF ClientTree!RootOfFullTree, Node, Client!get_proof
  <2>6. \A level \in 0 .. LEVELS - 1 : proof.path_indices[level] \in {0, 1}
      BY <2>1, ProofElements
  <2> HIDE DEF proof, path
  <2>7. Circuit!MerkleTreeChecker(c_events[index + 1].leaf, proof.root,
                                  proof.path_elements, proof.path_indices)
      BY <2>3, <2>4, <2>5, <2>6 DEF Circuit!MerkleTreeChecker, path
  <2>8. QED BY <2>7 DEF proof
<1>3. QED BY <1>2 DEF ProofForEveryLeaf

-----------------------------------------------------------------------------
(***************************************************************************)
(* The two trees.                                                          *)
(***************************************************************************)

ContractInv == TreeInv /\ FrontierInv /\ RootOfFullTree /\ HistoryInv

ClientInv ==
    /\ ClientTree!TreeInv /\ ClientTree!FrontierInv /\ ClientTree!RootOfFullTree
    /\ ClientTree!HistoryInv
    /\ StorageInv

\* The client has the first leaves of the contract's tree.
Follows ==
    /\ c_next_index <= next_index
    /\ \A n \in 1 .. c_next_index : c_events[n].leaf = events[n].leaf

FlowInv == ContractInv /\ ClientInv /\ Follows

\* What a step does to the trees.
LEMMA StepKinds ==
    ASSUME [Next]_vars
    PROVE  \/ UNCHANGED <<treeVars, clientTree>>
           \/ (\E leaf : insert(leaf)) /\ UNCHANGED clientTree
           \/ sync
<1>1. CASE \E note \in Note : deposit(note)
    BY <1>1 DEF deposit
<1>2. CASE \/ \E note \in Note : withdraw(note)
           \/ \E note \in Note, fee \in Fee, wellFormed \in BOOLEAN :
                  generate_proof(note, fee, wellFormed)
           \/ \E nullifier_hash \in Foreign, fee \in Fee : withdraw_other(nullifier_hash, fee)
    BY <1>2 DEF generate_proof, withdraw, withdraw_other
<1>3. CASE \E commitment \in Other : deposit_other(commitment)
    BY <1>3 DEF deposit_other
<1>4. CASE UNCHANGED vars
    BY <1>4 DEF vars
<1>5. QED BY <1>1, <1>2, <1>3, <1>4 DEF Next

LEMMA ContractStep ==
    ASSUME ContractInv, (\E leaf : insert(leaf)) \/ UNCHANGED treeVars
    PROVE  ContractInv'
<1>1. CASE \E leaf : insert(leaf)
  <2>1. PICK leaf : insert(leaf)
      BY <1>1
  <2>2. PICK S : events \in Seq(S)
      BY DEF ContractInv, TreeInv
  <2>3. QED BY <2>1, <2>2, InsertTreeInv, InsertFrontierInv, InsertRoot, InsertHistory
            DEF ContractInv, TreeInv
<1>2. CASE UNCHANGED treeVars
    BY <1>2, TreeStutter DEF ContractInv
<1>3. QED BY <1>1, <1>2

LEMMA ClientStep ==
    ASSUME ClientInv, (\E leaf : Client!insert_leaf(leaf)) \/ UNCHANGED clientTree
    PROVE  ClientInv'
<1> USE SizeAssumption, CapacityAssumption
<1>1. CASE \E leaf : Client!insert_leaf(leaf)
  <2>1. PICK leaf : Client!insert_leaf(leaf)
      BY <1>1
  <2>2. ClientTree!insert(leaf)
      BY <2>1, ClientIsTree DEF Client!insert_leaf
  <2>3. PICK S : c_events \in Seq(S)
      BY DEF ClientInv, ClientTree!TreeInv
  <2>4. ClientTree!TreeTypeOK
      BY DEF ClientInv, ClientTree!TreeInv
  <2>5. ClientTree!TreeInv'
      BY <2>2, ClientTree!InsertTreeInv DEF ClientInv
  <2>6. ClientTree!FrontierInv' /\ ClientTree!RootOfFullTree'
      BY <2>2, <2>3, <2>4, ClientTree!InsertFrontierInv, ClientTree!InsertRoot DEF ClientInv
  <2>7. ClientTree!HistoryInv'
      BY <2>2, ClientTree!InsertHistory DEF ClientInv
  <2>8. StorageInv'
      BY <2>1, InsertStorage DEF ClientInv
  <2>9. QED BY <2>5, <2>6, <2>7, <2>8 DEF ClientInv
<1>2. CASE UNCHANGED clientTree
  <2>1. UNCHANGED ClientTree!treeVars /\ c_storage' = c_storage
      BY <1>2 DEF clientTree, ClientTree!treeVars
  <2>2. /\ ClientTree!TreeInv' /\ ClientTree!FrontierInv' /\ ClientTree!RootOfFullTree'
        /\ ClientTree!HistoryInv'
      BY <2>1, ClientTree!TreeStutter DEF ClientInv
  <2>3. StorageInv'
    <3>1. ClientTree!Leaves' = ClientTree!Leaves
        BY <1>2 DEF ClientTree!Leaves, clientTree
    <3>2. QED BY <2>1, <3>1 DEF ClientInv, StorageInv, Node
  <2>4. QED BY <2>2, <2>3 DEF ClientInv
<1>3. QED BY <1>1, <1>2

LEMMA FollowsStep ==
    ASSUME ContractInv, ClientInv, Follows, [Next]_vars
    PROVE  Follows'
<1> USE SizeAssumption, CapacityAssumption
<1>1. /\ TreeTypeOK /\ next_index \in Nat /\ Len(events) = next_index
      /\ ClientTree!TreeTypeOK /\ c_next_index \in Nat /\ Len(c_events) = c_next_index
    BY DEF ContractInv, TreeInv, TreeTypeOK, ClientInv, ClientTree!TreeInv, ClientTree!TreeTypeOK
<1>2. CASE UNCHANGED <<treeVars, clientTree>>
    BY <1>2 DEF Follows, treeVars, clientTree
<1>3. CASE (\E leaf : insert(leaf)) /\ UNCHANGED clientTree
  <2>1. PICK leaf : insert(leaf)
      BY <1>3
  <2>2. PICK S : events \in Seq(S)
      BY DEF ContractInv, TreeInv
  <2>3. next_index' = next_index + 1 /\ \A n \in 1 .. next_index : events'[n] = events[n]
      BY <1>1, <2>1, <2>2, InsertTypeOK
  <2>4. \A n \in 1 .. c_next_index : n \in 1 .. next_index
      BY <1>1 DEF Follows
  <2>5. c_next_index' = c_next_index /\ c_events' = c_events
      BY <1>3 DEF clientTree
  <2>6. QED BY <1>1, <2>3, <2>4, <2>5 DEF Follows
<1>4. CASE sync
  <2> DEFINE leaf == events[c_next_index + 1].leaf
             event == [leaf |-> leaf, index |-> c_next_index,
                       root |-> ClientTree!PathHashes(leaf, c_next_index)[LEVELS]]
  <2>1. c_next_index < next_index /\ UNCHANGED treeVars /\ ClientTree!insert(leaf)
      BY <1>4, ClientIsTree DEF sync, Client!insert_leaf
  <2>2. PICK S : c_events \in Seq(S)
      BY DEF ClientInv, ClientTree!TreeInv
  <2>3. /\ c_next_index' = c_next_index + 1
        /\ c_events'[c_next_index + 1] = event
        /\ \A n \in 1 .. c_next_index : c_events'[n] = c_events[n]
      BY <1>1, <2>1, <2>2, ClientTree!InsertTypeOK
  <2>4. event.leaf = leaf
      OBVIOUS
  <2>5. next_index' = next_index /\ events' = events
      BY <2>1 DEF treeVars
  <2> HIDE DEF event
  <2>6. \A n \in 1 .. c_next_index + 1 : n \in 1 .. c_next_index \/ n = c_next_index + 1
      BY <1>1
  <2>7. c_next_index + 1 <= next_index
      BY <1>1, <2>1
  <2>8. QED BY <2>3, <2>4, <2>5, <2>6, <2>7 DEF Follows
<1>5. QED BY <1>2, <1>3, <1>4, StepKinds

LEMMA InitFlowInv == Init => FlowInv
<1> SUFFICES ASSUME Init PROVE FlowInv
    OBVIOUS
<1>1. ContractInv
    BY InitTreeInv, InitRoot, InitHistory DEF Init, ContractInv
<1>2. ClientTree!initialize
    BY ClientIsTree DEF Init, Client!new
<1>3. ClientInv
    BY <1>2, SizeAssumption, CapacityAssumption, ClientTree!InitTreeInv, ClientTree!InitRoot,
       ClientTree!InitHistory, InitStorage
       DEF Init, ClientInv
<1>4. next_index = 0 /\ c_next_index = 0
    BY <1>2 DEF Init, initialize, ClientTree!initialize
<1>5. QED BY <1>1, <1>3, <1>4 DEF FlowInv, Follows

LEMMA FlowStep == FlowInv /\ [Next]_vars => FlowInv'
<1> SUFFICES ASSUME FlowInv, [Next]_vars PROVE FlowInv'
    OBVIOUS
<1>1. (\E leaf : insert(leaf)) \/ UNCHANGED treeVars
    BY StepKinds DEF sync
<1>2. (\E leaf : Client!insert_leaf(leaf)) \/ UNCHANGED clientTree
    BY StepKinds DEF sync
<1>3. QED BY <1>1, <1>2, ContractStep, ClientStep, FollowsStep DEF FlowInv

LEMMA FlowInvInvariant == Spec => []FlowInv
BY InitFlowInv, FlowStep, PTL DEF Spec

\* get_proof answers for every leaf the client has with a path the circuit
\* accepts for the client's root, for every depth of the tree and whatever hash
\* the client and the circuit share.
THEOREM ProofForEveryLeafCorrect == Spec => []ProofForEveryLeaf
<1>1. FlowInv => ProofForEveryLeaf
    BY ProofAccepted DEF FlowInv, ClientInv
<1>2. QED BY FlowInvInvariant, <1>1, PTL

\* The contract's tree in this composition: well-formed, with exactly its latest
\* roots known, and the root of the complete tree.
THEOREM FlowTreeCorrect == Spec => [](TreeTypeOK /\ RootWindow /\ RootOfFullTree)
<1>1. FlowInv => TreeTypeOK /\ RootWindow /\ RootOfFullTree
    BY RingInvWindow DEF FlowInv, ContractInv, TreeInv
<1>2. QED BY FlowInvInvariant, <1>1, PTL

-----------------------------------------------------------------------------
(***************************************************************************)
(* Claims.                                                                 *)
(***************************************************************************)

\* What is known of a claim on its way to the contract: its root is the root the
\* client had at that size.
ClaimsInv ==
    /\ DOMAIN claim = Note
    /\ \A note \in Note : claim[note] # None =>
            /\ claim[note].size \in 0 .. c_next_index
            /\ claim[note].root = ClientTree!RootAfter(claim[note].size)

\* The root in the client's proof is the root of its tree.
LEMMA ProofRoot ==
    ASSUME FlowInv, NEW index
    PROVE  Client!get_proof(index).root = ClientTree!RootAfter(c_next_index)
<1> USE SizeAssumption, CapacityAssumption
<1>1. ClientTree!TreeInv /\ ClientTree!RootOfFullTree
    BY DEF FlowInv, ClientInv
<1>2. ClientTree!get_root = ClientTree!FullTree(ClientTree!LeavesAfter(c_next_index))[LEVELS][0]
  <2>1. ClientTree!Leaves = ClientTree!LeavesAfter(c_next_index)
      BY <1>1 DEF ClientTree!TreeInv, ClientTree!TreeTypeOK, ClientTree!Leaves,
                  ClientTree!LeavesAfter
  <2>2. QED BY <1>1, <2>1 DEF ClientTree!RootOfFullTree
<1>3. QED BY <1>1, <1>2, ClientTree!LatestRoot, ClientIsTree DEF Client!get_proof

\* The client's root after n insertions, in the next state.
RootAfterStep(n) == IF n = 0 THEN ClientTree!get_zero[LEVELS] ELSE c_events'[n].root

\* The history of the client's roots only grows.
LEMMA ClientHistoryGrows ==
    ASSUME FlowInv, [Next]_vars
    PROVE  /\ c_next_index \in Nat /\ c_next_index' \in Nat /\ c_next_index <= c_next_index'
           /\ \A n \in 0 .. c_next_index : RootAfterStep(n) = ClientTree!RootAfter(n)
<1> USE SizeAssumption, CapacityAssumption
<1>1. ClientTree!TreeTypeOK /\ c_next_index \in Nat /\ ClientTree!TreeInv
    BY DEF FlowInv, ClientInv, ClientTree!TreeInv, ClientTree!TreeTypeOK
<1>2. CASE UNCHANGED clientTree
    BY <1>1, <1>2 DEF clientTree, ClientTree!RootAfter, RootAfterStep
<1>3. CASE sync
  <2>1. PICK leaf : ClientTree!insert(leaf)
      BY <1>3, ClientIsTree DEF sync, Client!insert_leaf
  <2>2. PICK S : c_events \in Seq(S)
      BY <1>1 DEF ClientTree!TreeInv
  <2>3. /\ c_next_index' = c_next_index + 1
        /\ \A n \in 1 .. c_next_index : c_events'[n] = c_events[n]
      BY <1>1, <2>1, <2>2, ClientTree!InsertTypeOK
  <2>4. QED BY <1>1, <2>3 DEF ClientTree!RootAfter, RootAfterStep
<1>4. QED BY <1>2, <1>3, StepKinds

LEMMA ClaimsStep ==
    ASSUME FlowInv, ClaimsInv, [Next]_vars
    PROVE  ClaimsInv'
<1> DEFINE Good(c) == c.size \in 0 .. c_next_index' /\ c.root = RootAfterStep(c.size)
<1>1. /\ c_next_index \in Nat /\ c_next_index' \in Nat /\ c_next_index <= c_next_index'
      /\ \A n \in 0 .. c_next_index : RootAfterStep(n) = ClientTree!RootAfter(n)
    BY ClientHistoryGrows
<1>2. ASSUME NEW note \in Note, claim[note] # None PROVE Good(claim[note])
    BY <1>1, <1>2 DEF ClaimsInv
<1>3. SUFFICES /\ DOMAIN claim' = Note
               /\ \A note \in Note : claim'[note] # None => Good(claim'[note])
    BY DEF ClaimsInv, ClientTree!RootAfter, RootAfterStep
<1>4. CASE claim' = claim
    BY <1>2, <1>4 DEF ClaimsInv
<1>5. ASSUME NEW note \in Note, NEW fee \in Fee, NEW wellFormed \in BOOLEAN,
             generate_proof(note, fee, wellFormed)
      PROVE  /\ DOMAIN claim' = Note
             /\ \A m \in Note : claim'[m] # None => Good(claim'[m])
  <2> DEFINE c == [root |-> Client!get_proof(leaf_index[note]).root,
                   nullifier_hash |-> NullifierHash(note), fee |-> fee,
                   wellFormed |-> wellFormed, size |-> c_next_index]
  <2>1. claim' = [claim EXCEPT ![note] = c]
      BY <1>5 DEF generate_proof
  <2>2. c.root = ClientTree!RootAfter(c.size) /\ c.size = c_next_index
      BY ProofRoot
  <2>3. Good(c)
      BY <1>1, <2>2
  <2> HIDE DEF c, Good
  <2>4. DOMAIN claim' = Note /\ claim'[note] = c
      BY <2>1 DEF ClaimsInv
  <2>5. ASSUME NEW m \in Note, m # note, claim'[m] # None PROVE Good(claim'[m])
    <3>1. claim'[m] = claim[m]
        BY <2>1, <2>5 DEF ClaimsInv
    <3>2. QED BY <1>2, <2>5, <3>1
  <2>6. QED BY <2>3, <2>4, <2>5
<1>6. ASSUME NEW note \in Note, withdraw(note)
      PROVE  /\ DOMAIN claim' = Note
             /\ \A m \in Note : claim'[m] # None => Good(claim'[m])
  <2>1. claim' = [claim EXCEPT ![note] = None]
      BY <1>6 DEF withdraw
  <2> HIDE DEF Good
  <2>2. DOMAIN claim' = Note /\ claim'[note] = None
      BY <2>1 DEF ClaimsInv
  <2>3. ASSUME NEW m \in Note, m # note, claim'[m] # None PROVE Good(claim'[m])
    <3>1. claim'[m] = claim[m]
        BY <2>1, <2>3 DEF ClaimsInv
    <3>2. QED BY <1>2, <2>3, <3>1
  <2>4. QED BY <2>2, <2>3
<1>7. CASE \/ \E note \in Note : deposit(note)
           \/ \E commitment \in Other : deposit_other(commitment)
           \/ \E nullifier_hash \in Foreign, fee \in Fee : withdraw_other(nullifier_hash, fee)
           \/ sync
           \/ UNCHANGED vars
    BY <1>4, <1>7 DEF deposit, deposit_other, withdraw_other, sync, vars
<1>8. QED BY <1>5, <1>6, <1>7 DEF Next

LEMMA ClaimsArePrefixes ==
    ASSUME FlowInv, ClaimsInv
    PROVE  ClaimIsOfPrefix
<1> USE SizeAssumption, CapacityAssumption
<1> SUFFICES ASSUME NEW note \in Note, claim[note] # None
             PROVE  claim[note].root = Client!FullTree(
                        [i \in 0 .. CAPACITY - 1 |->
                            IF i < claim[note].size THEN events[i + 1].leaf
                            ELSE ZERO_LEAF])[LEVELS][0]
    BY DEF ClaimIsOfPrefix
<1>1. PICK n : n = claim[note].size
    OBVIOUS
<1>2. /\ n \in 0 .. c_next_index /\ claim[note].root = ClientTree!RootAfter(n)
      /\ c_next_index \in Nat
    BY <1>1 DEF ClaimsInv, FlowInv, ClientInv, ClientTree!TreeInv, ClientTree!TreeTypeOK
<1>3. ClientTree!LeavesAfter(n) = [i \in 0 .. CAPACITY - 1 |->
                                      IF i < n THEN events[i + 1].leaf ELSE ZERO_LEAF]
  <2>1. \A i \in 0 .. CAPACITY - 1 :
            (IF i < n THEN c_events[i + 1].leaf ELSE ZERO_LEAF)
                = (IF i < n THEN events[i + 1].leaf ELSE ZERO_LEAF)
    <3> TAKE i \in 0 .. CAPACITY - 1
    <3>1. CASE i < n
      <4>1. i + 1 \in 1 .. c_next_index
          BY <1>2, <3>1
      <4>2. QED BY <3>1, <4>1 DEF FlowInv, Follows
    <3>2. QED BY <3>1
  <2>2. QED BY <2>1 DEF ClientTree!LeavesAfter
<1>4. ClientTree!RootAfter(n) = ClientTree!FullTree(ClientTree!LeavesAfter(n))[LEVELS][0]
    BY <1>2 DEF FlowInv, ClientInv, ClientTree!HistoryInv
<1>5. \A leaves : Client!FullTree(leaves) = ClientTree!FullTree(leaves)
    BY DEF Client!FullTree, ClientTree!FullTree
<1>6. QED BY <1>1, <1>2, <1>3, <1>4, <1>5

\* The root of a claim is the root of the complete tree over the first leaves of the
\* contract, for every depth, every two hashes and however deposits, the client's
\* updates and withdrawals interleave.  So whether the contract accepts it depends
\* on two things only: whether it hashes as the client does (the run
\* withdraw_flow_hashes: it does not), and how many deposits have landed since.
THEOREM ClaimIsOfPrefixCorrect == Spec => []ClaimIsOfPrefix
<1>1. Init => ClaimsInv
    BY DEF Init, ClaimsInv
<1>2. FlowInv /\ ClaimsInv /\ [Next]_vars => ClaimsInv'
    BY ClaimsStep
<1>3. FlowInv /\ ClaimsInv => ClaimIsOfPrefix
    BY ClaimsArePrefixes
<1>4. QED BY FlowInvInvariant, <1>1, <1>2, <1>3, PTL DEF Spec

=============================================================================
