----------------------------- MODULE MerkleTree -----------------------------
(***************************************************************************)
(* The MerkleTreeComponent of contracts/src/merkle_tree.cairo: an          *)
(* append-only Merkle tree that keeps only its frontier (filled_subtrees)  *)
(* and a ring buffer of its latest roots.                                  *)
(*                                                                         *)
(* A u256 is a member of some unspecified set: the tree only hashes and    *)
(* compares.  poseidon_hash_2 is the constant operator Hash; what the      *)
(* properties need of it is assumed where it is instantiated (no           *)
(* collisions, never 0).  events is the log of LeafInserted events the     *)
(* component emits.                                                        *)
(***************************************************************************)
EXTENDS Integers, Sequences

CONSTANTS
    LEVELS,             \* depth of the tree, 20 in the code
    CAPACITY,           \* the literal 0x100000 insert compares with
    ROOT_HISTORY_SIZE,  \* slots of the ring buffer, 30 in the code
    ZERO_LEAF,          \* the initial zero value, Keccak256("tornado")
    Zero,               \* the u256 0, which an unwritten storage slot reads as
    Leaf,               \* the commitments a caller may insert
    Hash(_, _)          \* poseidon_hash_2

ASSUME SizeAssumption ==
    /\ LEVELS \in Nat
    /\ CAPACITY \in Nat
    /\ ROOT_HISTORY_SIZE \in Nat \ {0}

\* 0x100000 = 2^20: the literal of the guard agrees with LEVELS.
ASSUME CapacityAssumption == CAPACITY = 2^LEVELS

VARIABLES next_index, filled_subtrees, roots, current_root_index, events

treeVars == <<next_index, filled_subtrees, roots, current_root_index, events>>

-----------------------------------------------------------------------------

\* The root of an empty subtree of each height.
get_zero[level \in 0 .. LEVELS] ==
    IF level = 0 THEN ZERO_LEAF ELSE Hash(get_zero[level - 1], get_zero[level - 1])

\* The slot of the ring buffer a new root goes to.
SlotAfter(i) == (i + 1) % ROOT_HISTORY_SIZE

\* The node at height level on the path from leaf number index is a left child.
IsLeft(index, level) == (index \div 2^level) % 2 = 0

\* current_hash at the start of each iteration of insert's loop: the nodes on
\* the path from the new leaf to the root.  An iteration reads filled_subtrees
\* only at its own level, which no earlier iteration wrote.
PathHashes(leaf, index) ==
    LET h[level \in 0 .. LEVELS] ==
            IF level = 0 THEN leaf
            ELSE IF IsLeft(index, level - 1)
                 THEN Hash(h[level - 1], get_zero[level - 1])
                 ELSE Hash(filled_subtrees[level - 1], h[level - 1])
    IN  h

\* filled_subtrees after the loop: the left children on the path are stored.
FrontierMutant(path, index) == [level \in 0 .. LEVELS - 1 |-> path[level]]
Frontier(path, index) ==
    [level \in 0 .. LEVELS - 1 |->
        IF IsLeft(index, level) THEN path[level] ELSE filled_subtrees[level]]

is_known_rootMutant(root) ==
    /\ root # Zero
    /\ \E i \in 0 .. ROOT_HISTORY_SIZE - 2 : roots[i] = root
is_known_root(root) ==
    /\ root # Zero
    /\ \E i \in 0 .. ROOT_HISTORY_SIZE - 1 : roots[i] = root

get_root == roots[current_root_index]

-----------------------------------------------------------------------------

initialize ==
    /\ next_index = 0
    /\ filled_subtrees = [level \in 0 .. LEVELS - 1 |-> get_zero[level]]
    /\ roots = [i \in 0 .. ROOT_HISTORY_SIZE - 1 |->
                    IF i = 0 THEN get_zero[LEVELS] ELSE Zero]
    /\ current_root_index = 0
    /\ events = <<>>

\* assert(index < 0x100000, 'Merkle tree is full')
HasRoomMutant == next_index <= CAPACITY
HasRoom == next_index < CAPACITY

insert(leaf) ==
    /\ HasRoom
    /\ LET path == PathHashes(leaf, next_index)
           root == path[LEVELS]
           slot == SlotAfter(current_root_index)
       IN  /\ filled_subtrees' = Frontier(path, next_index)
           /\ roots' = [roots EXCEPT ![slot] = root]
           /\ current_root_index' = slot
           /\ next_index' = next_index + 1
           /\ events' = Append(events, [leaf |-> leaf, index |-> next_index, root |-> root])

TreeNext == \E leaf \in Leaf : insert(leaf)

TreeSpec == initialize /\ [][TreeNext]_treeVars

-----------------------------------------------------------------------------
(***************************************************************************)
(* Properties.                                                             *)
(***************************************************************************)

\* The type invariant.  What a stored hash is, is stated by the other
\* invariants: each is the root of a known tree, or Zero.
TreeTypeOK ==
    /\ next_index \in 0 .. CAPACITY
    /\ DOMAIN filled_subtrees = 0 .. LEVELS - 1
    /\ DOMAIN roots = 0 .. ROOT_HISTORY_SIZE - 1
    /\ current_root_index \in 0 .. ROOT_HISTORY_SIZE - 1
    /\ Len(events) = next_index

\* The root of the tree after its first n insertions.
RootAfter(n) == IF n = 0 THEN get_zero[LEVELS] ELSE events[n].root

\* The lengths of the tree whose roots the ring buffer should hold.
Window == {n \in 0 .. next_index : n > next_index - ROOT_HISTORY_SIZE}

\* is_known_root accepts exactly the roots of the latest ROOT_HISTORY_SIZE
\* states of the tree, the empty one included: a withdrawal proved against one
\* of them goes through until ROOT_HISTORY_SIZE more deposits have landed, and
\* no older root, nor the 0 an unused slot reads as, is accepted.
RootWindow ==
    {root \in {roots[i] : i \in DOMAIN roots} : is_known_root(root)}
        = {RootAfter(n) : n \in Window} \ {Zero}

\* The leaves of the complete tree: the inserted ones, in order, then ZERO_LEAF.
Leaves == [i \in 0 .. CAPACITY - 1 |->
              IF i < Len(events) THEN events[i + 1].leaf ELSE ZERO_LEAF]

\* The definition of a Merkle tree that the incremental insert must agree with:
\* the nodes, at each height, of the complete tree over the given leaves.
FullTree(leaves) ==
    LET node[level \in 0 .. LEVELS] ==
            IF level = 0 THEN leaves
            ELSE [i \in 0 .. 2^(LEVELS - level) - 1 |->
                     Hash(node[level - 1][2 * i], node[level - 1][2 * i + 1])]
    IN  node

\* The root insert computes from the frontier is the root of the whole tree,
\* for every number of leaves up to a full tree.
RootOfFullTree == get_root = FullTree(Leaves)[LEVELS][0]

=============================================================================
