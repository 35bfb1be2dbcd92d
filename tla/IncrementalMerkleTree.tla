------------------------ MODULE IncrementalMerkleTree -----------------------
(***************************************************************************)
(* The client's tree, src/module/merkle_tree/tree.rs: the fields and the   *)
(* insertion of the contract's tree, and the nodes seen so far, from which *)
(* get_proof answers.  Hash is poseidon_hash of src/module/cryptography.   *)
(***************************************************************************)
EXTENDS MerkleTree

VARIABLE storage    \* MerkleStorage: from <<level, index>> to a hash

clientVars == <<treeVars, storage>>

new == initialize /\ storage = <<>>

\* The nodes insert stores: those on the path of the new leaf, and the left
\* siblings of those that are right children.
Stored(path, index) ==
    LET onPath == {<<level, index \div 2^level>> : level \in 0 .. LEVELS}
        left == {<<level, index \div 2^level - 1>> :
                    level \in {l \in 0 .. LEVELS - 1 : ~IsLeft(index, l)}}
    IN  [n \in DOMAIN storage \cup onPath \cup left |->
            IF n \in onPath THEN path[n[1]]
            ELSE IF n \in left THEN filled_subtrees[n[1]]
            ELSE storage[n]]

insert_leaf(leaf) ==
    /\ insert(leaf)
    /\ storage' = Stored(PathHashes(leaf, next_index), next_index)

\* curr ^ 1, and the node stored there, or the empty subtree.
SiblingIndexMutant(curr) == curr + 1
SiblingIndex(curr) == IF curr % 2 = 0 THEN curr + 1 ELSE curr - 1
Sibling(level, curr) ==
    LET n == <<level, SiblingIndex(curr)>>
    IN  IF n \in DOMAIN storage THEN storage[n] ELSE get_zero[level]

get_proof(index) ==
    [root |-> get_root,
     path_elements |-> [level \in 0 .. LEVELS - 1 |-> Sibling(level, index \div 2^level)],
     path_indices |-> [level \in 0 .. LEVELS - 1 |-> (index \div 2^level) % 2]]

=============================================================================
