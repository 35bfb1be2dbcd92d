--------------------------- MODULE WithdrawCircuit --------------------------
(***************************************************************************)
(* The constraints of circuits/withdraw.circom and circuits/               *)
(* merkleTree.circom, as predicates on their signals, and the two hashes   *)
(* the client computes its signals with (src/module/cryptography).  A      *)
(* field element is a member of some unspecified set; Poseidon over BN254  *)
(* is the operator PoseidonFr for two inputs and PoseidonFr1 for one.      *)
(***************************************************************************)
EXTENDS Integers

CONSTANTS
    LEVELS,             \* Withdraw(20)
    PoseidonFr(_, _),   \* Poseidon(2)
    PoseidonFr1(_)      \* Poseidon(1)

\* The two inputs, swapped if the selector is 1.
DualMux(in, s) == IF s = 0 THEN in ELSE <<in[2], in[1]>>

\* The hash of the node above level, for every level of the path.
PathOf(leaf, pathElements, pathIndices) ==
    LET hash[level \in 0 .. LEVELS] ==
            IF level = 0 THEN leaf
            ELSE LET out == DualMux(<<hash[level - 1], pathElements[level - 1]>>,
                                    pathIndices[level - 1])
                 IN  PoseidonFr(out[1], out[2])
    IN  hash

MerkleTreeChecker(leaf, root, pathElements, pathIndices) ==
    /\ \A level \in 0 .. LEVELS - 1 : pathIndices[level] \in {0, 1}
    /\ root = PathOf(leaf, pathElements, pathIndices)[LEVELS]

generate_commitment(secret, nullifier) == PoseidonFr(secret, nullifier)

generate_nullifier_hash(nullifier) == PoseidonFr1(nullifier)

\* The constraints on recipient, relayer, fee and refund are squares, which
\* every value satisfies.
Withdraw(root, nullifierHash, secret, nullifier, pathElements, pathIndices) ==
    /\ nullifierHash = PoseidonFr1(nullifier)
    /\ MerkleTreeChecker(PoseidonFr(secret, nullifier), root, pathElements, pathIndices)

=============================================================================
