---------------------------- MODULE WithdrawFlow ----------------------------
(***************************************************************************)
(* A note from its deposit to its withdrawal, across the system's parts:   *)
(* the contract's tree (MerkleTree), a client that inserts the leaves of   *)
(* the contract's events into its own tree (IncrementalMerkleTree), the    *)
(* circuit its proof must satisfy (WithdrawCircuit), and the contract's    *)
(* checks of a withdrawal.  Nothing keeps the two trees in step: deposits  *)
(* of others land between any two steps, the client may be behind, and a   *)
(* proof may reach the contract when its root is no longer known.  Then    *)
(* the withdrawal reverts and the owner of the note makes a new proof.     *)
(*                                                                         *)
(* The contract looks only at the form of a proof (verify_zk_proof), so    *)
(* others withdraw with nullifiers that need not belong to any note, and   *)
(* the pool may be left with too little for the owners we follow.          *)
(*                                                                         *)
(* deposit and withdraw are one step each here; GhostPool looks into them. *)
(***************************************************************************)
EXTENDS MerkleTree, FiniteSets

CONSTANTS
    Note,               \* the pairs <<secret, nullifier>> of the owners we follow
    Other,              \* the commitments others deposit
    Foreign,            \* the nullifier hashes others withdraw with
    DENOMINATION, Fee,  \* the amount of a deposit, the fees an owner may offer
    None,               \* no leaf index, no claim
    PoseidonFr(_, _),   \* the hash of the client and of the circuit
    PoseidonFr1(_)

ASSUME FlowAssumption == DENOMINATION \in Nat /\ Fee \subseteq Nat

VARIABLES
    c_next_index, c_filled_subtrees, c_roots, c_current_root_index, c_events, c_storage,
    nullifiers,     \* of the contract
    vault,          \* the contract's balance of the token
    leaf_index,     \* where each note is in the tree
    claim           \* the proof the owner of each note is about to submit

Circuit == INSTANCE WithdrawCircuit

Client == INSTANCE IncrementalMerkleTree WITH
    Hash <- PoseidonFr, next_index <- c_next_index, filled_subtrees <- c_filled_subtrees,
    roots <- c_roots, current_root_index <- c_current_root_index, events <- c_events,
    storage <- c_storage

clientTree == <<c_next_index, c_filled_subtrees, c_roots, c_current_root_index, c_events,
                c_storage>>
vars == <<treeVars, clientTree, nullifiers, vault, leaf_index, claim>>

Commitment(note) == Circuit!generate_commitment(note[1], note[2])
NullifierHash(note) == Circuit!generate_nullifier_hash(note[2])
Withdrawn(note) == NullifierHash(note) \in nullifiers

-----------------------------------------------------------------------------

Init ==
    /\ initialize
    /\ Client!new
    /\ nullifiers = {}
    /\ vault = 0
    /\ leaf_index = [note \in Note |-> None]
    /\ claim = [note \in Note |-> None]

\* The owner deposits, and reads the leaf index off the Deposit event.
deposit(note) ==
    /\ leaf_index[note] = None
    /\ vault' = vault + DENOMINATION
    /\ insert(Commitment(note))
    /\ leaf_index' = [leaf_index EXCEPT ![note] = next_index' - 1]
    /\ UNCHANGED <<clientTree, nullifiers, claim>>

deposit_other(commitment) ==
    /\ vault' = vault + DENOMINATION
    /\ insert(commitment)
    /\ UNCHANGED <<clientTree, nullifiers, leaf_index, claim>>

\* The client inserts the next leaf the contract's events tell it of.
syncMutant ==
    /\ c_next_index < next_index
    /\ Client!insert_leaf(events[next_index].leaf)
    /\ UNCHANGED <<treeVars, nullifiers, vault, leaf_index, claim>>
sync ==
    /\ c_next_index < next_index
    /\ Client!insert_leaf(events[c_next_index + 1].leaf)
    /\ UNCHANGED <<treeVars, nullifiers, vault, leaf_index, claim>>

\* The owner of a note makes a proof from the client's tree.  The witness
\* generator computes a witness only if the constraints hold.  A proof is random;
\* its coordinates are below the prime of the curve, which is not the one the
\* contract compares them with, so its form may be refused.
generate_proof(note, fee, wellFormed) ==
    /\ claim[note] = None /\ ~Withdrawn(note)
    /\ leaf_index[note] # None /\ leaf_index[note] < c_next_index
    /\ LET proof == Client!get_proof(leaf_index[note])
       IN  /\ Circuit!Withdraw(proof.root, NullifierHash(note), note[1], note[2],
                               proof.path_elements, proof.path_indices)
           /\ claim' = [claim EXCEPT ![note] =
                           [root |-> proof.root, nullifier_hash |-> NullifierHash(note),
                            fee |-> fee, wellFormed |-> wellFormed, size |-> c_next_index]]
    /\ UNCHANGED <<treeVars, clientTree, nullifiers, vault, leaf_index>>

\* The form of a proof and of its public inputs.
verify_zk_proof(c) == c.wellFormed /\ c.root # Zero /\ c.nullifier_hash # Zero

\* What withdraw asserts of a claim.
AcceptsMutant(c) ==
    /\ c.nullifier_hash \notin nullifiers
    /\ c.root = get_root
    /\ verify_zk_proof(c)
    /\ DENOMINATION > c.fee
Accepts(c) ==
    /\ c.nullifier_hash \notin nullifiers
    /\ is_known_root(c.root)
    /\ verify_zk_proof(c)
    /\ DENOMINATION > c.fee

\* The nullifier is marked, DENOMINATION - fee is paid to the recipient and fee to
\* the relayer.
Pay(c) ==
    /\ vault >= DENOMINATION
    /\ nullifiers' = nullifiers \cup {c.nullifier_hash}
    /\ vault' = vault - DENOMINATION

\* An assertion or a transfer that fails reverts the transaction.
withdrawMutant(note) ==
    /\ claim[note] # None
    /\ Accepts(claim[note])
    /\ Pay(claim[note])
    /\ claim' = [claim EXCEPT ![note] = None]
    /\ UNCHANGED <<treeVars, clientTree, leaf_index>>
withdraw(note) ==
    /\ claim[note] # None
    /\ IF Accepts(claim[note]) /\ vault >= DENOMINATION
       THEN Pay(claim[note])
       ELSE UNCHANGED <<nullifiers, vault>>
    /\ claim' = [claim EXCEPT ![note] = None]
    /\ UNCHANGED <<treeVars, clientTree, leaf_index>>

\* A withdrawal of somebody else, with a proof of the right form.
withdraw_other(nullifier_hash, fee) ==
    /\ LET c == [root |-> get_root, nullifier_hash |-> nullifier_hash, fee |-> fee,
                 wellFormed |-> TRUE]
       IN  Accepts(c) /\ Pay(c)
    /\ UNCHANGED <<treeVars, clientTree, leaf_index, claim>>

Next ==
    \/ \E note \in Note : deposit(note) \/ withdraw(note)
    \/ \E note \in Note, fee \in Fee, wellFormed \in BOOLEAN :
          generate_proof(note, fee, wellFormed)
    \/ \E commitment \in Other : deposit_other(commitment)
    \/ \E nullifier_hash \in Foreign, fee \in Fee : withdraw_other(nullifier_hash, fee)
    \/ sync

\* The client follows the chain, and an owner who has deposited keeps trying, with
\* a fee the contract accepts and a proof of the right form now and again.
Fairness ==
    /\ WF_vars(sync)
    /\ \A note \in Note :
          /\ SF_vars(\E fee \in Fee : fee < DENOMINATION /\ generate_proof(note, fee, TRUE))
          /\ WF_vars(withdraw(note))

Spec == Init /\ [][Next]_vars /\ Fairness

-----------------------------------------------------------------------------
(***************************************************************************)
(* Properties.                                                             *)
(***************************************************************************)

\* get_proof answers for every leaf the client has, not only the last one, with
\* a path the circuit accepts for the client's current root.
ProofForEveryLeaf ==
    \A index \in 0 .. c_next_index - 1 :
        LET proof == Client!get_proof(index)
        IN  Circuit!MerkleTreeChecker(c_events[index + 1].leaf, proof.root,
                                      proof.path_elements, proof.path_indices)

\* The root of a claim is the root, under the client's hash, of the complete tree
\* over the first leaves of the contract, however far the contract has gone on:
\* the client's copy misses none, doubles none and swaps none.
ClaimIsOfPrefix ==
    \A note \in Note : claim[note] # None =>
        claim[note].root = Client!FullTree(
            [i \in 0 .. CAPACITY - 1 |->
                IF i < claim[note].size THEN events[i + 1].leaf ELSE ZERO_LEAF])[LEVELS][0]

\* A proof is good until ROOT_HISTORY_SIZE deposits have landed since the state
\* of the tree it was made from: the contract accepts the client's root, if the
\* proof has the right form, the fee is below the denomination and nobody has
\* spent the nullifier in between.
FreshClaimAccepted ==
    \A note \in Note :
        /\ claim[note] # None /\ ~Withdrawn(note)
        /\ claim[note].wellFormed /\ claim[note].fee < DENOMINATION
        /\ next_index < claim[note].size + ROOT_HISTORY_SIZE
        => Accepts(claim[note])

\* Withdrawals of others have left the pool with less than a denomination for
\* each note of the owners we follow that is deposited and not withdrawn.
Overdrawn ==
    vault < DENOMINATION * Cardinality({note \in Note : leaf_index[note] # None
                                                           /\ ~Withdrawn(note)})

\* A deposited note is withdrawn at last, unless others overdraw the pool: deposits
\* of others may make a proof stale before it arrives, its fee or its form may be
\* refused, and the owner makes another one.
DepositIsWithdrawn ==
    \A note \in Note : leaf_index[note] # None ~> Withdrawn(note) \/ Overdrawn

=============================================================================
