--------------------------- MODULE MCWithdrawFlow ---------------------------
(***************************************************************************)
(* WithdrawFlow with free hashes.  poseidon.cairo hashes with Starknet's   *)
(* Poseidon over the four 128-bit limbs of its inputs, poseidon.rs and the *)
(* circuit with circomlib's Poseidon over two elements of BN254's field:   *)
(* two functions that agree nowhere anyone can find.                       *)
(***************************************************************************)
EXTENDS WithdrawFlow

CONSTANTS s1, k1, k2, bn254

MCNote == {<<s1, k1>>}

StarknetPoseidon(left, right) == <<left, right>>
CircomPoseidon(left, right) == <<left, right, bn254>>
MCPoseidonFr1(input) == <<input>>

\* Others withdraw with a nullifier of no note, and with that of the note.
MCForeign == {MCPoseidonFr1(k1), MCPoseidonFr1(k2)}

=============================================================================
