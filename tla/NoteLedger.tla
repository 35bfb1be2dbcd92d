----------------------------- MODULE NoteLedger -----------------------------
(***************************************************************************)
(* What the pool promises, one step per transaction: a list of notes that  *)
(* only grows, a set of spent nullifiers that only grows, and a vault that *)
(* a transaction may take at most one denomination from per nullifier it   *)
(* spends.                                                                 *)
(***************************************************************************)
EXTENDS Integers, Sequences, FiniteSets

CONSTANT DENOMINATION

VARIABLES notes, spent, vault

Init == notes = <<>> /\ spent = {} /\ vault = 0

Transact ==
    /\ Len(notes) <= Len(notes') /\ SubSeq(notes', 1, Len(notes)) = notes
    /\ spent \subseteq spent'
    /\ vault' >= vault + DENOMINATION * (Len(notes') - Len(notes)
                                           - Cardinality(spent' \ spent))

Spec == Init /\ [][Transact]_<<notes, spent, vault>>

=============================================================================
