----------------------------- MODULE MCZkProver -----------------------------
(***************************************************************************)
(* ZkProver for TLC.  The threads are interchangeable.                     *)
(***************************************************************************)
EXTENDS ZkProver, TLC

Symmetry == Permutations(Caller)

=============================================================================
