--------------------------- MODULE MCGroth16Prover --------------------------
(***************************************************************************)
(* Groth16Prover for the circuit out = (x + y) * (x + 2y).  The signals    *)
(* are 1, out, x and y; rows 1 and 2 are those the setup adds for 1 and    *)
(* out, and row 3 is empty.                                                *)
(*                                                                         *)
(* The curve is that of the family of BN254 with u = 1: y^2 = x^3 + 5 over *)
(* 103 elements, of order 97.  The digits of 6 * u + 2 = 8 are not the     *)
(* sparsest ones, so that a -1 occurs.  tau is no root of unity.           *)
(***************************************************************************)
EXTENDS Groth16Prover, Pairing

MCsixuPlus2NAF == <<0, 0, 0, -1, 1>>
MCMiller(q, p) == LET ret == miller(q, p) IN ret
MCFinalExponentiation(in) == LET t0 == finalExponentiation(in) IN t0
MCG1one == [x |-> 2, y |-> 61]
MCG2one == [x |-> [a |-> 42, b |-> 98], y |-> [a |-> 88, b |-> 47]]

ASSUME OrderAssumption == Prime = Q - 6 * u ^ 2

Entry(m, c, s, coef) == [m |-> m, c |-> c, s |-> s, coef |-> coef]

MCcoefs == << Entry(0, 0, 2, 1), Entry(0, 0, 3, 1), Entry(1, 0, 2, 1), Entry(1, 0, 3, 2),
              Entry(0, 1, 0, 1), Entry(0, 2, 1, 1) >>
MCMatrix == {MCcoefs[i] : i \in 1 .. 6} \cup {Entry(2, 0, 1, 1)}
MCToxic == [tau |-> 3, alpha |-> 5, beta |-> 6, gamma |-> 7, delta |-> 10]

Signals(out, x, y) == [s \in 0 .. 3 |-> <<1, out, x, y>>[s + 1]]

\* The second one makes points zero; the last one satisfies no constraint.
MCWitness == {Signals(77, 3, 4), Signals(0, 1, 96), Signals(78, 3, 4)}

=============================================================================
