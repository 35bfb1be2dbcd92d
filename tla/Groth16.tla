------------------------------- MODULE Groth16 ------------------------------
(***************************************************************************)
(* The arithmetic of rapidsnark's Groth16 prover and verifier,             *)
(* src/groth16.cpp, on a small curve, and the keys that the setup makes.   *)
(*                                                                         *)
(* Scalars keep the two forms the code keeps them in: as they are, and     *)
(* multiplied by Radix, the form of Montgomery.  Arrays start at 0.        *)
(***************************************************************************)
EXTENDS FFT, Engine

CONSTANTS
    G1one, G2one,   \* the generators of the two groups, as PointAffine
    domainSize,     \* rows of the constraint system, a power of two
    nVars,          \* signals, the constant 1 being signal 0
    nPublic,        \* public signals, which come after it
    Matrix,         \* the entries [m, c, s, coef] of the matrices A, B and C:
                    \* matrix 0, 1 or 2, row, signal, coefficient
    Toxic,          \* tau, alpha, beta, gamma and delta of the setup
    Miller(_, _),           \* Verifier::miller and finalExponentiation, which
    FinalExponentiation(_)  \* Pairing defines

Row == 0 .. domainSize - 1
Signal == 0 .. nVars - 1

ASSUME Groth16Assumption ==
    /\ domainSize \in Nat \ {0, 1} /\ nVars \in Nat /\ nPublic \in 1 .. nVars - 1
    /\ Matrix \subseteq [m : 0 .. 2, c : Row, s : Signal, coef : Fr]
    /\ Toxic \in [tau : Fr, alpha : Fr, beta : Fr, gamma : Fr \ {0}, delta : Fr \ {0}]

ASSUME CurveAssumption ==
    /\ maxDomainSize = 2 * domainSize
    /\ scalarBits >= 7 /\ Prime < 2 ^ (scalarBits - 1)

-----------------------------------------------------------------------------
(***************************************************************************)
(* The proving key and the verification key that the setup makes.  W is    *)
(* what a matrix contributes to a signal, at tau.                          *)
(***************************************************************************)

Divide(x, y) == (x * CHOOSE z \in Fr : (y * z) % Prime = 1) % Prime

\* The sum, and the product, of Op(i) for i in S.
Total(Op(_), S) == MapThenSumSet(Op, S) % Prime
Product(Op(_), S) == FoldSet(LAMBDA i, acc : (Op(i) * acc) % Prime, 1, S)

\* The roots of unity of order 2 * domainSize.
Omega(i) == powm(powm(nqr, (Prime - 1) \div (2 * domainSize)), i)

\* At tau, the Lagrange polynomial j of count roots of unity.
Lagrange(count, j) ==
    LET others == (0 .. count - 1) \ {j}
        Root(k) == Omega(((2 * domainSize) \div count) * k)
    IN  Divide(Product(LAMBDA k : (Toxic.tau - Root(k)) % Prime, others),
               Product(LAMBDA k : (Root(j) - Root(k)) % Prime, others))

W(m, s) == Total(LAMBDA e : e.coef * Lagrange(domainSize, e.c), {e \in Matrix : e.m = m /\ e.s = s})

Mixed(s) == (Toxic.beta * W(0, s) + Toxic.alpha * W(1, s) + W(2, s)) % Prime

InG1(k) == g1!toAffine(g1!mulByScalar(G1one, k))
InG2(k) == g2!toAffine(g2!mulByScalar(G2one, k))

pointsA == [s \in Signal |-> InG1(W(0, s))]
pointsB1 == [s \in Signal |-> InG1(W(1, s))]
pointsB2 == [s \in Signal |-> InG2(W(1, s))]
pointsC == [k \in 0 .. nVars - nPublic - 2 |-> InG1(Divide(Mixed(k + nPublic + 1), Toxic.delta))]
pointsH == [i \in Row |-> InG1(Divide(Lagrange(2 * domainSize, 2 * i + 1), Toxic.delta))]
IC == [k \in 0 .. nPublic |-> InG1(Divide(Mixed(k), Toxic.gamma))]

vk_alpha1 == InG1(Toxic.alpha)
vk_beta1 == InG1(Toxic.beta)
vk_beta2 == InG2(Toxic.beta)
vk_gamma2 == InG2(Toxic.gamma)
vk_delta1 == InG1(Toxic.delta)
vk_delta2 == InG2(Toxic.delta)

\* A witness satisfies the constraints.
Satisfied(wtns) ==
    \A c \in Row :
        LET Value(m) == Total(LAMBDA e : e.coef * wtns[e.s], {e \in Matrix : e.m = m /\ e.c = c})
        IN  (Value(0) * Value(1)) % Prime = Value(2)

-----------------------------------------------------------------------------
(***************************************************************************)
(* Prover::prove, but for the loops that fill a and b.                     *)
(***************************************************************************)

\* The coefficients of the polynomial with the given values at the roots of order
\* domainSize, each times a power of the root of order 2 * domainSize: fft then gives
\* its values at the other half of those roots.
ShiftMutant(x) ==
    [i \in Row |-> rawMMul(ifft(x, domainSize)[i], root(log2(domainSize), i))]
Shift(x) ==
    [i \in Row |-> rawMMul(ifft(x, domainSize)[i], root(log2(domainSize) + 1, i))]

\* What is left in a before the last multiexponentiation: A * B - C on the
\* shifted domain, no longer in the form of Montgomery.
Abc(a, b, c) == [i \in Row |-> rawFromMontgomery(rawSub(rawMMul(a[i], b[i]), c[i]))]

\* The four multiexponentiations with the witness.
Multiexps(wtns) ==
    [pi_a |-> g1!multiMulByScalarMSM(pointsA, wtns, nVars),
     pib1 |-> g1!multiMulByScalarMSM(pointsB1, wtns, nVars),
     pi_b |-> g2!multiMulByScalarMSM(pointsB2, wtns, nVars),
     pi_c |-> g1!multiMulByScalarMSM(pointsC, [i \in DOMAIN pointsC |-> wtns[i + nPublic + 1]],
                                     nVars - nPublic - 1)]

\* The proof, from the multiexponentiations and the random scalars r and s.
Assemble(e, pih, r, s) ==
    LET pi_a == g1!add(g1!add(e.pi_a, vk_alpha1), g1!mulByScalar(vk_delta1, r))
        pi_b == g2!add(g2!add(e.pi_b, vk_beta2), g2!mulByScalar(vk_delta2, s))
        pib1 == g1!add(g1!add(e.pib1, vk_beta1), g1!mulByScalar(vk_delta1, s))
        rs   == rawToMontgomery(rawMMul(r, s))
        pi_c == g1!add(g1!add(g1!add(e.pi_c, pih), g1!mulByScalar(pi_a, s)), g1!mulByScalar(pib1, r))
    IN  [A |-> g1!toAffine(pi_a), B |-> g2!toAffine(pi_b),
         C |-> g1!toAffine(g1!sub(pi_c, g1!mulByScalar(vk_delta1, rs)))]

\* What the prover writes as public signals, and parse_inputs reads.
BuildPublicString(wtns) == [i \in 1 .. nPublic |-> rawToMontgomery(wtns[i])]

-----------------------------------------------------------------------------
(***************************************************************************)
(* Verifier::verify, up to the call of pairingCheck: the pairs of a Point  *)
(* of G1 and one of G2.  alpha and C are negated into a Point whatever     *)
(* they are, see negToPoint: infinity becomes (0, 0).                      *)
(***************************************************************************)

verifyPairs(proof, inputs) ==
    LET vkX == g1!add(FoldLeft(LAMBDA sum, i :
                                   g1!add(sum, g1!mulByScalar(IC[i], rawFromMontgomery(inputs[i]))),
                               g1!zero, [i \in 1 .. nPublic |-> i]),
                      IC[0])
    IN  << <<g1!toPoint(proof.A), g2!toPoint(proof.B)>>,
           <<g1!negToPoint(vk_alpha1), g2!toPoint(vk_beta2)>>,
           <<g1!neg(vkX), g2!toPoint(vk_gamma2)>>,
           <<g1!negToPoint(proof.C), g2!toPoint(vk_delta2)>> >>

\* One iteration of pairingCheck, for a Point of G1 and one of G2.
Paired(acc, a, b) ==
    IF g1!isZero(a) \/ g2!isZero(b) THEN acc ELSE f12!mul(acc, Miller(b, a))

=============================================================================
