------------------------------- MODULE F6Field ------------------------------
(***************************************************************************)
(* The cubic extension of F2Field, f6field.cpp: x * tau^2 + y * tau + z    *)
(* with tau^3 = xi.                                                        *)
(***************************************************************************)
EXTENDS Integers

CONSTANTS Q, XiRe

F == INSTANCE F2Field

zero == [x |-> F!zero, y |-> F!zero, z |-> F!zero]
one == [x |-> F!zero, y |-> F!zero, z |-> F!one]

add(a, b) == [x |-> F!add(a.x, b.x), y |-> F!add(a.y, b.y), z |-> F!add(a.z, b.z)]
sub(a, b) == [x |-> F!sub(a.x, b.x), y |-> F!sub(a.y, b.y), z |-> F!sub(a.z, b.z)]
neg(a) == [x |-> F!neg(a.x), y |-> F!neg(a.y), z |-> F!neg(a.z)]
dbl(a) == add(a, a)

\* Six products instead of nine.
mul(a, b) ==
    LET v0 == F!mul(a.z, b.z)
        v1 == F!mul(a.y, b.y)
        v2 == F!mul(a.x, b.x)
        tz == F!sub(F!sub(F!mul(F!add(a.x, a.y), F!add(b.x, b.y)), v1), v2)
        ty == F!sub(F!sub(F!mul(F!add(a.y, a.z), F!add(b.y, b.z)), v0), v1)
        tx == F!sub(F!mul(F!add(a.x, a.z), F!add(b.x, b.z)), v0)
    IN  [x |-> F!sub(F!add(tx, v1), v2),
         y |-> F!add(ty, F!mulXi(v2)),
         z |-> F!add(F!mulXi(tz), v0)]

square(a) ==
    LET v0 == F!square(a.z)
        v1 == F!square(a.y)
        v2 == F!square(a.x)
        c0 == F!sub(F!sub(F!square(F!add(a.x, a.y)), v1), v2)
        c1 == F!sub(F!sub(F!square(F!add(a.y, a.z)), v0), v1)
        c2 == F!sub(F!square(F!add(a.x, a.z)), v0)
    IN  [x |-> F!sub(F!add(c2, v1), v2),
         y |-> F!add(c1, F!mulXi(v2)),
         z |-> F!add(F!mulXi(c0), v0)]

mulScalar(a, k) == [x |-> F!mul(a.x, k), y |-> F!mul(a.y, k), z |-> F!mul(a.z, k)]
mulGFP(a, k) ==
    [x |-> F!mulScalar(a.x, k), y |-> F!mulScalar(a.y, k), z |-> F!mulScalar(a.z, k)]
mulTau(a) == [x |-> a.y, y |-> a.z, z |-> F!mulXi(a.x)]

xiToPMinus1Over3 == F!XiTo((Q - 1) \div 3)
xiTo2PMinus2Over3 == F!XiTo((2 * Q - 2) \div 3)
xiToPSquaredMinus1Over3 == F!XiTo((Q * Q - 1) \div 3).a
xiTo2PSquaredMinus2Over3 == F!XiTo((2 * Q * Q - 2) \div 3).a

Frobenius(a) ==
    [x |-> F!mul(F!conjugate(a.x), xiTo2PMinus2Over3),
     y |-> F!mul(F!conjugate(a.y), xiToPMinus1Over3),
     z |-> F!conjugate(a.z)]

FrobeniusP2(a) ==
    [x |-> F!mulScalar(a.x, xiTo2PSquaredMinus2Over3),
     y |-> F!mulScalar(a.y, xiToPSquaredMinus1Over3),
     z |-> a.z]

inv(a) ==
    LET A == F!sub(F!square(a.z), F!mulXi(F!mul(a.x, a.y)))
        B == F!sub(F!mulXi(F!square(a.x)), F!mul(a.y, a.z))
        C_ == F!sub(F!square(a.y), F!mul(a.x, a.z))
        F_ == F!inv(F!add(F!add(F!mulXi(F!mul(C_, a.y)), F!mul(A, a.z)),
                          F!mulXi(F!mul(B, a.x))))
    IN  [x |-> F!mul(C_, F_), y |-> F!mul(B, F_), z |-> F!mul(A, F_)]

=============================================================================
