------------------------------ MODULE F12Field ------------------------------
(***************************************************************************)
(* The quadratic extension of F6Field, f12field.cpp: x * omega + y with    *)
(* omega^2 = tau.                                                          *)
(***************************************************************************)
EXTENDS Integers

CONSTANTS Q, XiRe

F == INSTANCE F6Field

one == [x |-> F!zero, y |-> F!one]

conjugate(a) == [x |-> F!neg(a.x), y |-> a.y]

mul(a, b) ==
    [x |-> F!add(F!mul(a.x, b.y), F!mul(b.x, a.y)),
     y |-> F!add(F!mul(a.y, b.y), F!mulTau(F!mul(a.x, b.x)))]

\* The complex method: two products instead of three.
square(a) ==
    LET v0 == F!mul(a.x, a.y)
        ty == F!mul(F!add(a.x, a.y), F!add(a.y, F!mulTau(a.x)))
    IN  [x |-> F!dbl(v0), y |-> F!sub(F!sub(ty, v0), F!mulTau(v0))]

mulScalar(a, k) == [x |-> F!mul(a.x, k), y |-> F!mul(a.y, k)]

inv(a) ==
    LET t2 == F!inv(F!sub(F!square(a.y), F!mulTau(F!square(a.x))))
    IN  mulScalar(conjugate(a), t2)

\* Square and multiply, from the highest bit of scalar.
exp(a, scalar) ==
    LET power[k \in Nat] ==
            IF k = 0 THEN one
            ELSE LET t == square(power[k \div 2])
                 IN  IF k % 2 = 0 THEN t ELSE mul(t, a)
    IN  power[scalar]

xiToPMinus1Over6 == F!F!XiTo((Q - 1) \div 6)
xiToPSquaredMinus1Over6 == F!F!XiTo((Q * Q - 1) \div 6).a

Frobenius(a) ==
    [x |-> F!mulScalar(F!Frobenius(a.x), xiToPMinus1Over6), y |-> F!Frobenius(a.y)]

FrobeniusP2(a) ==
    [x |-> F!mulGFP(F!FrobeniusP2(a.x), xiToPSquaredMinus1Over6), y |-> F!FrobeniusP2(a.y)]

=============================================================================
