------------------------------- MODULE F2Field ------------------------------
(***************************************************************************)
(* The quadratic extension of ffiasm, f2field.cpp, over RawFq with the     *)
(* non-residue -1: a + b * i.  An element of RawFq is the number it stands *)
(* for; its form of Montgomery is that of RawField.                        *)
(***************************************************************************)
EXTENDS Integers

CONSTANTS
    Q,      \* the prime of the field that the curve is over
    XiRe    \* the sextic non-residue xi is XiRe + i; 9 for BN254

\* RawFq.
addF1(x, y) == (x + y) % Q
subF1(x, y) == (x - y) % Q
negF1(x) == (-x) % Q
mulF1(x, y) == (x * y) % Q
squareF1(x) == (x * x) % Q
invF1(x) == IF x = 0 THEN 0 ELSE CHOOSE y \in 1 .. Q - 1 : (x * y) % Q = 1
divF1(x, y) == (x * invF1(y)) % Q

zero == [a |-> 0, b |-> 0]
one == [a |-> 1, b |-> 0]
xi == [a |-> XiRe, b |-> 1]

add(x, y) == [a |-> (x.a + y.a) % Q, b |-> (x.b + y.b) % Q]
sub(x, y) == [a |-> (x.a - y.a) % Q, b |-> (x.b - y.b) % Q]
neg(x) == [a |-> (-x.a) % Q, b |-> (-x.b) % Q]
dbl(x) == add(x, x)
conjugate(x) == [a |-> x.a, b |-> (-x.b) % Q]

\* Three products instead of four.
mul(x, y) ==
    LET aa == x.a * y.a
        bb == x.b * y.b
    IN  [a |-> (aa - bb) % Q, b |-> ((x.a + x.b) * (y.a + y.b) - aa - bb) % Q]

mulScalar(x, k) == [a |-> (x.a * k) % Q, b |-> (x.b * k) % Q]

mulXi(x) == [a |-> (XiRe * x.a - x.b) % Q, b |-> (XiRe * x.b + x.a) % Q]

square(x) == [a |-> ((x.a + x.b) * (x.a - x.b)) % Q, b |-> (2 * x.a * x.b) % Q]

inv(x) ==
    LET t == invF1((x.a * x.a + x.b * x.b) % Q)
    IN  [a |-> (x.a * t) % Q, b |-> (-x.b * t) % Q]

div(x, y) == mul(x, inv(y))

\* xi ^ n, for the constants of the Frobenius maps, which the code spells out.
XiTo(n) ==
    LET power[k \in Nat] ==
            IF k = 0 THEN one
            ELSE LET half == power[k \div 2]
                 IN  IF k % 2 = 0 THEN square(half) ELSE mul(square(half), xi)
    IN  power[n]

=============================================================================
