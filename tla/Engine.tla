-------------------------------- MODULE Engine ------------------------------
(***************************************************************************)
(* The engine of alt_bn128.hpp: the fields and the two groups that prover  *)
(* and verifier are templates over, on a curve of the family of BN254.     *)
(***************************************************************************)
EXTENDS Integers, SequencesExt

CONSTANTS
    Q,              \* the prime of the field of the curve
    XiRe,           \* see F2Field
    scalarBits      \* see Curve

f2 == INSTANCE F2Field
f6 == INSTANCE F6Field
f12 == INSTANCE F12Field

g1 == INSTANCE Curve WITH
    F_add <- f2!addF1, F_sub <- f2!subF1, F_neg <- f2!negF1, F_mul <- f2!mulF1,
    F_square <- f2!squareF1, F_div <- f2!divF1, F_zero <- 0, F_one <- 1
g2 == INSTANCE Curve WITH
    F_add <- f2!add, F_sub <- f2!sub, F_neg <- f2!neg, F_mul <- f2!mul,
    F_square <- f2!square, F_div <- f2!div, F_zero <- f2!zero, F_one <- f2!one

=============================================================================
