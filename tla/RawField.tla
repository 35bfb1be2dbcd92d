------------------------------- MODULE RawField -----------------------------
(***************************************************************************)
(* The field of RawFr: build/fr_raw_generic.cpp and the members of RawFr   *)
(* in build/fr.cpp and fr.hpp, with limbs of a small radix.                *)
(*                                                                         *)
(* A raw element is the number that its limbs make; an operator works on   *)
(* it with the limbs, the carries and the truncations of the mpn functions *)
(* the code calls.  Elements are kept in the form of Montgomery, that is,  *)
(* multiplied by 2^256, here by Radix.                                     *)
(***************************************************************************)
EXTENDS Integers

CONSTANTS
    Prime,      \* Fr_rawq
    Word,       \* 2^64
    Limbs       \* Fr_N64

Fr == 0 .. Prime - 1

\* What limb i counts.
WordPower[i \in 0 .. Limbs] == IF i = 0 THEN 1 ELSE Word * WordPower[i - 1]
Radix == WordPower[Limbs]

\* The limbs have a bit to spare, two in the code, and Fr_np exists.
ASSUME FieldAssumption ==
    /\ Prime \in Nat \ {0, 1} /\ Word \in Nat \ {0, 1} /\ Limbs \in Nat \ {0, 1}
    /\ 2 * Prime <= Radix /\ Prime % 2 = 1
    /\ \E n \in 0 .. Word - 1 : (n * Prime + 1) % Word = 0

-----------------------------------------------------------------------------

limb(a, i) == (a \div WordPower[i]) % Word

rawAdd(a, b) ==
    LET sum == (a + b) % Radix
        carry == (a + b) \div Radix
    IN  IF carry # 0 \/ sum >= Prime THEN (sum - Prime) % Radix ELSE sum

rawSub(a, b) == IF a < b THEN (((a - b) % Radix) + Prime) % Radix ELSE a - b

rawNeg(a) == IF a # 0 THEN (Prime - a) % Radix ELSE 0

\* Fr_np: what makes the lowest limb of a product vanish.
np == CHOOSE n \in 0 .. Word - 1 : (n * Prime + 1) % Word = 0

\* The rounds that the three multiplications share: terms[i] is what round i adds
\* to the product, which has a limb more than an element.  The carry out of a
\* round goes into limb 1 of the next one, two limbs too low: it has to be 0.
Montgomery(terms) ==
    LET WithQ(product) == product + Prime * ((np * (product % Word)) % Word)
        product[i \in 0 .. Limbs - 1] ==
            IF i = 0 THEN terms[0]
            ELSE LET total == WithQ(product[i - 1])
                     carry == total \div (Radix * Word)
                 IN  (carry * Word + terms[i] + ((total \div Word) % Radix)) % (Radix * Word)
        result == (WithQ(product[Limbs - 1]) \div Word) % Radix
    IN  IF result >= Prime THEN result - Prime ELSE result

rawMMul(a, b) == Montgomery([i \in 0 .. Limbs - 1 |-> b * limb(a, i)])
rawMSquare(a) == rawMMul(a, a)
rawMMul1(a, b) == Montgomery([i \in 0 .. Limbs - 1 |-> IF i = 0 THEN a * b ELSE 0])
rawFromMontgomery(a) == Montgomery([i \in 0 .. Limbs - 1 |-> IF i = 0 THEN a ELSE 0])

\* Fr_R2 and Fr_R3.
R2 == ((Radix % Prime) * (Radix % Prime)) % Prime
R3 == (R2 * (Radix % Prime)) % Prime
rawToMontgomery(a) == rawMMul(a, R2)

\* RawFr::inv: the inverse of the raw number, and R^3 to put both factors R back.
inv(a) == rawMMul(CHOOSE y \in Fr : (a * y) % Prime = 1, R3)
div(a, b) == rawMMul(a, inv(b))

one == rawToMontgomery(1)

=============================================================================
