----------------------------- MODULE FieldElement ---------------------------
(***************************************************************************)
(* The typed elements of the scalar field: build/fr_generic.cpp, the Fr_   *)
(* functions of build/fr.cpp and the raw functions they call, the          *)
(* arithmetic of witness calculators.  An element is short (an int) or     *)
(* long, and plain or in the form of Montgomery; an operation picks its    *)
(* way by the two types and leaves the half of the result that the new     *)
(* type does not use as it was.                                            *)
(*                                                                         *)
(* The machine applies any sequence of operations to one element, with the *)
(* result in other memory or in the place of an operand.                   *)
(***************************************************************************)
EXTENDS RawField

LOCAL INSTANCE Bitwise

CONSTANTS
    ShortBits,  \* 32, the bits of shortVal
    Operand,    \* the elements an operation may meet as its other operand
    Garbage     \* what may be in the memory a result is written to

Short == -(2 ^ (ShortBits - 1)) .. 2 ^ (ShortBits - 1) - 1
FrElement == [shortVal : Short, long : BOOLEAN, montgomery : BOOLEAN, longVal : 0 .. Radix - 1]

\* nBits, the 254 of shifts and of lboMask.
nBits == CHOOSE n \in 1 .. Prime : 2 ^ (n - 1) <= Prime /\ Prime < 2 ^ n

ASSUME ElementAssumption ==
    /\ ShortBits \in Nat \ {0, 1} /\ 2 ^ (2 * ShortBits) <= Word
    /\ 2 ^ (2 * ShortBits - 2) < Prime
    /\ Operand \subseteq FrElement /\ Garbage \subseteq FrElement

VARIABLES
    x,          \* the element the operations are applied to
    value,      \* the number of the field that the last operation should give
    how         \* how x was made: "sound", or by a call that loses something of it:
                \* "converted" elsewhere by Fr_toMontgomery, "overlaid" on an operand

vars == <<x, value, how>>

-----------------------------------------------------------------------------
(* The raw functions on a long and a short.                                *)

rawCopyS2L(v) == IF v < 0 THEN ((v % Radix) + Prime) % Radix ELSE v
rawAddLS(a, b) == rawAdd(a, b)
rawSubLS(a, b) == rawSub(a, b)
rawNegLS(a, b) ==
    LET less == Prime - b IN IF less < a THEN (((less - a) % Radix) + Prime) % Radix ELSE less - a

\* The bits above the highest of the prime are dropped.
lboMask(a) == LET low == a % 2 ^ nBits IN IF low >= Prime THEN low - Prime ELSE low

rawAnd(a, b) == lboMask(a & b)
rawOr(a, b) == lboMask(a | b)
rawXor(a, b) == lboMask(a ^^ b)
rawNot(a) == lboMask(Radix - 1 - a)
rawShl(a, n) == IF n >= nBits THEN 0 ELSE IF n = 0 THEN a ELSE lboMask((a * 2 ^ n) % Radix)
rawShr(a, n) == IF n >= nBits THEN 0 ELSE a \div 2 ^ n

-----------------------------------------------------------------------------
(* The three ways of writing a result over what was in r.                  *)

SetShort(r, v) == [r EXCEPT !.shortVal = v, !.long = FALSE, !.montgomery = FALSE]
SetLong(r, v) == [r EXCEPT !.long = TRUE, !.montgomery = FALSE, !.longVal = v]
SetMontgomery(r, v) == [r EXCEPT !.long = TRUE, !.montgomery = TRUE, !.longVal = v]
SetLongOfInt(r, v) == [SetLong(r, rawCopyS2L(v)) EXCEPT !.shortVal = 0]

has_add32_overflowMutant(v) == (v \div 2 ^ (ShortBits - 1)) % 4 = 1
has_add32_overflow(v) == (v \div 2 ^ (ShortBits - 1)) % 4 \in {1, 2}
SetInt(r, v) == IF has_add32_overflow(v) THEN SetLongOfInt(r, v) ELSE SetShort(r, v)

\* Fr_rawMMul1 by the size of a short, negated for a negative one.
rawMMulS(a, s) == IF s < 0 THEN rawNeg(rawMMul1(a, -s)) ELSE rawMMul1(a, s)

Fr_toNormal(r, a) ==
    IF a.long /\ a.montgomery THEN SetLong(r, rawFromMontgomery(a.longVal)) ELSE a
Fr_toLongNormal(r, a) ==
    IF a.long THEN Fr_toNormal(r, a) ELSE SetLongOfInt(r, a.shortVal)
\* The shortVal of r is left as it was when a is short.
Fr_toMontgomery(r, a) ==
    CASE a.montgomery -> a
      [] ~ a.montgomery /\ a.long ->
            [SetMontgomery(r, rawMMul(a.longVal, R2)) EXCEPT !.shortVal = a.shortVal]
      [] OTHER ->
            [r EXCEPT !.longVal = rawMMulS(R2, a.shortVal), !.long = FALSE, !.montgomery = TRUE]

\* What the operations keep in temporaries: only the long half is read.
LongNormal(a) == Fr_toLongNormal(a, a).longVal
LongMontgomery(a) == Fr_toMontgomery(a, a).longVal

BothShort(a, b) == ~ a.long /\ ~ b.long
PlainLong(a) == a.long /\ ~ a.montgomery
MontgomeryLong(a) == a.long /\ a.montgomery

\* A call is a record: operands a and b, what is in the memory of the result r
\* before, and over, those of "a" and "b" whose memory that is.  A function that
\* sets the type of the result first finds the new type in such an operand.
Seen(p, operand, montgomery) ==
    IF operand \in p.over
    THEN [p[operand] EXCEPT !.long = TRUE, !.montgomery = montgomery]
    ELSE p[operand]

-----------------------------------------------------------------------------
(* Arithmetic.                                                             *)

addInt(a, s) == IF s >= 0 THEN rawAddLS(a, s) ELSE rawSubLS(a, -s)
Fr_add(p) ==
    LET a == p.a
        b == p.b
    IN  CASE BothShort(a, b) -> SetInt(p.r, a.shortVal + b.shortVal)
          [] PlainLong(a) /\ PlainLong(b) -> SetLong(p.r, rawAdd(a.longVal, b.longVal))
          [] PlainLong(a) /\ ~ b.long -> SetLong(p.r, addInt(a.longVal, b.shortVal))
          [] ~ a.long /\ PlainLong(b) -> SetLong(p.r, addInt(b.longVal, a.shortVal))
          [] OTHER -> SetMontgomery(p.r, rawAdd(LongMontgomery(Seen(p, "a", TRUE)),
                                                LongMontgomery(Seen(p, "b", TRUE))))

subInt(a, s) == IF s < 0 THEN rawAddLS(a, -s) ELSE rawSubLS(a, s)
intSub(s, b) == IF s >= 0 THEN rawSub(s, b) ELSE rawNegLS(b, -s)
Fr_sub(p) ==
    LET a == p.a
        b == p.b
    IN  CASE BothShort(a, b) -> SetInt(p.r, a.shortVal - b.shortVal)
          [] PlainLong(a) /\ PlainLong(b) -> SetLong(p.r, rawSub(a.longVal, b.longVal))
          [] PlainLong(a) /\ ~ b.long -> SetLong(p.r, subInt(a.longVal, b.shortVal))
          [] ~ a.long /\ PlainLong(b) -> SetLong(p.r, intSub(a.shortVal, b.longVal))
          [] OTHER -> SetMontgomery(p.r, rawSub(LongMontgomery(Seen(p, "a", TRUE)),
                                                LongMontgomery(Seen(p, "b", TRUE))))

Fr_neg(r, a) ==
    IF a.long THEN [a EXCEPT !.longVal = rawNeg(a.longVal)] ELSE SetInt(r, -(a.shortVal))

PlainShort(a) == ~ a.long /\ ~ a.montgomery
mulRaw(a, b) ==
    CASE PlainShort(a) -> rawMMulS(b.longVal, a.shortVal)
      [] PlainShort(b) -> rawMMulS(a.longVal, b.shortVal)
      [] OTHER -> rawMMul(a.longVal, b.longVal)
\* A product of two shorts is long even where it would fit.
Fr_mul(r, a, b) ==
    CASE BothShort(a, b) -> SetLongOfInt(r, a.shortVal * b.shortVal)
      [] ~ BothShort(a, b) /\ a.montgomery /\ b.montgomery -> SetMontgomery(r, mulRaw(a, b))
      [] ~ BothShort(a, b) /\ a.montgomery # b.montgomery -> SetLong(r, mulRaw(a, b))
      [] OTHER -> SetMontgomery(r, rawMMul(mulRaw(a, b), R3))
Fr_square(r, a) ==
    CASE ~ a.long -> SetLongOfInt(r, a.shortVal * a.shortVal)
      [] PlainLong(a) -> SetMontgomery(r, rawMMul(rawMSquare(a.longVal), R3))
      [] OTHER -> SetMontgomery(r, rawMSquare(a.longVal))

-----------------------------------------------------------------------------
(* Comparison: the upper half of the field counts as negative.             *)

half == Prime \div 2
Bool(p) == IF p THEN 1 ELSE 0

rltL1L2(a, b) ==
    IF half < a THEN (IF half < b THEN a < b ELSE TRUE)
    ELSE (IF half < b THEN FALSE ELSE a < b)
rgtL1L2(a, b) ==
    IF half < a THEN (IF half < b THEN a > b ELSE FALSE)
    ELSE (IF half < b THEN TRUE ELSE a > b)
Fr_rlt(a, b) ==
    IF BothShort(a, b) THEN a.shortVal < b.shortVal ELSE rltL1L2(LongNormal(a), LongNormal(b))
Fr_rgt(a, b) ==
    IF BothShort(a, b) THEN a.shortVal > b.shortVal ELSE rgtL1L2(LongNormal(a), LongNormal(b))
Fr_req(a, b) ==
    CASE BothShort(a, b) -> a.shortVal = b.shortVal
      [] MontgomeryLong(a) \/ MontgomeryLong(b) -> LongMontgomery(a) = LongMontgomery(b)
      [] OTHER -> LongNormal(a) = LongNormal(b)
Fr_isTrue(a) == IF a.long THEN a.longVal # 0 ELSE a.shortVal # 0

-----------------------------------------------------------------------------
(* Bits and shifts.                                                        *)

NoSign(a, b) == BothShort(a, b) /\ a.shortVal >= 0 /\ b.shortVal >= 0
\* Next to a long, a short that is not negative is read without a conversion.
ReadAsIs(a, b) == ~ a.long /\ a.shortVal >= 0 /\ b.long
bitsA(p) ==
    IF ReadAsIs(p.a, p.b) THEN p.a.shortVal ELSE LongNormal(Seen(p, "a", FALSE))
bitsB(p) ==
    IF ReadAsIs(p.b, p.a) THEN p.b.shortVal ELSE LongNormal(Seen(p, "b", FALSE))
Fr_band(p) ==
    IF NoSign(p.a, p.b) THEN SetShort(p.r, p.a.shortVal & p.b.shortVal)
    ELSE SetLong(p.r, rawAnd(bitsA(p), bitsB(p)))
Fr_bor(p) ==
    IF NoSign(p.a, p.b) THEN SetShort(p.r, p.a.shortVal | p.b.shortVal)
    ELSE SetLong(p.r, rawOr(bitsA(p), bitsB(p)))
Fr_bxor(p) ==
    IF NoSign(p.a, p.b) THEN SetShort(p.r, p.a.shortVal ^^ p.b.shortVal)
    ELSE SetLong(p.r, rawXor(bitsA(p), bitsB(p)))
Fr_bnot(p) == SetLong(p.r, rawNot(LongNormal(Seen(p, "a", FALSE))))

do_shl(r, a, n) ==
    CASE ~ a.long /\ a.shortVal = 0 -> SetShort(r, 0)
      [] ~ a.long /\ a.shortVal > 0 /\ n < ShortBits - 1 /\ a.shortVal * 2 ^ n \in Short ->
            SetShort(r, a.shortVal * 2 ^ n)
      [] OTHER -> SetLong(r, rawShl(LongNormal(a), n))
do_shr(r, a, n) ==
    CASE ~ a.long /\ (a.shortVal = 0 \/ (a.shortVal > 0 /\ n >= ShortBits - 1)) -> SetShort(r, 0)
      [] ~ a.long /\ a.shortVal > 0 /\ n < ShortBits - 1 -> SetShort(r, a.shortVal \div 2 ^ n)
      [] OTHER -> SetLong(r, rawShr(LongNormal(a), n))

\* How far to shift, negative for the other direction; nBits for out of range.
shiftBy(b) ==
    LET n == LongNormal(b)
        back == Prime - n
    IN  CASE b.long -> IF n < nBits THEN n ELSE IF back < nBits THEN -back ELSE nBits
          [] OTHER -> IF b.shortVal \in -nBits + 1 .. nBits - 1 THEN b.shortVal ELSE nBits
Fr_shl(r, a, b) ==
    CASE shiftBy(b) = nBits -> SetShort(r, 0)
      [] shiftBy(b) < 0 -> do_shr(r, a, -shiftBy(b))
      [] OTHER -> do_shl(r, a, shiftBy(b))
Fr_shr(r, a, b) ==
    CASE shiftBy(b) = nBits -> SetShort(r, 0)
      [] shiftBy(b) < 0 -> do_shl(r, a, -shiftBy(b))
      [] OTHER -> do_shr(r, a, shiftBy(b))

-----------------------------------------------------------------------------
(* Conversions and what goes through GMP.                                  *)

\* Fr_fail throws: no int.
Fail == 2 ^ ShortBits
\* After the comparison with the prime only the lowest limb counts.
longNegMutant(a) ==
    LET sign == Word \div 2
        less == ((limb(a, 0) - limb(Prime, 0) + sign) % Word) - sign
    IN  IF a >= Prime \/ less \div 2 ^ (ShortBits - 1) # 0 THEN Fail ELSE less
longNeg(a) ==
    LET sign == Word \div 2
        less == ((limb(a, 0) - limb(Prime, 0) + sign) % Word) - sign
    IN  IF a >= Prime \/ less \div 2 ^ (ShortBits - 1) # -1 THEN Fail ELSE less
longNormal(a) ==
    IF a < 2 ^ (ShortBits - 1) THEN a ELSE longNeg(a)
Fr_toInt(a) == IF a.long THEN longNormal(LongNormal(a)) ELSE a.shortVal

Fr_toMpz(a) ==
    LET tmp == Fr_toNormal(a, a)
    IN  CASE tmp.long -> tmp.longVal
          [] ~ tmp.long /\ tmp.shortVal < 0 -> tmp.shortVal + Prime
          [] OTHER -> tmp.shortVal
Fr_fromMpz(r, v) == IF v \in Short THEN SetShort(r, v) ELSE SetLong(r, v)
Fr_str2element(r, n) == Fr_fromMpz(r, n % Prime)

Fr_idiv(r, a, b) == Fr_fromMpz(r, Fr_toMpz(a) \div Fr_toMpz(b))
Fr_mod(r, a, b) == Fr_fromMpz(r, Fr_toMpz(a) % Fr_toMpz(b))
Power(n, k) ==
    LET power[i \in 0 .. k] == IF i = 0 THEN 1 ELSE (n * power[i - 1]) % Prime IN power[k]
Fr_pow(r, a, b) == Fr_fromMpz(r, Power(Fr_toMpz(a), Fr_toMpz(b)))
Fr_inv(r, a) == Fr_fromMpz(r, CHOOSE n \in Fr : (n * Fr_toMpz(a)) % Prime = 1)
\* The inverse goes to a temporary that was never written: r stands for it too.
Fr_div(r, a, b) == Fr_mul(r, a, Fr_inv(r, b))

-----------------------------------------------------------------------------
(* The number of the field that an element stands for, and the meaning of  *)
(* the operations on numbers.                                              *)

Value(a) ==
    CASE ~ a.long -> a.shortVal % Prime
      [] PlainLong(a) -> a.longVal
      [] OTHER -> CHOOSE n \in Fr : (n * Radix) % Prime = a.longVal
Signed(n) == IF n <= half THEN n ELSE n - Prime
Low(n) == (n % 2 ^ nBits) % Prime
Shifted(n, k) ==
    CASE k \in 0 .. nBits - 1 -> Low(n * 2 ^ k)
      [] k \in -nBits + 1 .. -1 -> n \div 2 ^ (-k)
      [] OTHER -> 0

-----------------------------------------------------------------------------
(* The machine.                                                            *)

Literal == {0, 1, Prime - 1, Prime, Radix - 1}

Gives(result, number, way) == x' = result /\ value' = number /\ how' = way

Init ==
    \E r \in Garbage, n \in Literal :
        x = Fr_str2element(r, n) /\ value = n % Prime /\ how = "sound"

\* Another element takes the place of x.
load == \E r \in Garbage, n \in Literal : Gives(Fr_str2element(r, n), n % Prime, "sound")

\* One operand at least is x.  The result is elsewhere or over an operand.
Operands == [a : {x}, b : Operand \cup {x}] \cup [a : Operand, b : {x}]
Call(p, r, over) == [a |-> p.a, b |-> p.b, r |-> r, over |-> over]
Args ==
    {Call(p, r, {}) : p \in Operands, r \in Garbage}
    \cup {Call(p, p.a, {"a"}) : p \in Operands} \cup {Call(p, p.b, {"b"}) : p \in Operands}
    \cup {Call([a |-> x, b |-> x], x, {"a", "b"})}
Memory == Garbage \cup {x}

\* The result is laid over an operand that is still to be converted: to the form of
\* Montgomery by Fr_add and Fr_sub, to a plain long by the operations on bits.
way(overlaid) == IF overlaid THEN "overlaid" ELSE "sound"
sumWay(p) ==
    way(/\ MontgomeryLong(p.a) \/ MontgomeryLong(p.b)
        /\ \E operand \in p.over : ~ p[operand].montgomery)
bitsWay(p) ==
    way(/\ ~ NoSign(p.a, p.b)
        /\ \/ "a" \in p.over /\ ~ PlainLong(p.a) /\ ~ ReadAsIs(p.a, p.b)
           \/ "b" \in p.over /\ ~ PlainLong(p.b) /\ ~ ReadAsIs(p.b, p.a))
notWay(p) == way("a" \in p.over /\ ~ PlainLong(p.a))

add == \E p \in Args : Gives(Fr_add(p), (Value(p.a) + Value(p.b)) % Prime, sumWay(p))
sub == \E p \in Args : Gives(Fr_sub(p), (Value(p.a) - Value(p.b)) % Prime, sumWay(p))
mul == \E p \in Args :
    Gives(Fr_mul(p.r, p.a, p.b), (Value(p.a) * Value(p.b)) % Prime, "sound")
neg == \E r \in Memory : Gives(Fr_neg(r, x), (-Value(x)) % Prime, "sound")
square == \E r \in Memory : Gives(Fr_square(r, x), (Value(x) * Value(x)) % Prime, "sound")

\* With another result than its operand, Fr_toMontgomery of a short leaves the
\* shortVal of the result as it was.
convert ==
    \/ \E r \in Memory :
          \/ Gives(Fr_toNormal(r, x), Value(x), "sound")
          \/ Gives(Fr_toLongNormal(r, x), Value(x), "sound")
    \/ Gives(Fr_toMontgomery(x, x), Value(x), "sound")
    \/ \E r \in Garbage :
          Gives(Fr_toMontgomery(r, x), Value(x), IF PlainShort(x) THEN "converted" ELSE "sound")

compare == \E p \in Args :
    LET va == Signed(Value(p.a))
        vb == Signed(Value(p.b))
        Answer(given, right) == Gives(SetShort(p.r, Bool(given)), Bool(right), "sound")
    IN  \/ Answer(Fr_rlt(p.a, p.b), va < vb)         \* Fr_lt
        \/ Answer(~ Fr_rlt(p.a, p.b), va >= vb)      \* Fr_geq
        \/ Answer(Fr_rgt(p.a, p.b), va > vb)         \* Fr_gt
        \/ Answer(~ Fr_rgt(p.a, p.b), va <= vb)      \* Fr_leq
        \/ Answer(Fr_req(p.a, p.b), va = vb)         \* Fr_eq
        \/ Answer(~ Fr_req(p.a, p.b), va # vb)       \* Fr_neq
logic == \E p \in Args :
    LET va == Value(p.a)
        vb == Value(p.b)
        Answer(given, right) == Gives(SetShort(p.r, Bool(given)), Bool(right), "sound")
    IN  \/ Answer(Fr_isTrue(p.a) /\ Fr_isTrue(p.b), va # 0 /\ vb # 0)
        \/ Answer(Fr_isTrue(p.a) \/ Fr_isTrue(p.b), va # 0 \/ vb # 0)
        \/ Answer(~ Fr_isTrue(p.a), va = 0)

bits == \E p \in Args :
    LET va == Value(p.a) vb == Value(p.b)
    IN  \/ Gives(Fr_band(p), Low(va & vb), bitsWay(p))
        \/ Gives(Fr_bor(p), Low(va | vb), bitsWay(p))
        \/ Gives(Fr_bxor(p), Low(va ^^ vb), bitsWay(p))
        \/ Gives(Fr_bnot(p), Low(2 ^ nBits - 1 - va), notWay(p))
shift == \E p \in Args :
    LET k == Signed(Value(p.b))
    IN  \/ Gives(Fr_shl(p.r, p.a, p.b), Shifted(Value(p.a), k), "sound")
        \/ Gives(Fr_shr(p.r, p.a, p.b), Shifted(Value(p.a), -k), "sound")

\* GMP stops the program at a division by zero.
divide == \E p \in Args :
    LET va == Value(p.a) vb == Value(p.b)
    IN  /\ vb # 0
        /\ \/ Gives(Fr_idiv(p.r, p.a, p.b), va \div vb, "sound")
           \/ Gives(Fr_mod(p.r, p.a, p.b), va % vb, "sound")
           \/ Gives(Fr_inv(p.r, p.b), CHOOSE n \in Fr : (n * vb) % Prime = 1, "sound")
           \/ Gives(Fr_div(p.r, p.a, p.b), CHOOSE n \in Fr : (n * vb) % Prime = va, "sound")
pow == \E p \in Args :
    Gives(Fr_pow(p.r, p.a, p.b), Power(Value(p.a), Value(p.b)), "sound")

\* Nothing is said of what is computed from an element that is not sound.
Next ==
    \/ load
    \/ /\ how = "sound"
       /\ \/ add \/ sub \/ mul \/ neg \/ square \/ convert \/ compare \/ logic
          \/ bits \/ shift \/ divide \/ pow

Spec == Init /\ [][Next]_vars

-----------------------------------------------------------------------------
(* Properties.                                                             *)

\* x is in range and stands for the number that the last operation should give; a
\* short in the form of Montgomery says the same in both halves, as the operations
\* read either (Fr_mul the long one, Fr_add of two shorts the short one).
Stands ==
    /\ x \in FrElement
    /\ x.long => x.longVal < Prime
    /\ Value(x) = value
    /\ ~ x.long /\ x.montgomery => x.longVal = (value * Radix) % Prime

\* Whatever sequence of operations led here, through whatever types and with results
\* over operands too, an element stands for its number, with two exceptions: a
\* result over an operand that Fr_add, Fr_sub or an operation on bits has yet to
\* convert, and a short converted by Fr_toMontgomery into another element.  Of that
\* one the long half is right, which is all that the functions read of their
\* temporaries.
Represents ==
    /\ how = "sound" => Stands
    /\ how = "converted" => x.longVal = (value * Radix) % Prime

\* Fr_toInt gives the int that an element stands for, in any form, when it
\* stands for one; Fr_toMpz gives its number.
ConversionsExact ==
    how = "sound" =>
        /\ Fr_toMpz(x) = value
        /\ Signed(value) \in Short => Fr_toInt(x) = Signed(value)

=============================================================================
