-------------------------------- MODULE FFT ---------------------------------
(***************************************************************************)
(* The fast Fourier transform of ffiasm, fft.cpp.  Arrays start at 0.  Its *)
(* loops are parallel, and each element belongs to one iteration of them.  *)
(***************************************************************************)
EXTENDS RawField, SequencesExt

CONSTANT maxDomainSize

-----------------------------------------------------------------------------
(***************************************************************************)
(* The constructor.                                                        *)
(***************************************************************************)

log2(n) == CHOOSE k \in 0 .. n : 2 ^ k <= n /\ n < 2 ^ (k + 1)

powm(b, e) ==
    LET power[k \in Nat] == IF k = 0 THEN 1 ELSE (b * power[k - 1]) % Prime
    IN  power[e]

\* The least number from 2 on that is no square.
nqr == CHOOSE n \in 2 .. Prime :
           /\ powm(n, (Prime - 1) \div 2) # 1
           /\ \A k \in 2 .. n - 1 : powm(k, (Prime - 1) \div 2) = 1

\* The member s: how often 2 divides Prime - 1, up to what the largest domain needs.
maxPow == Max({1} \cup {k \in 1 .. log2(maxDomainSize) : (Prime - 1) % 2 ^ k = 0})

\* Otherwise the constructor throws.
ASSUME DomainAssumption == maxDomainSize \in Nat \ {0} /\ maxPow >= log2(maxDomainSize)

nRoots == 2 ^ maxPow

\* The powers of a root of unity of order nRoots.  The constructor computes them in
\* ranges, one per thread; with a range of one element a thread writes roots[1]
\* again, with the value it has.
roots ==
    LET first == rawToMontgomery(powm(nqr, (Prime - 1) \div nRoots))
        power[i \in 0 .. nRoots - 1] == IF i = 0 THEN one ELSE rawMMul(power[i - 1], first)
    IN  [i \in 0 .. nRoots - 1 |-> power[i]]

powTwoInv ==
    LET half == rawToMontgomery((Prime + 1) \div 2)
        power[i \in 0 .. maxPow] == IF i = 0 THEN one ELSE rawMMul(power[i - 1], half)
    IN  [i \in 0 .. maxPow |-> power[i]]

root(domainPow, idx) == roots[idx * 2 ^ (maxPow - domainPow)]

-----------------------------------------------------------------------------
(***************************************************************************)
(* The transforms.                                                         *)
(***************************************************************************)

\* The lowest domainPow bits of x in reverse.
BR(x, domainPow) ==
    FoldLeft(LAMBDA acc, i : 2 * acc + ((x \div 2 ^ i) % 2), 0, [i \in 1 .. domainPow |-> i - 1])

reversePermutation(a, n) == [i \in 0 .. n - 1 |-> a[BR(i, log2(n))]]

\* The butterflies of one level: a pair of elements that are mdiv2 apart.
Butterflies(a, level) ==
    LET mdiv2 == 2 ^ (level - 1)
        t(x) == rawMMul(root(level, x % mdiv2), a[x])
    IN  [x \in DOMAIN a |-> IF (x \div mdiv2) % 2 = 0 THEN rawAdd(t(x + mdiv2), a[x])
                            ELSE rawSub(a[x - mdiv2], t(x))]

fft(a, n) == FoldLeft(Butterflies, reversePermutation(a, n), [i \in 1 .. log2(n) |-> i])

\* The transform, the elements but the first reversed, divided by n.
ifft(a, n) ==
    LET b == fft(a, n)
    IN  [i \in 0 .. n - 1 |-> rawMMul(b[(n - i) % n], powTwoInv[log2(n)])]

=============================================================================
