------------------------------- MODULE Pairing ------------------------------
(***************************************************************************)
(* The pairing of Verifier, src/groth16.cpp, on a curve of the family of   *)
(* BN254 with a small u.                                                   *)
(***************************************************************************)
EXTENDS Engine

CONSTANTS
    u,              \* the parameter of the family of curves
    sixuPlus2NAF    \* the digits 0, 1 and -1 of 6 * u + 2, the lowest first

ASSUME FamilyAssumption == Q = 36 * u ^ 4 + 36 * u ^ 3 + 24 * u ^ 2 + 6 * u + 1

-----------------------------------------------------------------------------
(***************************************************************************)
(* The Miller loop.  A line is [a, b, c]; r is the point it ends in, whose *)
(* zz and zzz are z and z^2 here.                                          *)
(***************************************************************************)

lineFunctionAdd(r, p, q, r2) ==
    LET B == f2!mul(p.x, r.zzz)
        D == f2!mul(f2!sub(f2!sub(f2!square(f2!add(p.y, r.zz)), r2), r.zzz), r.zzz)
        H == f2!sub(B, r.x)
        I == f2!square(H)
        E1 == f2!mulScalar(I, 4)
        J == f2!mul(H, E1)
        L1 == f2!sub(f2!sub(D, r.y), r.y)
        V == f2!mul(r.x, E1)
        x == f2!sub(f2!sub(f2!sub(f2!square(L1), J), V), V)
        zz == f2!sub(f2!sub(f2!square(f2!add(r.zz, H)), r.zzz), I)
        zzz == f2!square(zz)
        t == f2!sub(f2!sub(f2!square(f2!add(p.y, zz)), r2), zzz)
    IN  [a |-> f2!sub(f2!dbl(f2!mul(L1, p.x)), t),
         b |-> f2!dbl(f2!mulScalar(f2!neg(L1), q.x)),
         c |-> f2!dbl(f2!mulScalar(zz, q.y)),
         r |-> [x |-> x, y |-> f2!sub(f2!mul(f2!sub(V, x), L1), f2!dbl(f2!mul(r.y, J))),
                zz |-> zz, zzz |-> zzz]]

lineFunctionDouble(r, q) ==
    LET A == f2!square(r.x)
        B == f2!square(r.y)
        C_ == f2!square(B)
        D == f2!dbl(f2!sub(f2!sub(f2!square(f2!add(r.x, B)), A), C_))
        E1 == f2!add(f2!dbl(A), A)
        G == f2!square(E1)
        x == f2!sub(f2!sub(G, D), D)
        zz == f2!sub(f2!sub(f2!square(f2!add(r.y, r.zz)), B), r.zzz)
    IN  [a |-> f2!sub(f2!sub(f2!sub(f2!square(f2!add(r.x, E1)), A), G), f2!mulScalar(B, 4)),
         b |-> f2!mulScalar(f2!neg(f2!dbl(f2!mul(E1, r.zzz))), q.x),
         c |-> f2!mulScalar(f2!dbl(f2!mul(zz, r.zzz)), q.y),
         r |-> [x |-> x, y |-> f2!sub(f2!mul(f2!sub(D, x), E1), f2!mulScalar(C_, 8)),
                zz |-> zz, zzz |-> f2!square(zz)]]

mulLine(ret, line) ==
    LET a2 == f6!mul([x |-> f2!zero, y |-> line.a, z |-> line.b], ret.x)
        t3 == f6!mulScalar(ret.y, line.c)
        t2 == [x |-> f2!zero, y |-> line.a, z |-> f2!add(line.b, line.c)]
    IN  [x |-> f6!sub(f6!sub(f6!mul(f6!add(ret.x, ret.y), t2), a2), t3),
         y |-> f6!add(t3, f6!mulTau(a2))]

xiToPMinus1Over3 == f2!XiTo((Q - 1) \div 3)
xiToPMinus1Over2 == f2!XiTo((Q - 1) \div 2)
xiToPSquaredMinus1Over3 == f2!XiTo((Q * Q - 1) \div 3).a

\* A line is multiplied into ret, and its point becomes r.
After(st, line) == [ret |-> mulLine(st.ret, line), r |-> line.r]

miller(q, p) ==
    LET aAffine == g2!toAffine(q)
        bAffine == g1!toAffine(p)
        r2 == f2!square(aAffine.y)
        count == Len(sixuPlus2NAF) - 1
        Digit(st, i) ==
            LET squared == IF i # count THEN [st EXCEPT !.ret = f12!square(@)] ELSE st
                doubled == After(squared, lineFunctionDouble(st.r, bAffine))
            IN  CASE sixuPlus2NAF[i] = 1 ->
                       After(doubled, lineFunctionAdd(doubled.r, aAffine, bAffine, r2))
                  [] sixuPlus2NAF[i] = -1 ->
                       After(doubled, lineFunctionAdd(doubled.r, g2!neg(aAffine), bAffine, r2))
                  [] sixuPlus2NAF[i] = 0 -> doubled
        loop == FoldLeft(Digit, [ret |-> f12!one, r |-> g2!toPoint(aAffine)],
                         Reverse([i \in 1 .. count |-> i]))
        q1 == [x |-> f2!mul(f2!conjugate(aAffine.x), xiToPMinus1Over3),
               y |-> f2!mul(f2!conjugate(aAffine.y), xiToPMinus1Over2)]
        minusQ2 == [x |-> f2!mulScalar(aAffine.x, xiToPSquaredMinus1Over3), y |-> aAffine.y]
        first == After(loop, lineFunctionAdd(loop.r, q1, bAffine, f2!square(q1.y)))
    IN  After(first, lineFunctionAdd(first.r, minusQ2, bAffine, f2!square(minusQ2.y))).ret

-----------------------------------------------------------------------------
(***************************************************************************)
(* The final exponentiation and the check.                                 *)
(***************************************************************************)

\* y0 to y6, from t1 and its powers u, u^2 and u^3.
Parts(t1, fp2, fu, fu2, fu3) ==
    [y0 |-> f12!mul(f12!mul(f12!Frobenius(t1), fp2), f12!Frobenius(fp2)),
     y1 |-> f12!conjugate(t1),
     y2 |-> f12!FrobeniusP2(fu2),
     y3 |-> f12!conjugate(f12!Frobenius(fu)),
     y4 |-> f12!conjugate(f12!mul(fu, f12!Frobenius(fu2))),
     y5 |-> f12!conjugate(fu2),
     y6 |-> f12!conjugate(f12!mul(fu3, f12!Frobenius(fu3)))]

\* y0 * y1^2 * y2^6 * y3^12 * y4^18 * y5^30 * y6^36, by an addition chain.
Chain(y) ==
    LET Joined(t0) == f12!mul(f12!square(f12!mul(f12!mul(y.y3, y.y5), t0)), f12!mul(t0, y.y2))
        Closed(t1) == f12!mul(f12!square(f12!mul(t1, y.y1)), f12!mul(t1, y.y0))
    IN  Closed(f12!square(Joined(f12!mul(f12!mul(f12!square(y.y6), y.y4), y.y5))))

finalExponentiation(in) ==
    LET Easy(t1) == f12!mul(t1, f12!FrobeniusP2(t1))
        Powers(t1, fu, fu2) == Parts(t1, f12!FrobeniusP2(t1), fu, fu2, f12!exp(fu2, u))
        Hard(t1, fu) == Chain(Powers(t1, fu, f12!exp(fu, u)))
        Raised(t1) == Hard(t1, f12!exp(t1, u))
    IN  Raised(Easy(f12!mul(f12!conjugate(in), f12!inv(in))))

=============================================================================
