-------------------------------- MODULE Curve -------------------------------
(***************************************************************************)
(* Curve<BaseField> of ffiasm: curve.cpp, curve.hpp, and what they take    *)
(* from naf.cpp, exp.hpp, msm.hpp and msm.cpp, for y^2 = x^3 + b           *)
(* (typeOfA is a_is_zero).                                                 *)
(*                                                                         *)
(* A PointAffine is [x, y], with (0, 0) for the point at infinity.  A      *)
(* Point is [x, y, zz, zzz], which stands for (x / zz, y / zzz), and for   *)
(* the point at infinity if zz is 0.  The methods are overloaded on the    *)
(* two, and so are the operators here.                                     *)
(***************************************************************************)
EXTENDS Integers, SequencesExt

CONSTANTS
    \* The field the coordinates are in.
    F_add(_, _), F_sub(_, _), F_neg(_), F_mul(_, _), F_square(_), F_div(_, _),
    F_zero, F_one,
    scalarBits      \* scalarSize * 8

-----------------------------------------------------------------------------

IsAffine(p) == DOMAIN p = {"x", "y"}
zero == [x |-> F_one, y |-> F_one, zz |-> F_zero, zzz |-> F_zero]
zeroAffine == [x |-> F_zero, y |-> F_zero]
isZero(p) == IF IsAffine(p) THEN p = zeroAffine ELSE p.zz = F_zero

\* copy from a PointAffine to a Point, and from a Point to a PointAffine.
toPoint(p) ==
    IF isZero(p) THEN zero ELSE [x |-> p.x, y |-> p.y, zz |-> F_one, zzz |-> F_one]
toAffine(p) ==
    IF isZero(p) THEN zeroAffine ELSE [x |-> F_div(p.x, p.zz), y |-> F_div(p.y, p.zzz)]

\* neg keeps the kind of point it is given.
neg(p) == [p EXCEPT !.y = F_neg(@)]

\* neg from a PointAffine to a Point makes zz and zzz 1 even at infinity.
negToPoint(p) == [x |-> p.x, y |-> F_neg(p.y), zz |-> F_one, zzz |-> F_one]

dbl(p) ==
    LET U == F_add(p.y, p.y)
        V == F_square(U)
        W == F_mul(U, V)
        S == F_mul(p.x, V)
        XX == F_square(p.x)
        M == F_add(XX, F_add(XX, XX))
        X3 == F_sub(F_sub(F_square(M), S), S)
    IN  IF isZero(p) THEN IF IsAffine(p) THEN toPoint(p) ELSE p
        ELSE [x |-> X3,
              y |-> F_sub(F_mul(M, F_sub(S, X3)), F_mul(W, p.y)),
              zz |-> IF IsAffine(p) THEN V ELSE F_mul(V, p.zz),
              zzz |-> IF IsAffine(p) THEN W ELSE F_mul(W, p.zzz)]

\* p1 is a Point and p2 of either kind.
add(p1, p2) ==
    LET U1 == IF IsAffine(p2) THEN p1.x ELSE F_mul(p1.x, p2.zz)
        S1 == IF IsAffine(p2) THEN p1.y ELSE F_mul(p1.y, p2.zzz)
        P == F_sub(F_mul(p2.x, p1.zz), U1)
        R == F_sub(F_mul(p2.y, p1.zzz), S1)
        PP == F_square(P)
        PPP == F_mul(P, PP)
        U1PP == F_mul(U1, PP)
        X3 == F_sub(F_sub(F_sub(F_square(R), PPP), U1PP), U1PP)
        zz == IF IsAffine(p2) THEN p1.zz ELSE F_mul(p1.zz, p2.zz)
        zzz == IF IsAffine(p2) THEN p1.zzz ELSE F_mul(p1.zzz, p2.zzz)
    IN  CASE isZero(p1) -> IF IsAffine(p2) THEN toPoint(p2) ELSE p2
          [] ~isZero(p1) /\ isZero(p2) -> p1
          [] ~isZero(p1) /\ ~isZero(p2) /\ P = F_zero /\ R = F_zero ->
               dbl(IF IsAffine(p2) THEN p2 ELSE p1)
          [] OTHER ->
               [x |-> X3, y |-> F_sub(F_mul(F_sub(U1PP, X3), R), F_mul(S1, PPP)),
                zz |-> F_mul(zz, PP), zzz |-> F_mul(zzz, PPP)]

sub(p1, p2) == add(p1, neg(p2))

-----------------------------------------------------------------------------
(***************************************************************************)
(* A scalar times a point.                                                 *)
(***************************************************************************)

bit(scalar, i) == (scalar \div 2 ^ i) % 2 = 1

\* One bit of buildNafTable: last is a digit that is due, cur the next bit.
NafBit(st, cur) ==
    IF st.last THEN [last |-> FALSE, carry |-> cur \/ st.carry,
                     digits |-> Append(st.digits, IF cur = st.carry THEN 1 ELSE 2)]
    ELSE [last |-> cur # st.carry, carry |-> cur /\ st.carry, digits |-> Append(st.digits, 0)]

\* The digits of a scalar, the lowest first, none of two neighbours other than 0;
\* 2 stands for -1.
buildNaf(scalar) ==
    FoldLeft(NafBit, [last |-> bit(scalar, 0), carry |-> FALSE, digits |-> <<>>],
             [i \in 1 .. scalarBits + 2 |-> i < scalarBits /\ bit(scalar, i)]).digits

\* nafMulByScalar.
mulByScalar(base, scalar) ==
    FoldLeft(LAMBDA r, digit : CASE digit = 0 -> dbl(r)
                                 [] digit = 1 -> add(dbl(r), base)
                                 [] digit = 2 -> sub(dbl(r), base),
             zero, Reverse(buildNaf(scalar)))

-----------------------------------------------------------------------------
(***************************************************************************)
(* MSM: the sum of many points, each times a scalar.  Arrays start at 0.   *)
(***************************************************************************)

chunkSizes == 3 .. 16
calcChunkCount(bitsPerChunk) == ((scalarBits - 1) \div bitsPerChunk) + 1
calcAddsCount(n, bitsPerChunk) ==
    calcChunkCount(bitsPerChunk) * (n + 2 ^ bitsPerChunk + bitsPerChunk + 1)

calcBitsPerChunk(n) ==
    CHOOSE k \in chunkSizes :
        /\ \A l \in chunkSizes : calcAddsCount(n, k) <= calcAddsCount(n, l)
        /\ \A l \in 3 .. k - 1 : calcAddsCount(n, k) < calcAddsCount(n, l)

\* The last chunk may have fewer bits.
getBucketIndex(scalar, chunkIdx, bitsPerChunk) ==
    (scalar \div 2 ^ (chunkIdx * bitsPerChunk)) % 2 ^ bitsPerChunk

\* The chunks of a scalar as numbers from -nBuckets to nBuckets - 1: a larger one
\* is made negative, and the next one takes a carry.
slicedScalar(scalar, bitsPerChunk) ==
    LET nBuckets == 2 ^ (bitsPerChunk - 1)
        Slice(st, j) ==
            LET index == getBucketIndex(scalar, j, bitsPerChunk) + st.carry
            IN  IF index >= nBuckets
                THEN [carry |-> 1, slices |-> Append(st.slices, index - 2 * nBuckets)]
                ELSE [carry |-> 0, slices |-> Append(st.slices, index)]
    IN  FoldLeft(Slice, [carry |-> 0, slices |-> <<>>],
                 [j \in 1 .. calcChunkCount(bitsPerChunk) |-> j - 1]).slices

\* The loop of one thread over one chunk: the points go into buckets by their
\* slices, and bucket b counts b times.
chunkSum(bases, slices, n, nBuckets) ==
    LET Into(buckets, i) ==
            CASE slices[i] > 0 -> [buckets EXCEPT ![slices[i]] = add(@, bases[i])]
              [] slices[i] < 0 -> [buckets EXCEPT ![-slices[i]] = sub(@, bases[i])]
              [] slices[i] = 0 -> buckets
        buckets == FoldLeft(Into, [b \in 1 .. nBuckets |-> zero], [i \in 1 .. n |-> i - 1])
        Down(st, bucket) == LET tmp == add(st.tmp, bucket) IN [tmp |-> tmp, t |-> add(st.t, tmp)]
    IN  FoldLeft(Down, [tmp |-> buckets[nBuckets], t |-> buckets[nBuckets]],
                 Tail(Reverse(buckets))).t

multiMulByScalarMSM(bases, scalars, n) ==
    LET bitsPerChunk == calcBitsPerChunk(n)
        sliced == [i \in 0 .. n - 1 |-> slicedScalar(scalars[i], bitsPerChunk)]
        chunks == [j \in 1 .. calcChunkCount(bitsPerChunk) |->
                      chunkSum(bases, [i \in 0 .. n - 1 |-> sliced[i][j]], n, 2 ^ (bitsPerChunk - 1))]
        Doubled(r) == FoldLeft(LAMBDA p, i : dbl(p), r, [i \in 1 .. bitsPerChunk |-> i])
    IN  CASE n = 0 -> zero
          [] n = 1 -> mulByScalar(bases[0], scalars[0])
          [] OTHER -> FoldLeft(LAMBDA r, chunk : add(Doubled(r), chunk),
                               Last(chunks), Tail(Reverse(chunks)))

=============================================================================
