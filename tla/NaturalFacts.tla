----------------------------- MODULE NaturalFacts ---------------------------
(***************************************************************************)
(* Facts about the natural numbers that several proofs need: induction,    *)
(* powers of two and division.                                             *)
(*                                                                         *)
(* Induction is stated for a set, not for a predicate: to show P(n) for    *)
(* every n, show that {n \in Nat : P(n)} contains 0 and is closed under    *)
(* successor.  It follows from the well-foundedness of < on Nat.           *)
(***************************************************************************)
EXTENDS Integers, FiniteSets, FiniteSetTheorems, FunctionTheorems, WellFoundedInduction,
        TLAPS

\* A set of natural numbers has a least element.
LEMMA NatMinimum ==
    ASSUME NEW T, T \subseteq Nat, T # {}
    PROVE  \E x \in T : \A y \in T : x <= y
<1> DEFINE R == OpToRel(<, Nat)
<1>1. IsWellFoundedOn(R, Nat)
    BY NatLessThanWellFounded
<1>2. \A x, y \in Nat : y < x => <<y, x>> \in R
    BY DEF OpToRel
<1> HIDE DEF R
<1>3. PICK x \in T : \A y \in T : ~ (<<y, x>> \in R)
    BY <1>1, WFMin
<1>4. ASSUME NEW y \in T PROVE x <= y
  <2>1. x \in Nat /\ y \in Nat /\ ~(y < x)
      BY <1>2, <1>3
  <2>2. QED BY <2>1
<1>5. QED BY <1>4

LEMMA SetInduction ==
    ASSUME NEW S, 0 \in S, \A n \in Nat : n \in S => n + 1 \in S
    PROVE  Nat \subseteq S
<1> SUFFICES ASSUME Nat \ S # {} PROVE FALSE
    OBVIOUS
<1>1. PICK x \in Nat \ S : \A y \in Nat \ S : x <= y
    BY NatMinimum
<1>2. x # 0 /\ x - 1 \in Nat /\ x - 1 \in S
    BY <1>1
<1>3. QED BY <1>1, <1>2

\* Induction up to a bound.
LEMMA IntervalInduction ==
    ASSUME NEW N \in Nat, NEW S, 0 \in S, \A n \in 0 .. N - 1 : n \in S => n + 1 \in S
    PROVE  0 .. N \subseteq S
<1> DEFINE T == S \cup {n \in Nat : n > N}
<1>1. \A n \in Nat : n \in T => n + 1 \in T
    OBVIOUS
<1>2. 0 \in T
    OBVIOUS
<1> HIDE DEF T
<1>3. Nat \subseteq T
    BY <1>1, <1>2, SetInduction
<1>4. QED BY <1>3 DEF T

-----------------------------------------------------------------------------
(***************************************************************************)
(* Powers of two, which count subsets.                                     *)
(***************************************************************************)

LEMMA PowerCounts ==
    ASSUME NEW n \in Nat
    PROVE  /\ IsFiniteSet(SUBSET (1 .. n))
           /\ Cardinality(SUBSET (1 .. n)) = 2^n
           /\ 2^n \in Nat
<1>1. IsFiniteSet(1 .. n) /\ Cardinality(1 .. n) = n
    BY FS_Interval
<1>2. IsFiniteSet(SUBSET (1 .. n)) /\ Cardinality(SUBSET (1 .. n)) = 2^n
    BY <1>1, FS_SUBSET
<1>3. QED BY <1>2, FS_CardinalityType

LEMMA PowerDouble ==
    ASSUME NEW n \in Nat
    PROVE  2^(n + 1) = 2 * 2^n
<1> DEFINE S == SUBSET (1 .. n)
           T == {X \cup {n + 1} : X \in S}
           f == [X \in S |-> X \cup {n + 1}]
<1>1. IsFiniteSet(S) /\ Cardinality(S) = 2^n /\ 2^n \in Nat
    BY PowerCounts
<1>2. f \in Bijection(S, T)
  <2>1. f \in [S -> T]
      OBVIOUS
  <2>2. ASSUME NEW X \in S, NEW Y \in S, f[X] = f[Y] PROVE X = Y
    <3>1. n + 1 \notin X /\ n + 1 \notin Y /\ X \cup {n + 1} = Y \cup {n + 1}
        BY <2>2
    <3>2. QED BY <3>1
  <2>3. \A Z \in T : \E X \in S : f[X] = Z
      OBVIOUS
  <2>4. QED BY <2>1, <2>2, <2>3, Fun_IsBij
<1>3. IsFiniteSet(T) /\ Cardinality(T) = 2^n
    BY <1>1, <1>2, FS_Bijection DEF ExistsBijection
<1>4. SUBSET (1 .. n + 1) = S \cup T
  <2>1. ASSUME NEW Z \in SUBSET (1 .. n + 1) PROVE Z \in S \cup T
    <3>1. Z \ {n + 1} \in S
        OBVIOUS
    <3>2. CASE n + 1 \in Z
      <4>1. Z = (Z \ {n + 1}) \cup {n + 1}
          BY <3>2
      <4>2. QED BY <3>1, <4>1
    <3>3. CASE n + 1 \notin Z
        BY <3>1, <3>3
    <3>4. QED BY <3>2, <3>3
  <2>2. ASSUME NEW Z \in S \cup T PROVE Z \in SUBSET (1 .. n + 1)
      OBVIOUS
  <2>3. QED BY <2>1, <2>2
<1>5. S \cap T = {}
  <2>1. \A X \in S : n + 1 \notin X
      OBVIOUS
  <2>2. \A Z \in T : n + 1 \in Z
      OBVIOUS
  <2>3. QED BY <2>1, <2>2
<1> HIDE DEF S, T
<1>6. Cardinality(S \cup T) = Cardinality(S) + Cardinality(T) - Cardinality({})
    BY <1>1, <1>3, <1>5, FS_Union
<1>7. Cardinality(S \cup T) = 2^n + 2^n
    BY <1>1, <1>3, <1>6, FS_EmptySet
<1>8. Cardinality(S \cup T) = 2^(n + 1)
  <2>1. n + 1 \in Nat
      OBVIOUS
  <2>2. Cardinality(SUBSET (1 .. n + 1)) = 2^(n + 1)
      BY <2>1, PowerCounts
  <2>3. QED BY <1>4, <2>2, Zenon
<1>9. QED BY <1>1, <1>7, <1>8

LEMMA PowerPositive ==
    ASSUME NEW n \in Nat
    PROVE  2^n \in Nat \ {0}
<1> DEFINE S == {m \in Nat : 2^m \in Nat \ {0}}
<1>1. 0 \in S
    BY SMT
<1>2. ASSUME NEW m \in Nat, m \in S PROVE m + 1 \in S
  <2>1. 2^(m + 1) = 2 * 2^m /\ 2^m \in Nat \ {0}
      BY <1>2, PowerDouble
  <2>2. QED BY <2>1
<1> HIDE DEF S
<1>3. Nat \subseteq S
    BY <1>1, <1>2, SetInduction
<1>4. QED BY <1>3 DEF S

-----------------------------------------------------------------------------
(***************************************************************************)
(* Division.                                                               *)
(***************************************************************************)

LEMMA DivBounds ==
    ASSUME NEW a \in Nat, NEW d \in Nat \ {0}
    PROVE  a \div d \in Nat /\ d * (a \div d) <= a /\ a < d * (a \div d) + d
BY SMT

LEMMA DivUnique ==
    ASSUME NEW a \in Nat, NEW d \in Nat \ {0}, NEW q \in Nat, d * q <= a, a < d * q + d
    PROVE  a \div d = q
BY SMT

\* Halving a quotient.
LEMMA DivTwice ==
    ASSUME NEW a \in Nat, NEW d \in Nat \ {0}
    PROVE  a \div (2 * d) = (a \div d) \div 2
<1> DEFINE q == a \div d
           k == q \div 2
<1>1. q \in Nat /\ d * q <= a /\ a < d * q + d
    BY DivBounds
<1> HIDE DEF q
<1>2. k \in Nat /\ (q = 2 * k \/ q = 2 * k + 1)
    BY <1>1, SMT
<1> HIDE DEF k
<1>3. (2 * d) * k <= a /\ a < (2 * d) * k + 2 * d
  <2>1. CASE q = 2 * k
    <3>1. d * q = (2 * d) * k
        BY <1>1, <1>2, <2>1, SMT
    <3>2. QED BY <1>1, <1>2, <3>1
  <2>2. CASE q = 2 * k + 1
    <3>1. d * q = (2 * d) * k + d
        BY <1>1, <1>2, <2>2, SMT
    <3>2. QED BY <1>1, <1>2, <3>1
  <2>3. QED BY <1>2, <2>1, <2>2
<1>4. 2 * d \in Nat \ {0}
    OBVIOUS
<1>5. a \div (2 * d) = k
    BY <1>2, <1>3, <1>4, DivUnique
<1>6. QED BY <1>5 DEF q, k

\* The ancestors of a leaf of a binary tree, level by level.
LEMMA Ancestor ==
    ASSUME NEW index \in Nat, NEW level \in Nat
    PROVE  /\ index \div 2^level \in Nat
           /\ index \div 2^(level + 1) = (index \div 2^level) \div 2
<1>1. 2^level \in Nat \ {0} /\ 2^(level + 1) = 2 * 2^level
    BY PowerPositive, PowerDouble
<1>2. QED BY <1>1, DivBounds, DivTwice

-----------------------------------------------------------------------------
(***************************************************************************)
(* Recursion up to a bound: with the step as a function, a recursive       *)
(* definition has a solution.                                              *)
(***************************************************************************)

Recursive(g, base, step, N) == g = [i \in 0 .. N |-> IF i = 0 THEN base ELSE step[i][g[i - 1]]]

LEMMA RecursionExists ==
    ASSUME NEW D, NEW base \in D, NEW N \in Nat, NEW step \in [1 .. N -> [D -> D]]
    PROVE  \E g \in [0 .. N -> D] : Recursive(g, base, step, N)
<1> DEFINE Solves(g, n) == /\ g[0] = base
                           /\ \A i \in 1 .. n : g[i] = step[i][g[i - 1]]
           S == {n \in 0 .. N : \E g \in [0 .. n -> D] : Solves(g, n)}
<1>1. 0 \in S
  <2>1. [i \in 0 .. 0 |-> base] \in [0 .. 0 -> D] /\ Solves([i \in 0 .. 0 |-> base], 0)
      OBVIOUS
  <2> HIDE DEF Solves
  <2>2. 0 \in 0 .. N
      OBVIOUS
  <2>3. QED BY <2>1, <2>2
<1>2. ASSUME NEW n \in 0 .. N - 1, n \in S PROVE n + 1 \in S
  <2>1. PICK g \in [0 .. n -> D] : Solves(g, n)
      BY <1>2
  <2> DEFINE h == [i \in 0 .. n + 1 |-> IF i = n + 1 THEN step[n + 1][g[n]] ELSE g[i]]
  <2>2. g[n] \in D /\ n + 1 \in 1 .. N
      BY <1>2
  <2>3. step[n + 1][g[n]] \in D
      BY <2>2
  <2>4. h \in [0 .. n + 1 -> D]
      BY <2>3
  <2>5. h[0] = base
      BY <2>1
  <2>6. ASSUME NEW i \in 1 .. n + 1 PROVE h[i] = step[i][h[i - 1]]
    <3>1. CASE i = n + 1
      <4>1. h[n] = g[n] /\ h[n + 1] = step[n + 1][g[n]] /\ (n + 1) - 1 = n
          BY <1>2
      <4>2. QED BY <3>1, <4>1
    <3>2. CASE i # n + 1
      <4>1. i \in 1 .. n /\ h[i] = g[i] /\ h[i - 1] = g[i - 1]
          BY <1>2, <3>2
      <4>2. QED BY <2>1, <4>1
    <3>3. QED BY <3>1, <3>2
  <2> HIDE DEF h
  <2>7. Solves(h, n + 1) /\ n + 1 \in 0 .. N
      BY <1>2, <2>5, <2>6
  <2>8. QED BY <2>4, <2>7
<1> HIDE DEF S, Solves
<1>3. 0 .. N \subseteq S
    BY <1>1, <1>2, IntervalInduction
<1>4. PICK g \in [0 .. N -> D] : Solves(g, N)
    BY <1>3 DEF S
<1>5. ASSUME NEW i \in 0 .. N PROVE g[i] = IF i = 0 THEN base ELSE step[i][g[i - 1]]
  <2>1. CASE i = 0
      BY <1>4, <2>1 DEF Solves
  <2>2. CASE i # 0
    <3>1. i \in 1 .. N
        BY <2>2
    <3>2. QED BY <1>4, <2>2, <3>1 DEF Solves
  <2>3. QED BY <2>1, <2>2
<1>6. g = [i \in 0 .. N |-> g[i]]
    OBVIOUS
<1>7. g = [i \in 0 .. N |-> IF i = 0 THEN base ELSE step[i][g[i - 1]]]
    BY <1>5, <1>6
<1>8. QED BY <1>7 DEF Recursive

=============================================================================
