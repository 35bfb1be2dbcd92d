--------------------------- MODULE ProverApiProofs --------------------------
(***************************************************************************)
(* Proofs about ProverApi for every number of public signals, every        *)
(* witness and every proof: what is written fits, and buffers of the sizes *)
(* the library gives are large enough, if there is a public signal.  And   *)
(* for every zkey and witness: the readers stay inside the file, and a     *)
(* file that was cut off is refused.                                       *)
(***************************************************************************)
EXTENDS ProverApi, NaturalFacts, TLAPS

\* What a call may leave behind.
CallOK(call) ==
    /\ call.code = "OK" =>
           call.sizes.proof < call.caps.proof /\ call.sizes.public < call.caps.public
    /\ NPublic # 0 /\ call.code = "SHORT_BUFFER" =>
           \/ call.caps.proof < ProofBufferMinSize
           \/ call.caps.public < PublicBufferMinSize(NPublic)

ApiInv == TypeOK /\ (last # None => CallOK(last))

\* The longest JSON strings, with their terminators, are within the sizes the
\* library gives.  An array with no element is written as null, which is not.
LEMMA LengthsBounded ==
    ASSUME NEW w \in Wtns, NEW digits \in ProofDigits
    PROVE  /\ ProofLength(digits) \in Nat /\ ProofLength(digits) + 1 <= ProofBufferMinSize
           /\ PublicLength(SignalDigits[w]) \in Nat
           /\ NPublic # 0 => PublicLength(SignalDigits[w]) + 1 <= PublicBufferMinSize(NPublic)
<1>1. /\ digits \in 8 .. 616 /\ NPublic \in Nat
      /\ SignalDigits[w] \in NPublic .. 77 * NPublic
  BY ProverAssumption DEF MaxDigits
<1>2. ProofLength(digits) \in Nat /\ ProofLength(digits) + 1 <= ProofBufferMinSize
  BY <1>1 DEF ProofLength, ProofBufferMinSize
<1>3. PublicLength(SignalDigits[w]) =
          IF NPublic = 0 THEN 4 ELSE SignalDigits[w] + 3 * NPublic + 1
  BY DEF PublicLength
<1>4. QED
  BY <1>1, <1>2, <1>3 DEF PublicBufferMinSize

\* A witness is accepted or refused with one of two codes.
LEMMA WitnessCodeType ==
    ASSUME NEW z, NEW w
    PROVE  WitnessCode(z, w) \in {"OK", "ERROR", "INVALID_WITNESS_LENGTH"}
  BY DEF WitnessCode

\* Every call that has a prover object keeps the invariant.
LEMMA ProvePreserves ==
    ASSUME ApiInv, NEW z \in Zkey, NEW w \in Wtns, Prove(z, w),
           UNCHANGED <<prover, caps>>, crashed' \in BOOLEAN, stray' \in BOOLEAN
    PROVE  ApiInv'
<1>1. PICK digits \in ProofDigits :
        LET length == [proof |-> ProofLength(digits), public |-> PublicLength(SignalDigits[w])]
            required == [proof |-> length.proof + 1, public |-> length.public + 1]
            code == IF NoBuffers THEN "ERROR"
                    ELSE IF WitnessCode(z, w) # "OK" THEN WitnessCode(z, w)
                    ELSE IF TooShort(required) THEN "SHORT_BUFFER"
                    ELSE "OK"
        IN  last' = [code |-> code, caps |-> caps,
                     wtns |-> IF code \in {"OK", "SHORT_BUFFER"} THEN w ELSE None,
                     sizes |-> CASE code = "SHORT_BUFFER" -> Reported(required)
                                 [] code = "OK" -> length
                                 [] OTHER -> caps]
  BY DEF Prove
<1> DEFINE length == [proof |-> ProofLength(digits), public |-> PublicLength(SignalDigits[w])]
           required == [proof |-> length.proof + 1, public |-> length.public + 1]
<1>2. length \in Sizes /\ required \in Sizes /\ caps \in Sizes
  BY LengthsBounded DEF Sizes, ApiInv, TypeOK
<1>3. CASE TooShort(required) /\ ~NoBuffers /\ WitnessCode(z, w) = "OK"
  <2>1. last' = [code |-> "SHORT_BUFFER", caps |-> caps, wtns |-> w, sizes |-> required]
    BY <1>1, <1>3 DEF Reported
  <2>2. NPublic # 0 =>
            caps.proof < ProofBufferMinSize \/ caps.public < PublicBufferMinSize(NPublic)
    <3> SUFFICES ASSUME NPublic # 0
                 PROVE  \/ caps.proof < ProofBufferMinSize
                        \/ caps.public < PublicBufferMinSize(NPublic)
      OBVIOUS
    <3>1. /\ ProofLength(digits) \in Nat /\ ProofLength(digits) + 1 <= ProofBufferMinSize
          /\ PublicLength(SignalDigits[w]) \in Nat
          /\ PublicLength(SignalDigits[w]) + 1 <= PublicBufferMinSize(NPublic)
      BY LengthsBounded
    <3>2. \/ caps.proof < ProofLength(digits) + 1
          \/ caps.public < PublicLength(SignalDigits[w]) + 1
      BY <1>3 DEF TooShort
    <3>3. /\ caps.proof \in Nat /\ caps.public \in Nat
          /\ ProofBufferMinSize \in Nat /\ PublicBufferMinSize(NPublic) \in Nat
      BY <1>2, ProverAssumption DEF Sizes, ProofBufferMinSize, PublicBufferMinSize
    <3>4. QED
      BY <3>1, <3>2, <3>3
  <2>3. QED
    BY <1>2, <2>1, <2>2 DEF ApiInv, TypeOK, CallOK, ProofBufferMinSize, PublicBufferMinSize
<1>4. CASE ~TooShort(required) /\ ~NoBuffers /\ WitnessCode(z, w) = "OK"
  <2>1. last' = [code |-> "OK", caps |-> caps, wtns |-> w, sizes |-> length]
    BY <1>1, <1>4
  <2>2. length.proof < caps.proof /\ length.public < caps.public
    BY <1>2, <1>4, LengthsBounded DEF TooShort, Sizes
  <2>3. QED
    BY <1>2, <2>1, <2>2 DEF ApiInv, TypeOK, CallOK
<1>5. CASE NoBuffers \/ WitnessCode(z, w) # "OK"
  <2>1. \E code \in {"ERROR", "INVALID_WITNESS_LENGTH"} :
            last' = [code |-> code, caps |-> caps, wtns |-> None, sizes |-> caps]
    BY <1>1, <1>5, WitnessCodeType
  <2>2. QED
    BY <1>2, <2>1 DEF ApiInv, TypeOK, CallOK
<1>6. QED
  BY <1>3, <1>4, <1>5

\* Every step keeps the invariant.
LEMMA ApiInvInvariant == Spec => []ApiInv
<1>1. Init => ApiInv
  <2> SUFFICES ASSUME Init PROVE ApiInv
    OBVIOUS
  <2>1. /\ prover \in [Handle -> {None} \cup [memory : {"caller", "unmapped"}, zkey : Zkey]]
        /\ caps \in Sizes
    BY DEF Init, Sizes
  <2>2. last = None /\ crashed = FALSE /\ stray = FALSE
    BY DEF Init
  <2>3. QED
    BY <2>1, <2>2, Zenon DEF ApiInv, TypeOK
<1>2. ApiInv /\ [Next]_vars => ApiInv'
  <2> SUFFICES ASSUME ApiInv, [Next]_vars PROVE ApiInv'
    OBVIOUS
  <2>1. ASSUME NEW z \in Zkey, allocate_advertised(z)
        PROVE  ApiInv'
    BY <2>1, ProverAssumption
       DEF allocate_advertised, ApiInv, TypeOK, Sizes, CallOK, ProofBufferMinSize, PublicBufferMinSize
  <2>2. ASSUME NEW sizes \in Capacity, allocate(sizes)
        PROVE  ApiInv'
    BY <2>2, ProverAssumption
       DEF allocate, ApiInv, TypeOK, Sizes, CallOK, ProofBufferMinSize, PublicBufferMinSize
  <2>3. CASE allocate_required
    BY <2>3 DEF allocate_required, ApiInv, TypeOK, CallOK, ProofBufferMinSize, PublicBufferMinSize
  <2>4. ASSUME NEW h \in Handle, NEW z \in Zkey,
               groth16_prover_create(h, z) \/ groth16_prover_create_zkey_file(h, z)
        PROVE  ApiInv'
    <3>1. PICK memory \in {"caller", "unmapped"} :
              prover' = [prover EXCEPT ![h] = [memory |-> memory, zkey |-> z]] \/ UNCHANGED prover
      BY <2>4 DEF groth16_prover_create, groth16_prover_create_zkey_file
    <3>2. prover' \in [Handle -> {None} \cup [memory : {"caller", "unmapped"}, zkey : Zkey]]
      BY <3>1 DEF ApiInv, TypeOK
    <3>3. UNCHANGED <<caps, last, crashed>> /\ stray' \in BOOLEAN
      BY <2>4 DEF groth16_prover_create, groth16_prover_create_zkey_file
    <3>4. QED
      BY <3>2, <3>3 DEF ApiInv, TypeOK, CallOK, ProofBufferMinSize, PublicBufferMinSize
  <2>5. ASSUME NEW h \in Handle, groth16_prover_destroy(h)
        PROVE  ApiInv'
    BY <2>5 DEF groth16_prover_destroy, ApiInv, TypeOK, CallOK, ProofBufferMinSize,
                PublicBufferMinSize
  <2>6. ASSUME NEW h \in Handle, NEW w \in Wtns, groth16_prover_prove(h, w)
        PROVE  ApiInv'
    <3>0. prover[h].zkey \in Zkey /\ stray' \in BOOLEAN /\ UNCHANGED <<prover, caps>>
      BY <2>6 DEF groth16_prover_prove, ApiInv, TypeOK
    <3>1. CASE Prove(prover[h].zkey, w) /\ UNCHANGED crashed
      <4>1. crashed' \in BOOLEAN
        BY <3>1 DEF ApiInv, TypeOK
      <4>2. QED
        BY <3>0, <3>1, <4>1, ProvePreserves
    <3>2. CASE crashed' = TRUE /\ UNCHANGED last
      BY <3>0, <3>2 DEF ApiInv, TypeOK, CallOK, ProofBufferMinSize, PublicBufferMinSize
    <3>3. QED
      BY <2>6, <3>1, <3>2 DEF groth16_prover_prove
  <2>7. ASSUME NEW z \in Zkey, groth16_prover(z)
        PROVE  ApiInv'
    <3>0. UNCHANGED <<prover, caps, crashed>> /\ crashed' \in BOOLEAN /\ stray' \in BOOLEAN
      BY <2>7 DEF groth16_prover, ApiInv, TypeOK
    <3>1. ASSUME NEW w \in Wtns, Prove(z, w) PROVE ApiInv'
      BY <3>0, <3>1, ProvePreserves
    <3>2. CASE last' = [code |-> "ERROR", caps |-> caps, wtns |-> None, sizes |-> caps]
      BY <3>0, <3>2 DEF ApiInv, TypeOK, CallOK, ProofBufferMinSize, PublicBufferMinSize
    <3>3. QED
      BY <2>7, <3>1, <3>2 DEF groth16_prover
  <2>8. CASE UNCHANGED vars
    BY <2>8 DEF vars, ApiInv, TypeOK, CallOK, ProofBufferMinSize, PublicBufferMinSize
  <2>9. QED
    BY <2>1, <2>2, <2>3, <2>4, <2>5, <2>6, <2>7, <2>8 DEF Next
<1>3. QED
  BY <1>1, <1>2, PTL DEF Spec

\* Whatever the witness and the proof, a success stays inside the caller's
\* buffers, terminators included (groth16_prover_prove, lines 356 to 377).
THEOREM OutputFitsCorrect == Spec => []OutputFits
<1>1. ApiInv => OutputFits
  BY DEF ApiInv, OutputFits, CallOK
<1>2. QED
  BY <1>1, ApiInvInvariant, PTL

\* For every circuit with a public signal, a caller that allocates what
\* groth16_proof_size and groth16_public_size_for_zkey_buf say is never told
\* that its buffers are short.
THEOREM AdvertisedSizesSufficeCorrect == Spec => []AdvertisedSizesSuffice
<1>1. ApiInv => AdvertisedSizesSuffice
  BY DEF ApiInv, AdvertisedSizesSuffice, CallOK
<1>2. QED
  BY <1>1, ApiInvInvariant, PTL

\* The type invariant, for every zkey and witness.
THEOREM TypeCorrect == Spec => []TypeOK
<1>1. ApiInv => TypeOK
  BY DEF ApiInv
<1>2. QED
  BY <1>1, ApiInvInvariant, PTL

-----------------------------------------------------------------------------
(***************************************************************************)
(* The readers of files.  First, the two recursive functions satisfy their *)
(* equations.                                                              *)
(***************************************************************************)

FieldUpTo(g, f, s, fields, n) ==
    g = [i \in 0 .. n |-> IF i = 0 THEN s ELSE readField(f, g[i - 1], fields[i])]

LEMMA FieldExists ==
    ASSUME NEW f, NEW s, NEW fields, NEW N \in Nat
    PROVE  \E g : FieldUpTo(g, f, s, fields, N)
<1> DEFINE Up(v, i) == readField(f, v, fields[i])
           S == {n \in Nat : \E g : FieldUpTo(g, f, s, fields, n)}
<1>1. 0 \in S
  <2>1. FieldUpTo([i \in 0 .. 0 |-> s], f, s, fields, 0)
      BY DEF FieldUpTo
  <2>2. QED BY <2>1
<1>2. ASSUME NEW n \in Nat, n \in S PROVE n + 1 \in S
  <2>1. PICK g : FieldUpTo(g, f, s, fields, n)
      BY <1>2
  <2> DEFINE h == [i \in 0 .. n + 1 |-> IF i = n + 1 THEN Up(g[n], n + 1) ELSE g[i]]
  <2>2. \A i \in 0 .. n : g[i] = IF i = 0 THEN s ELSE Up(g[i - 1], i)
      BY <2>1 DEF FieldUpTo
  <2>3. \A i \in 0 .. n + 1 : h[i] = IF i = 0 THEN s ELSE Up(h[i - 1], i)
    <3> HIDE DEF Up
    <3> TAKE i \in 0 .. n + 1
    <3>1. CASE i = n + 1
      <4>1. i # 0 /\ i - 1 = n /\ h[n] = g[n] /\ h[i] = Up(g[n], n + 1)
          BY <3>1
      <4>2. QED BY <3>1, <4>1
    <3>2. CASE i # n + 1
      <4>1. i \in 0 .. n /\ h[i] = g[i] /\ (i # 0 => h[i - 1] = g[i - 1])
          BY <3>2
      <4>2. QED BY <2>2, <4>1
    <3>3. QED BY <3>1, <3>2
  <2>4. h = [i \in 0 .. n + 1 |-> h[i]]
      OBVIOUS
  <2> HIDE DEF h
  <2>5. FieldUpTo(h, f, s, fields, n + 1)
      BY <2>3, <2>4 DEF FieldUpTo
  <2>6. QED BY <2>5
<1> HIDE DEF S
<1>3. N \in S
    BY <1>1, <1>2, SetInduction
<1>4. QED BY <1>3 DEF S

LEMMA FieldEquations ==
    ASSUME NEW f, NEW s, NEW fields, Len(fields) \in Nat
    PROVE  LET r == AfterField(f, s, fields)
           IN  /\ r[0] = s
               /\ \A i \in 0 .. Len(fields) - 1 : r[i + 1] = readField(f, r[i], fields[i + 1])
<1> DEFINE r == AfterField(f, s, fields)
<1>1. \E g : FieldUpTo(g, f, s, fields, Len(fields))
    BY FieldExists
<1>2. FieldUpTo(r, f, s, fields, Len(fields))
    BY <1>1 DEF FieldUpTo, AfterField
<1> HIDE DEF r
<1>3. r[0] = s
    BY <1>2 DEF FieldUpTo
<1>4. ASSUME NEW i \in 0 .. Len(fields) - 1 PROVE r[i + 1] = readField(f, r[i], fields[i + 1])
  <2>1. i + 1 \in 0 .. Len(fields) /\ i + 1 # 0 /\ (i + 1) - 1 = i
      OBVIOUS
  <2>2. QED BY <1>2, <2>1 DEF FieldUpTo
<1>5. QED BY <1>3, <1>4 DEF r

RoundUpTo(g, f, s, n) ==
    g = [i \in 0 .. n |-> IF i = 0 THEN [reader |-> s, sections |-> << >>]
                          ELSE readSection(f, g[i - 1])]

LEMMA RoundExists ==
    ASSUME NEW f, NEW s, NEW N \in Nat
    PROVE  \E g : RoundUpTo(g, f, s, N)
<1> DEFINE First == [reader |-> s, sections |-> << >>]
           Up(v) == readSection(f, v)
           S == {n \in Nat : \E g : RoundUpTo(g, f, s, n)}
<1>1. 0 \in S
  <2>1. RoundUpTo([i \in 0 .. 0 |-> First], f, s, 0)
      BY DEF RoundUpTo
  <2>2. QED BY <2>1
<1>2. ASSUME NEW n \in Nat, n \in S PROVE n + 1 \in S
  <2>1. PICK g : RoundUpTo(g, f, s, n)
      BY <1>2
  <2> DEFINE h == [i \in 0 .. n + 1 |-> IF i = n + 1 THEN Up(g[n]) ELSE g[i]]
  <2>2. \A i \in 0 .. n : g[i] = IF i = 0 THEN First ELSE Up(g[i - 1])
      BY <2>1 DEF RoundUpTo
  <2>3. \A i \in 0 .. n + 1 : h[i] = IF i = 0 THEN First ELSE Up(h[i - 1])
    <3> HIDE DEF Up, First
    <3> TAKE i \in 0 .. n + 1
    <3>1. CASE i = n + 1
      <4>1. i # 0 /\ i - 1 = n /\ h[n] = g[n] /\ h[i] = Up(g[n])
          BY <3>1
      <4>2. QED BY <3>1, <4>1
    <3>2. CASE i # n + 1
      <4>1. i \in 0 .. n /\ h[i] = g[i] /\ (i # 0 => h[i - 1] = g[i - 1])
          BY <3>2
      <4>2. QED BY <2>2, <4>1
    <3>3. QED BY <3>1, <3>2
  <2>4. h = [i \in 0 .. n + 1 |-> h[i]]
      OBVIOUS
  <2> HIDE DEF h
  <2>5. RoundUpTo(h, f, s, n + 1)
      BY <2>3, <2>4 DEF RoundUpTo
  <2>6. QED BY <2>5
<1> HIDE DEF S
<1>3. N \in S
    BY <1>1, <1>2, SetInduction
<1>4. QED BY <1>3 DEF S

LEMMA RoundEquations ==
    ASSUME NEW f, NEW s, s.values[2] \in Nat
    PROVE  LET b == AfterRound(f, s)
           IN  /\ b[0] = [reader |-> s, sections |-> << >>]
               /\ \A i \in 0 .. s.values[2] - 1 : b[i + 1] = readSection(f, b[i])
<1> DEFINE b == AfterRound(f, s)
<1>1. \E g : RoundUpTo(g, f, s, s.values[2])
    BY RoundExists
<1>2. RoundUpTo(b, f, s, s.values[2])
    BY <1>1 DEF RoundUpTo, AfterRound
<1> HIDE DEF b
<1>3. b[0] = [reader |-> s, sections |-> << >>]
    BY <1>2 DEF RoundUpTo
<1>4. ASSUME NEW i \in 0 .. s.values[2] - 1 PROVE b[i + 1] = readSection(f, b[i])
  <2>1. i + 1 \in 0 .. s.values[2] /\ i + 1 # 0 /\ (i + 1) - 1 = i
      OBVIOUS
  <2>2. QED BY <1>2, <2>1 DEF RoundUpTo
<1>5. QED BY <1>3, <1>4 DEF b

-----------------------------------------------------------------------------
(***************************************************************************)
(* A reader that has not thrown is inside the file, and so is all it read. *)
(***************************************************************************)

Reader == [ok : BOOLEAN, pos : Nat, values : Seq(Nat), inside : BOOLEAN]

Good(f, s) == s \in Reader /\ s.inside = TRUE /\ (s.ok => s.pos <= f.size)

LEMMA SmallMod ==
    ASSUME NEW a \in Nat, NEW m \in Nat, a < m
    PROVE  a % m = a
BY SMT

LEMMA Widths ==
    /\ Size32 \in Nat /\ Size32 > 8 /\ Size64 \in Nat /\ Size32 <= Size64 /\ Size64 # 0
<1>1. Size32 \in Nat /\ Size32 > 8 /\ Size64 = Size32 * Size32
    BY WidthAssumption
<1>2. ASSUME NEW n \in Nat, n > 8 PROVE n * n \in Nat /\ n <= n * n
    BY <1>2, SMT
<1>3. QED BY <1>1, <1>2

\* A read of less than 2^32 bytes does not wrap around.
LEMMA ReadCases ==
    ASSUME NEW f, IsFile(f), NEW s, Good(f, s), s.ok, NEW len \in 0 .. Size32 - 1
    PROVE  /\ s.pos \in Nat /\ f.size \in Nat /\ field(f, s.pos) \in Nat
           /\ s.pos + len > f.size => read(f, s, len) = Thrown(s)
           /\ s.pos + len <= f.size =>
                  read(f, s, len) = [s EXCEPT !.pos = s.pos + len, !.inside = TRUE,
                                              !.values = Append(s.values, field(f, s.pos))]
<1>1. /\ s.pos \in Nat /\ s.inside = TRUE /\ s.pos <= f.size
      /\ f.size \in Nat /\ f.size + Size32 <= Size64
    BY Widths DEF Good, Reader, IsFile
<1>2. field(f, s.pos) \in Nat
    BY DEF field, IsFile
<1>3. (s.pos + len) % Size64 = s.pos + len /\ s.pos + len \in Nat
  <2>1. s.pos + len \in Nat /\ s.pos + len < Size64
      BY <1>1, Widths
  <2>2. QED BY <2>1, Widths, SmallMod
<1>4. ASSUME s.pos + len > f.size PROVE read(f, s, len) = Thrown(s)
    BY <1>3, <1>4 DEF read
<1>5. ASSUME s.pos + len <= f.size
      PROVE  read(f, s, len) = [s EXCEPT !.pos = s.pos + len, !.inside = TRUE,
                                         !.values = Append(s.values, field(f, s.pos))]
  <2>1. ~(~s.ok \/ (s.pos + len) % Size64 > f.size)
      BY <1>1, <1>3, <1>5
  <2>2. (s.inside /\ s.pos + len <= f.size) = TRUE
      BY <1>1, <1>5
  <2>3. read(f, s, len) = [s EXCEPT !.pos = (s.pos + len) % Size64,
                                    !.values = Append(s.values, field(f, s.pos)),
                                    !.inside = s.inside /\ s.pos + len <= f.size]
      BY <2>1, Zenon DEF read
  <2>4. QED BY <1>3, <2>2, <2>3
<1>6. QED BY <1>1, <1>2, <1>4, <1>5

LEMMA ReadGood ==
    ASSUME NEW f, IsFile(f), NEW s, Good(f, s), s.ok, NEW len \in 0 .. Size32 - 1
    PROVE  Good(f, read(f, s, len))
<1>1. /\ s \in Reader /\ s.inside = TRUE
      /\ s.pos \in Nat /\ f.size \in Nat /\ field(f, s.pos) \in Nat
    BY ReadCases DEF Good
<1>2. CASE s.pos + len > f.size
  <2>1. read(f, s, len) = Thrown(s)
      BY <1>2, ReadCases
  <2>2. QED BY <1>1, <2>1 DEF Good, Reader, Thrown
<1>3. CASE s.pos + len <= f.size
  <2>1. read(f, s, len) = [s EXCEPT !.pos = s.pos + len, !.inside = TRUE,
                                    !.values = Append(s.values, field(f, s.pos))]
      BY <1>3, ReadCases
  <2>2. s.pos + len \in Nat /\ Append(s.values, field(f, s.pos)) \in Seq(Nat)
      BY <1>1 DEF Reader
  <2>3. QED BY <1>1, <1>3, <2>1, <2>2 DEF Good, Reader
<1>4. QED BY <1>1, <1>2, <1>3

\* The fields of a header: the size of each is a number that was read before it.
FieldList(fields) ==
    /\ fields \in Seq([times : 0 .. 8, i : Nat])
    /\ \A j \in 1 .. Len(fields) : fields[j].i < j

LEMMA ItemOf ==
    ASSUME NEW S, NEW q \in Seq(S), NEW j \in 1 .. Len(q)
    PROVE  q[j] \in S
OBVIOUS

LEMMA BytesBounded ==
    ASSUME NEW s \in Reader, NEW fields, FieldList(fields),
           NEW j \in 1 .. Len(fields), Len(s.values) = j - 1
    PROVE  bytes(s, fields[j]) \in 0 .. Size32 - 1
<1>1. fields[j].times \in 0 .. 8 /\ fields[j].i \in 0 .. j - 1 /\ s.values \in Seq(Nat)
  <2>1. fields \in Seq([times : 0 .. 8, i : Nat]) /\ fields[j].i < j
      BY DEF FieldList
  <2>2. fields[j] \in [times : 0 .. 8, i : Nat]
      BY <2>1, ItemOf
  <2>3. fields[j].times \in 0 .. 8 /\ fields[j].i \in Nat
      BY <2>2
  <2>4. QED BY <2>1, <2>3 DEF Reader
<1>2. CASE fields[j].i = 0
    BY <1>1, <1>2, Widths DEF bytes
<1>3. CASE fields[j].i # 0
  <2>1. s.values[fields[j].i] \in Nat
      BY <1>1, <1>3
  <2>2. fields[j].times * s.values[fields[j].i] \in Nat
    <3>1. ASSUME NEW a \in Nat, NEW b \in Nat PROVE a * b \in Nat
        OBVIOUS
    <3>2. fields[j].times \in Nat
        BY <1>1
    <3>3. QED BY <2>1, <3>1, <3>2
  <2>3. (fields[j].times * s.values[fields[j].i]) % Size32 \in 0 .. Size32 - 1
      BY <2>2, Widths
  <2>4. QED BY <1>3, <2>3 DEF bytes
<1>4. QED BY <1>2, <1>3

\* One field, read from a file and from a longer one that begins with it: as long as the
\* shorter one is not too short, nothing is different.
Prefix(f, g) == f.at = g.at /\ f.rest = g.rest /\ f.type = g.type /\ f.size <= g.size

\* A reader that has read n fields, unless it has thrown.
HasRead(f, s, n) == Good(f, s) /\ (s.ok => Len(s.values) = n)

LEMMA FieldStep ==
    ASSUME NEW f, IsFile(f), NEW g, IsFile(g), Prefix(f, g),
           NEW fields, FieldList(fields), NEW i \in 0 .. Len(fields) - 1, NEW s, HasRead(f, s, i)
    PROVE  /\ HasRead(f, readField(f, s, fields[i + 1]), i + 1)
           /\ readField(f, s, fields[i + 1]).ok =>
                  s.ok /\ readField(f, s, fields[i + 1]) = readField(g, s, fields[i + 1])
<1> DEFINE len == bytes(s, fields[i + 1])
           t == readField(f, s, fields[i + 1])
<1>0. Good(f, s)
    BY DEF HasRead
<1>1. CASE ~ s.ok
  <2>1. t = s
      BY <1>1 DEF readField
  <2>2. QED BY <1>0, <1>1, <2>1 DEF HasRead
<1>2. CASE s.ok
  <2>1. len \in 0 .. Size32 - 1
    <3>1. PICK j \in 1 .. Len(fields) : j = i + 1
        BY DEF FieldList
    <3>2. Len(s.values) = j - 1 /\ s \in Reader
        BY <1>2, <3>1 DEF HasRead, Good
    <3>3. QED BY <3>1, <3>2, BytesBounded
  <2>2. t = read(f, s, len) /\ readField(g, s, fields[i + 1]) = read(g, s, len)
      BY <1>2 DEF readField
  <2> HIDE DEF len, t
  <2>3. Good(f, t)
      BY <1>0, <1>2, <2>1, <2>2, ReadGood
  <2>4. ASSUME t.ok PROVE Len(t.values) = i + 1 /\ t = read(g, s, len)
    <3>1. s.pos \in Nat /\ f.size \in Nat /\ s \in Reader /\ field(f, s.pos) \in Nat
        BY <1>0, <1>2, <2>1, ReadCases DEF Good
    <3>2. s.pos + len <= f.size
      <4>1. CASE s.pos + len > f.size
        <5>1. s.pos + len > f.size => read(f, s, len) = Thrown(s)
            BY <1>0, <1>2, <2>1, ReadCases
        <5>2. ~ t.ok
            BY <2>2, <3>1, <4>1, <5>1 DEF Thrown, Reader
        <5>3. QED BY <2>4, <5>2
      <4>2. QED BY <2>1, <3>1, <4>1
    <3>3. t = [s EXCEPT !.pos = s.pos + len, !.inside = TRUE,
                        !.values = Append(s.values, field(f, s.pos))]
        BY <1>0, <1>2, <2>1, <2>2, <3>2, ReadCases
    <3>4. Good(g, s) /\ s.pos + len <= g.size /\ field(g, s.pos) = field(f, s.pos)
      <4>1. g.size \in Nat /\ f.size <= g.size /\ f.at = g.at /\ f.rest = g.rest
          BY Widths DEF Prefix, IsFile
      <4>2. s.pos <= f.size /\ s.inside = TRUE
          BY <1>0, <1>2 DEF Good
      <4>3. QED BY <2>1, <3>1, <3>2, <4>1, <4>2 DEF Good, field
    <3>5. read(g, s, len) = [s EXCEPT !.pos = s.pos + len, !.inside = TRUE,
                                      !.values = Append(s.values, field(g, s.pos))]
        BY <1>2, <2>1, <3>4, ReadCases
    <3>6. t = read(g, s, len)
        BY <3>3, <3>4, <3>5
    <3>7. t.values = Append(s.values, field(f, s.pos)) /\ s.values \in Seq(Nat)
        BY <3>1, <3>3 DEF Reader
    <3>8. Len(s.values) = i
        BY <1>2 DEF HasRead
    <3>9. QED BY <3>1, <3>6, <3>7, <3>8
  <2>5. QED BY <1>2, <2>2, <2>3, <2>4 DEF t, HasRead
<1>3. QED BY <1>1, <1>2

\* The same of all the fields of a header.
LEMMA FieldsRead ==
    ASSUME NEW f, IsFile(f), NEW g, IsFile(g), Prefix(f, g), NEW s, HasRead(f, s, 0),
           NEW fields, FieldList(fields)
    PROVE  /\ HasRead(f, readFields(f, s, fields), Len(fields))
           /\ readFields(f, s, fields).ok =>
                  s.ok /\ readFields(f, s, fields) = readFields(g, s, fields)
<1> DEFINE N == Len(fields)
           r == AfterField(f, s, fields)
           q == AfterField(g, s, fields)
           P(n) == HasRead(f, r[n], n) /\ (r[n].ok => s.ok /\ r[n] = q[n])
           S == {n \in 0 .. N : P(n)}
<1>1. N \in Nat
    BY DEF FieldList
<1>2. r[0] = s /\ \A i \in 0 .. N - 1 : r[i + 1] = readField(f, r[i], fields[i + 1])
    BY <1>1, FieldEquations
<1>3. q[0] = s /\ \A i \in 0 .. N - 1 : q[i + 1] = readField(g, q[i], fields[i + 1])
    BY <1>1, FieldEquations
<1> HIDE DEF r, q
<1>4. P(0)
    BY <1>2, <1>3
<1>5. 0 \in S
    BY <1>1, <1>4
<1>6. ASSUME NEW n \in 0 .. N - 1, n \in S PROVE n + 1 \in S
  <2>1. n + 1 \in 0 .. N
      BY <1>1
  <2>2. P(n)
      BY <1>6
  <2>3. /\ r[n + 1] = readField(f, r[n], fields[n + 1])
        /\ q[n + 1] = readField(g, q[n], fields[n + 1])
      BY <1>2, <1>3
  <2>4. /\ HasRead(f, readField(f, r[n], fields[n + 1]), n + 1)
        /\ readField(f, r[n], fields[n + 1]).ok =>
               /\ r[n].ok
               /\ readField(f, r[n], fields[n + 1]) = readField(g, r[n], fields[n + 1])
      BY <2>2, FieldStep
  <2>5. P(n + 1)
      BY <2>2, <2>3, <2>4
  <2>6. QED BY <2>1, <2>5
<1> HIDE DEF S, P, N
<1>7. 0 .. N \subseteq S
    BY <1>1, <1>5, <1>6, IntervalInduction
<1>8. P(N)
    BY <1>1, <1>7 DEF S
<1>9. readFields(f, s, fields) = r[N] /\ readFields(g, s, fields) = q[N]
    BY DEF readFields, r, q, N
<1>10. QED BY <1>8, <1>9 DEF P, N

-----------------------------------------------------------------------------
(***************************************************************************)
(* The sections of a file.                                                 *)
(***************************************************************************)

SectionSet(f) == [type : Nat, start : 0 .. f.size, size : Nat]

Block(f, b) ==
    /\ b = [reader |-> b.reader, sections |-> b.sections]
    /\ Good(f, b.reader) /\ b.sections \in Seq(SectionSet(f))

LEMMA ThrownGood ==
    ASSUME NEW f, NEW s, Good(f, s)
    PROVE  Good(f, Thrown(s)) /\ ~ Thrown(s).ok
BY DEF Good, Reader, Thrown

\* Taking up reading with no field read yet.
LEMMA Restart ==
    ASSUME NEW f, NEW s, Good(f, s), NEW pos \in Nat, s.ok => pos <= f.size
    PROVE  /\ HasRead(f, [s EXCEPT !.pos = pos, !.values = << >>], 0)
           /\ [s EXCEPT !.pos = pos, !.values = << >>].ok = s.ok
<1> DEFINE u == [s EXCEPT !.pos = pos, !.values = << >>]
<1>1. s \in Reader /\ s.inside = TRUE
    BY DEF Good
<1>2. << >> \in Seq(Nat) /\ Len(<< >>) = 0
    OBVIOUS
<1>3. u \in Reader /\ u.ok = s.ok /\ u.pos = pos /\ u.values = << >> /\ u.inside = TRUE
    BY <1>1, <1>2 DEF Reader
<1> HIDE DEF u
<1>4. HasRead(f, u, 0)
    BY <1>2, <1>3 DEF HasRead, Good
<1>5. QED BY <1>3, <1>4 DEF u

LEMMA HeaderFields ==
    /\ FieldList(<<U32, U64>>) /\ Len(<<U32, U64>>) = 2
    /\ FieldList(<<U32, U32>>) /\ Len(<<U32, U32>>) = 2
    /\ FieldList(<<U32>>) /\ Len(<<U32>>) = 1
BY DEF FieldList, U32, U64

LEMMA LoadFields ==
    /\ FieldList(WtnsFields) /\ Len(WtnsFields) = 3
    /\ FieldList(ZkeyFields) /\ Len(ZkeyFields) = 13
BY DEF FieldList, U32, Sized, WtnsFields, ZkeyFields

LEMMA HeaderRead ==
    ASSUME NEW f, IsFile(f), NEW g, IsFile(g), Prefix(f, g), NEW b, Block(f, b)
    PROVE  /\ Good(f, Header(f, b))
           /\ Header(f, b).ok =>
                  /\ b.reader.ok /\ Header(f, b) = Header(g, b)
                  /\ Header(f, b).values \in Seq(Nat) /\ Len(Header(f, b).values) = 2
<1> DEFINE u == [b.reader EXCEPT !.values = << >>]
<1>1. Good(f, b.reader)
    BY DEF Block
<1>2. HasRead(f, u, 0) /\ u.ok = b.reader.ok
  <2>1. b.reader \in Reader /\ b.reader.inside = TRUE
      BY <1>1 DEF Good
  <2>2. << >> \in Seq(Nat) /\ Len(<< >>) = 0
      OBVIOUS
  <2>3. /\ u \in Reader /\ u.ok = b.reader.ok /\ u.pos = b.reader.pos
        /\ u.values = << >> /\ u.inside = TRUE
      BY <2>1, <2>2 DEF Reader
  <2> HIDE DEF u
  <2>4. QED BY <1>1, <2>2, <2>3 DEF HasRead, Good
<1>3. Header(f, b) = readFields(f, u, <<U32, U64>>) /\ Header(g, b) = readFields(g, u, <<U32, U64>>)
    BY DEF Header
<1> HIDE DEF u
<1>4. /\ HasRead(f, Header(f, b), 2)
      /\ Header(f, b).ok => u.ok /\ Header(f, b) = Header(g, b)
  <2>1. PICK fields : fields = <<U32, U64>>
      OBVIOUS
  <2>2. FieldList(fields) /\ Len(fields) = 2
      BY <2>1, HeaderFields
  <2>3. Header(f, b) = readFields(f, u, fields) /\ Header(g, b) = readFields(g, u, fields)
      BY <1>3, <2>1
  <2>4. /\ HasRead(f, readFields(f, u, fields), Len(fields))
        /\ readFields(f, u, fields).ok =>
               u.ok /\ readFields(f, u, fields) = readFields(g, u, fields)
    <3>1. HasRead(f, u, 0)
        BY <1>2
    <3>2. FieldList(fields)
        BY <2>2
    <3>3. QED BY <3>1, <3>2, FieldsRead
  <2>5. QED BY <2>2, <2>3, <2>4
<1>5. QED BY <1>2, <1>4 DEF HasRead, Good, Reader

\* One round of the loop keeps to the file, and finds in a longer file what it finds in the
\* shorter one, unless that is too short.
LEMMA RoundStep ==
    ASSUME NEW f, IsFile(f), NEW g, IsFile(g), Prefix(f, g), NEW b, Block(f, b)
    PROVE  /\ Block(f, readSection(f, b))
           /\ readSection(f, b).reader.ok =>
                  b.reader.ok /\ readSection(f, b) = readSection(g, b)
<1> DEFINE h == Header(f, b)
           c == readSection(f, b)
<1>1. Good(f, h)
    BY HeaderRead
<1>2. h.ok => /\ b.reader.ok /\ h = Header(g, b)
              /\ h.values \in Seq(Nat) /\ Len(h.values) = 2
    BY HeaderRead
<1>3. c = Jumped(f, b, h) /\ readSection(g, b) = Jumped(g, b, Header(g, b))
    BY DEF readSection
<1>4. b = [reader |-> b.reader, sections |-> b.sections] /\ b.sections \in Seq(SectionSet(f))
    BY DEF Block
<1> HIDE DEF h, c
<1>5. CASE ~ h.ok
  <2>1. c = [b EXCEPT !.reader = h]
      BY <1>3, <1>5 DEF Jumped
  <2>2. c = [reader |-> h, sections |-> b.sections]
      BY <1>4, <2>1
  <2>3. c.reader = h /\ c.sections = b.sections
      BY <2>2
  <2>4. Block(f, c)
      BY <1>1, <1>4, <2>2, <2>3 DEF Block
  <2>5. QED BY <1>5, <2>3, <2>4 DEF c
<1>6. CASE h.ok
  <2>1. h \in Reader /\ h.inside = TRUE /\ h.pos \in 0 .. f.size /\ f.size \in Nat
      BY <1>1, <1>6, Widths DEF Good, Reader, IsFile
  <2>2. h.values[1] \in Nat /\ h.values[2] \in Nat
      BY <1>2, <1>6
  <2>3. Behind(h) \in Nat
      BY <2>1, <2>2, Widths DEF Behind
  <2>fits. PICK fits \in BOOLEAN : fits = (Behind(h) <= f.size)
    <3>1. (Behind(h) <= f.size) \in BOOLEAN
        BY <2>1, <2>3
    <3>2. QED BY <3>1, Zenon
  <2> DEFINE r == [h EXCEPT !.pos = Behind(h), !.ok = fits]
             q == Append(b.sections, Section(h))
  <2>4. c = [reader |-> r, sections |-> q]
      BY <1>3, <1>6, <2>fits DEF Jumped
  <2>5. r \in Reader /\ r.inside = TRUE /\ r.pos = Behind(h) /\ r.ok = fits
      BY <2>1, <2>3 DEF Reader
  <2>6. Section(h) \in SectionSet(f)
      BY <2>1, <2>2 DEF Section, SectionSet
  <2>7. q \in Seq(SectionSet(f))
      BY <1>4, <2>6
  <2> HIDE DEF r, q
  <2>8. Good(f, r)
      BY <2>5, <2>fits DEF Good
  <2>9. c.reader = r /\ c.sections = q
      BY <2>4
  <2>10. Block(f, c)
      BY <2>4, <2>7, <2>8, <2>9 DEF Block
  <2>11. ASSUME c.reader.ok PROVE c = readSection(g, b)
    <3>1. g.size \in Nat /\ f.size <= g.size
        BY Widths DEF Prefix, IsFile
    <3>2. Behind(h) <= f.size /\ fits = TRUE
        BY <2>5, <2>9, <2>11, <2>fits
    <3>longer. Behind(h) <= g.size
        BY <2>1, <2>3, <3>1, <3>2
    <3>3. (Behind(h) <= g.size) = TRUE
        BY <3>longer
    <3>4. readSection(g, b) = [reader |-> [h EXCEPT !.pos = Behind(h), !.ok = Behind(h) <= g.size],
                               sections |-> q]
        BY <1>2, <1>3, <1>6 DEF Jumped, q
    <3>5. QED BY <2>4, <3>2, <3>3, <3>4 DEF r
  <2>12. QED BY <1>2, <1>6, <2>10, <2>11 DEF c
<1>7. QED BY <1>5, <1>6

LEMMA Rounds ==
    ASSUME NEW f, IsFile(f), NEW g, IsFile(g), Prefix(f, g), NEW s, Good(f, s),
           s.values[2] \in Nat
    PROVE  LET N == s.values[2]
           IN  /\ Block(f, AfterRound(f, s)[N])
               /\ AfterRound(f, s)[N].reader.ok => AfterRound(f, s)[N] = AfterRound(g, s)[N]
<1> DEFINE N == s.values[2]
           r == AfterRound(f, s)
           q == AfterRound(g, s)
           P(n) == Block(f, r[n]) /\ (r[n].reader.ok => r[n] = q[n])
           S == {n \in 0 .. N : P(n)}
<1>1. N \in Nat
    OBVIOUS
<1>2. /\ r[0] = [reader |-> s, sections |-> << >>]
      /\ \A i \in 0 .. N - 1 : r[i + 1] = readSection(f, r[i])
    BY RoundEquations
<1>3. /\ q[0] = [reader |-> s, sections |-> << >>]
      /\ \A i \in 0 .. N - 1 : q[i + 1] = readSection(g, q[i])
    BY RoundEquations
<1> HIDE DEF r, q, N
<1>4. P(0)
  <2>1. r[0].reader = s /\ r[0].sections = << >> /\ << >> \in Seq(SectionSet(f))
      BY <1>2
  <2>2. Block(f, r[0])
      BY <1>2, <2>1 DEF Block
  <2>3. QED BY <1>2, <1>3, <2>2
<1>5. 0 \in S
    BY <1>1, <1>4
<1>6. ASSUME NEW n \in 0 .. N - 1, n \in S PROVE n + 1 \in S
  <2>1. n + 1 \in 0 .. N
      BY <1>1
  <2>2. P(n)
      BY <1>6
  <2>3. r[n + 1] = readSection(f, r[n]) /\ q[n + 1] = readSection(g, q[n])
      BY <1>2, <1>3
  <2>4. /\ Block(f, readSection(f, r[n]))
        /\ readSection(f, r[n]).reader.ok =>
               r[n].reader.ok /\ readSection(f, r[n]) = readSection(g, r[n])
      BY <2>2, RoundStep
  <2>5. P(n + 1)
      BY <2>2, <2>3, <2>4
  <2>6. QED BY <2>1, <2>5
<1> HIDE DEF S, P
<1>7. 0 .. N \subseteq S
    BY <1>1, <1>5, <1>6, IntervalInduction
<1>8. P(N)
    BY <1>1, <1>7 DEF S
<1>9. QED BY <1>8 DEF P, N, r, q

Preamble(f) == readFields(f, At(4), <<U32, U32>>)

\* Twelve bytes are enough for the letters, the version and the number of sections.
LEMMA PreambleRead ==
    ASSUME NEW f, IsFile(f), NEW g, IsFile(g), Prefix(f, g), f.size >= 12
    PROVE  /\ Good(f, Preamble(f)) /\ Preamble(f).ok /\ Preamble(f) = Preamble(g)
           /\ Preamble(f).values[1] \in Nat /\ Preamble(f).values[2] \in Nat
<1>1. PICK fields : fields = <<U32, U32>>
    OBVIOUS
<1>2. FieldList(fields) /\ Len(fields) = 2 /\ fields[1] = U32 /\ fields[2] = U32
    BY <1>1, HeaderFields
<1>3. Preamble(f) = readFields(f, At(4), fields) /\ Preamble(g) = readFields(g, At(4), fields)
    BY <1>1 DEF Preamble
<1>4. f.size \in Nat /\ 4 \in 0 .. Size32 - 1
    BY Widths DEF IsFile
<1>5. /\ At(4) \in Reader /\ At(4).ok /\ At(4).pos = 4 /\ At(4).inside = TRUE
      /\ At(4).values = << >> /\ Good(f, At(4)) /\ HasRead(f, At(4), 0)
  <2>1. << >> \in Seq(Nat) /\ Len(<< >>) = 0
      OBVIOUS
  <2>2. QED BY <1>4, <2>1 DEF At, Reader, Good, HasRead
<1> DEFINE s == readField(f, At(4), U32)
           t == readField(f, s, U32)
<1>6. s = read(f, At(4), 4) /\ (s.ok => t = read(f, s, 4))
    BY <1>5 DEF readField, bytes, U32
<1>7. Preamble(f) = t
  <2>1. LET r == AfterField(f, At(4), fields)
        IN  r[0] = At(4) /\ r[1] = readField(f, r[0], fields[1])
            /\ r[2] = readField(f, r[1], fields[2])
    <3> DEFINE r == AfterField(f, At(4), fields)
    <3>1. r[0] = At(4) /\ \A i \in 0 .. 2 - 1 : r[i + 1] = readField(f, r[i], fields[i + 1])
        BY <1>2, FieldEquations
    <3> HIDE DEF r
    <3>2. 0 \in 0 .. 2 - 1 /\ 1 \in 0 .. 2 - 1 /\ 0 + 1 = 1 /\ 1 + 1 = 2
        OBVIOUS
    <3>3. r[1] = readField(f, r[0], fields[1]) /\ r[2] = readField(f, r[1], fields[2])
        BY <3>1, <3>2
    <3>4. QED BY <3>1, <3>3 DEF r
  <2>2. QED BY <1>2, <1>3, <2>1 DEF readFields
<1> HIDE DEF s, t
<1>8. Good(f, s) /\ s.ok /\ s.pos = 8
  <2>1. At(4).pos + 4 <= f.size /\ At(4).pos + 4 = 8
      BY <1>4, <1>5
  <2>2. Good(f, s)
      BY <1>4, <1>5, <1>6, ReadGood
  <2>3. s = [At(4) EXCEPT !.pos = At(4).pos + 4, !.inside = TRUE,
                          !.values = Append(At(4).values, field(f, At(4).pos))]
    <3>1. Good(f, At(4)) /\ At(4).ok
        BY <1>5
    <3>2. At(4).pos + 4 <= f.size =>
              read(f, At(4), 4) = [At(4) EXCEPT !.pos = At(4).pos + 4, !.inside = TRUE,
                                     !.values = Append(At(4).values, field(f, At(4).pos))]
        BY <1>4, <3>1, ReadCases
    <3>3. QED BY <1>6, <2>1, <3>2
  <2>4. QED BY <1>5, <2>1, <2>2, <2>3 DEF Reader
<1>9. t.ok
  <2>1. s.pos + 4 <= f.size /\ s \in Reader
      BY <1>4, <1>8 DEF Good
  <2>2. t = [s EXCEPT !.pos = s.pos + 4, !.inside = TRUE,
                      !.values = Append(s.values, field(f, s.pos))]
    <3>1. Good(f, s) /\ s.ok
        BY <1>8
    <3>2. s.pos + 4 <= f.size =>
              read(f, s, 4) = [s EXCEPT !.pos = s.pos + 4, !.inside = TRUE,
                                        !.values = Append(s.values, field(f, s.pos))]
        BY <1>4, <3>1, ReadCases
    <3>3. QED BY <1>6, <2>1, <3>1, <3>2
  <2>3. QED BY <1>8, <2>1, <2>2 DEF Reader
<1>10. /\ HasRead(f, readFields(f, At(4), fields), Len(fields))
       /\ readFields(f, At(4), fields).ok =>
              At(4).ok /\ readFields(f, At(4), fields) = readFields(g, At(4), fields)
  <2>1. FieldList(fields) /\ HasRead(f, At(4), 0)
      BY <1>2, <1>5
  <2>2. QED BY <2>1, FieldsRead
<1>11. HasRead(f, t, 2) /\ Preamble(f) = Preamble(g)
    BY <1>2, <1>3, <1>7, <1>9, <1>10
<1>12. Good(f, t) /\ t.values \in Seq(Nat) /\ Len(t.values) = 2
    BY <1>9, <1>11 DEF HasRead, Good, Reader
<1>13. t.values[1] \in Nat /\ t.values[2] \in Nat
    BY <1>12
<1>14. QED BY <1>7, <1>9, <1>11, <1>12, <1>13

LEMMA NoSections ==
    ASSUME NEW f, NEW s, Good(f, s)
    PROVE  /\ Block(f, [reader |-> Thrown(s), sections |-> << >>])
           /\ ~ [reader |-> Thrown(s), sections |-> << >>].reader.ok
<1>1. Good(f, Thrown(s)) /\ ~ Thrown(s).ok
    BY ThrownGood
<1>2. << >> \in Seq(SectionSet(f))
    OBVIOUS
<1>3. QED BY <1>1, <1>2 DEF Block

LEMMA FileRead ==
    ASSUME NEW f, IsFile(f), NEW g, IsFile(g), Prefix(f, g), NEW type, NEW version
    PROVE  /\ Block(f, readFileData(f, type, version))
           /\ readFileData(f, type, version).reader.ok =>
                  /\ f.type = type /\ f.size >= 12
                  /\ readFileData(f, type, version) =
                         AfterRound(g, Preamble(g))[Preamble(g).values[2]]
<1> DEFINE b == readFileData(f, type, version)
           s == Preamble(f)
<1>1. f.size \in Nat
    BY Widths DEF IsFile
<1>2. CASE ~(f.size >= 12 /\ f.type = type)
  <2>1. b = [reader |-> Thrown(At(0)), sections |-> << >>]
      BY <1>2 DEF readFileData
  <2>2. Good(f, At(0))
    <3>1. << >> \in Seq(Nat)
        OBVIOUS
    <3>2. QED BY <1>1, <3>1 DEF At, Good, Reader
  <2>3. QED BY <2>1, <2>2, NoSections
<1>3. CASE f.size >= 12 /\ f.type = type
  <2>1. /\ Good(f, s) /\ s.ok /\ s = Preamble(g)
        /\ s.values[1] \in Nat /\ s.values[2] \in Nat
      BY <1>3, PreambleRead
  <2>2. b = readSections(f, s, version)
      BY <1>3 DEF readFileData, Preamble
  <2> HIDE DEF s, b
  <2>3. CASE s.values[1] <= version /\ f.size >= 12 + s.values[2] * 12
    <3>1. b = AfterRound(f, s)[s.values[2]]
        BY <2>2, <2>3 DEF readSections
    <3>2. /\ Block(f, AfterRound(f, s)[s.values[2]])
          /\ AfterRound(f, s)[s.values[2]].reader.ok =>
                 AfterRound(f, s)[s.values[2]] = AfterRound(g, s)[s.values[2]]
        BY <2>1, Rounds
    <3>3. QED BY <1>3, <2>1, <3>1, <3>2 DEF b
  <2>4. CASE ~(s.values[1] <= version /\ f.size >= 12 + s.values[2] * 12)
    <3>1. b = [reader |-> Thrown(s), sections |-> << >>]
        BY <2>2, <2>4 DEF readSections
    <3>2. QED BY <2>1, <3>1, NoSections DEF b
  <2>5. QED BY <2>3, <2>4
<1>4. QED BY <1>2, <1>3

\* The sections of a file that was cut off are never all found.
LEMMA CutOffThrows ==
    ASSUME NEW f, IsFile(f), NEW g, IsFile(g), CutOff(f, g), NEW type, NEW version
    PROVE  ~ readFileData(f, type, version).reader.ok
<1> SUFFICES ASSUME readFileData(f, type, version).reader.ok PROVE FALSE
    OBVIOUS
<1> DEFINE b == readFileData(f, type, version)
           found == AfterRound(g, Preamble(g))[Preamble(g).values[2]]
<1>1. f.at = g.at /\ f.rest = g.rest /\ f.type = g.type /\ f.size < g.size
    BY DEF CutOff
<1>2. f.size \in Nat /\ g.size \in Nat
    BY Widths DEF IsFile
<1>3. Prefix(f, g) /\ Prefix(g, g)
    BY <1>1, <1>2 DEF Prefix
<1>4. PICK maxVersion \in {1, 2} :
          /\ readFileData(g, g.type, maxVersion).reader.ok
          /\ readFileData(g, g.type, maxVersion).reader.pos = g.size
    BY DEF CutOff
<1>5. readFileData(g, g.type, maxVersion) = found
    BY <1>3, <1>4, FileRead
<1>6. b = found /\ Block(f, b)
    BY <1>3, FileRead
<1>7. Good(f, b.reader) /\ b.reader.ok /\ b.reader.pos = g.size
    BY <1>4, <1>5, <1>6 DEF Block
<1>8. b.reader.pos <= f.size
    BY <1>7 DEF Good
<1>9. QED BY <1>1, <1>2, <1>7, <1>8

-----------------------------------------------------------------------------
(***************************************************************************)
(* The headers that are loaded from the sections.                          *)
(***************************************************************************)

LEMMA FirstExists ==
    ASSUME NEW f, NEW b, Block(f, b), NEW id, HasSections(b, {id})
    PROVE  /\ FirstOf(b, id) \in DOMAIN b.sections
           /\ b.sections[FirstOf(b, id)] \in SectionSet(f)
<1> DEFINE T == {i \in DOMAIN b.sections : b.sections[i].type = id}
<1>1. b.sections \in Seq(SectionSet(f)) /\ Len(b.sections) \in Nat
      /\ DOMAIN b.sections = 1 .. Len(b.sections)
    BY DEF Block
<1>2. T \subseteq Nat /\ T # {}
    BY <1>1 DEF HasSections
<1>3. PICK i \in T : \A j \in T : i <= j
    BY <1>2, NatMinimum
<1>4. \A j \in 1 .. i - 1 : b.sections[j].type # id
  <2> TAKE j \in 1 .. i - 1
  <2>1. j \in DOMAIN b.sections /\ ~(i <= j)
      BY <1>1, <1>3
  <2>2. QED BY <1>3, <2>1
<1>5. FirstOf(b, id) \in DOMAIN b.sections
    BY <1>3, <1>4 DEF FirstOf
<1>6. QED BY <1>1, <1>5, ItemOf

LEMMA StartRead ==
    ASSUME NEW f, IsFile(f), NEW b, Block(f, b), NEW id
    PROVE  /\ Good(f, startReadSection(b, id))
           /\ startReadSection(b, id).ok =>
                  b.reader.ok /\ HasRead(f, startReadSection(b, id), 0)
<1>1. Good(f, b.reader) /\ f.size \in Nat
    BY Widths DEF Block, IsFile
<1>2. CASE b.reader.ok /\ HasSections(b, {id})
  <2>1. b.sections[FirstOf(b, id)] \in SectionSet(f)
      BY <1>2, FirstExists
  <2>2. PICK pos \in 0 .. f.size : pos = b.sections[FirstOf(b, id)].start
      BY <2>1 DEF SectionSet
  <2>3. pos \in Nat /\ pos <= f.size
      BY <1>1
  <2>4. startReadSection(b, id) = [b.reader EXCEPT !.pos = pos, !.values = << >>]
      BY <1>2, <2>2 DEF startReadSection
  <2>5. HasRead(f, startReadSection(b, id), 0)
    <3>1. HasRead(f, [b.reader EXCEPT !.pos = pos, !.values = << >>], 0)
        BY <1>1, <2>3, Restart
    <3>2. QED BY <2>4, <3>1
  <2>6. QED BY <1>2, <2>5 DEF HasRead
<1>3. CASE ~(b.reader.ok /\ HasSections(b, {id}))
  <2>1. startReadSection(b, id) = Thrown(b.reader)
      BY <1>3 DEF startReadSection
  <2>2. QED BY <1>1, <2>1, ThrownGood
<1>4. QED BY <1>2, <1>3

LEMMA SectionRead ==
    ASSUME NEW f, IsFile(f), NEW b, Block(f, b), NEW id, NEW fields, FieldList(fields)
    PROVE  /\ HasRead(f, section(f, b, id, fields), Len(fields))
           /\ section(f, b, id, fields).ok => b.reader.ok
<1> DEFINE s == startReadSection(b, id)
           t == readFields(f, s, fields)
           u == section(f, b, id, fields)
<1>1. u = IF t.ok /\ t.pos - b.sections[FirstOf(b, id)].start # b.sections[FirstOf(b, id)].size
          THEN Thrown(t) ELSE t
    BY DEF section, endReadSection
<1>2. Good(f, s) /\ (s.ok => b.reader.ok /\ HasRead(f, s, 0))
    BY StartRead
<1> HIDE DEF u, s
<1>3. HasRead(f, s, 0)
    BY <1>2 DEF HasRead
<1>4. Prefix(f, f)
    BY Widths DEF Prefix, IsFile
<1>5. HasRead(f, t, Len(fields)) /\ (t.ok => s.ok)
    BY <1>3, <1>4, FieldsRead
<1> HIDE DEF t
<1>6. CASE u = t
    BY <1>2, <1>5, <1>6 DEF u
<1>7. CASE u = Thrown(t)
  <2>1. Good(f, u) /\ ~ u.ok
      BY <1>5, <1>7, ThrownGood DEF HasRead
  <2>2. QED BY <2>1 DEF HasRead, u
<1>8. QED BY <1>1, <1>6, <1>7

LEMMA WtnsLoaded ==
    ASSUME NEW f, IsFile(f)
    PROVE  /\ loadWtns(f).inside = TRUE
           /\ loadWtns(f).ok => readFileData(f, "wtns", 2).reader.ok
<1> DEFINE b == readFileData(f, "wtns", 2)
           s == section(f, b, 1, WtnsFields)
<1>1. Prefix(f, f)
    BY Widths DEF Prefix, IsFile
<1>2. Block(f, b)
    BY <1>1, FileRead
<1>3. loadWtns(f) = wtnsHeader(b, s)
    BY DEF loadWtns, wtnsOf
<1> HIDE DEF b
<1>4. FieldList(WtnsFields)
    BY LoadFields
<1>5. HasRead(f, s, Len(WtnsFields)) /\ (s.ok => b.reader.ok)
    BY <1>2, <1>4, SectionRead
<1> HIDE DEF s
<1>6. s.inside = TRUE
    BY <1>5 DEF HasRead, Good
<1>7. loadWtns(f).inside = s.inside /\ loadWtns(f).ok = s.ok
    BY <1>3 DEF wtnsHeader
<1>8. QED BY <1>5, <1>6, <1>7 DEF b

LEMMA ZkeyLoaded ==
    ASSUME NEW f, IsFile(f)
    PROVE  /\ loadZkey(f).inside = TRUE
           /\ loadZkey(f).ok => readFileData(f, "zkey", 1).reader.ok
<1> DEFINE b == readFileData(f, "zkey", 1)
           p == section(f, b, 1, <<U32>>)
           c == [b EXCEPT !.reader = p]
           s == section(f, c, 2, ZkeyFields)
<1>1. Prefix(f, f)
    BY Widths DEF Prefix, IsFile
<1>2. Block(f, b)
    BY <1>1, FileRead
<1>3. \/ loadZkey(f) = zkeyHeader(b, s)
      \/ loadZkey(f) = zkeyHeader(b, Thrown(p))
    BY DEF loadZkey, zkeyAfter, zkeyOf
<1> HIDE DEF b
<1>4. FieldList(<<U32>>) /\ FieldList(ZkeyFields)
    BY LoadFields, HeaderFields
<1>5. HasRead(f, p, Len(<<U32>>)) /\ (p.ok => b.reader.ok)
    BY <1>2, <1>4, SectionRead
<1> HIDE DEF p
<1>6. Good(f, p)
    BY <1>5 DEF HasRead
<1>7. Block(f, c) /\ c.reader = p
  <2>1. c = [reader |-> p, sections |-> b.sections] /\ b.sections \in Seq(SectionSet(f))
      BY <1>2 DEF Block
  <2>2. QED BY <1>6, <2>1 DEF Block
<1> HIDE DEF c
<1>8. HasRead(f, s, Len(ZkeyFields)) /\ (s.ok => c.reader.ok)
    BY <1>4, <1>7, SectionRead
<1> HIDE DEF s
<1>9. ASSUME NEW t, Good(f, t), t.ok => b.reader.ok, loadZkey(f) = zkeyHeader(b, t)
      PROVE  loadZkey(f).inside = TRUE /\ (loadZkey(f).ok => b.reader.ok)
  <2>1. t.inside = TRUE
      BY <1>9 DEF Good
  <2>2. loadZkey(f).inside = t.inside /\ loadZkey(f).ok = (t.ok /\ HasSections(b, {4}))
      BY <1>9 DEF zkeyHeader
  <2>3. QED BY <1>9, <2>1, <2>2
<1>10. Good(f, s) /\ (s.ok => b.reader.ok)
    BY <1>5, <1>7, <1>8 DEF HasRead
<1>11. Good(f, Thrown(p)) /\ (Thrown(p).ok => b.reader.ok)
    BY <1>6, ThrownGood
<1>12. QED BY <1>3, <1>9, <1>10, <1>11 DEF b

-----------------------------------------------------------------------------
(***************************************************************************)
(* What the readers promise, in every state of the interface.              *)
(***************************************************************************)

LEMMA LoadedInside ==
    /\ \A z \in Zkey : zkeys[z].inside = TRUE
    /\ \A w \in Wtns : witnesses[w].inside = TRUE
<1>1. ASSUME NEW z \in Zkey PROVE zkeys[z].inside = TRUE
  <2>1. IsFile(contents[z])
      BY FileAssumption
  <2>2. QED BY <2>1, ZkeyLoaded DEF zkeys
<1>2. ASSUME NEW w \in Wtns PROVE witnesses[w].inside = TRUE
  <2>1. IsFile(contents[w])
      BY FileAssumption
  <2>2. QED BY <2>1, WtnsLoaded DEF witnesses
<1>3. QED BY <1>1, <1>2

\* Whatever numbers a file holds as sizes, versions and counts, the checks of
\* BinFile::read and of the loop over the sections keep the readers inside it: a size that
\* does not fit is found before it is used, and no position wraps around to a valid one.
THEOREM ReadsInsideCorrect == Spec => []ReadsInside
<1> DEFINE Inv == stray = FALSE
<1>1. Init => Inv
    BY DEF Init
<1>2. Inv /\ [Next]_vars => Inv'
  <2> SUFFICES ASSUME Inv, [Next]_vars PROVE Inv'
      OBVIOUS
  <2>1. ASSUME NEW z \in Zkey, allocate_advertised(z) PROVE Inv'
      BY <2>1, LoadedInside DEF allocate_advertised
  <2>2. ASSUME NEW sizes \in Capacity, allocate(sizes) PROVE Inv'
      BY <2>2 DEF allocate
  <2>3. CASE allocate_required
      BY <2>3 DEF allocate_required
  <2>4. ASSUME NEW h \in Handle, NEW z \in Zkey,
               groth16_prover_create(h, z) \/ groth16_prover_create_zkey_file(h, z)
        PROVE  Inv'
      BY <2>4, LoadedInside DEF groth16_prover_create, groth16_prover_create_zkey_file
  <2>5. ASSUME NEW h \in Handle, groth16_prover_destroy(h) PROVE Inv'
      BY <2>5 DEF groth16_prover_destroy
  <2>6. ASSUME NEW h \in Handle, NEW w \in Wtns, groth16_prover_prove(h, w) PROVE Inv'
      BY <2>6, LoadedInside DEF groth16_prover_prove
  <2>7. ASSUME NEW z \in Zkey, groth16_prover(z) PROVE Inv'
      BY <2>7, LoadedInside DEF groth16_prover
  <2>8. CASE UNCHANGED vars
      BY <2>8 DEF vars
  <2>9. QED BY <2>1, <2>2, <2>3, <2>4, <2>5, <2>6, <2>7, <2>8 DEF Next
<1>3. Inv => ReadsInside
    BY DEF ReadsInside
<1>4. QED BY <1>1, <1>2, <1>3, PTL DEF Spec

\* Each of the truncated files is the beginning of a file that is complete: one whose
\* sections end where it does.
TruncatedAreCutOff ==
    \A name \in Truncated : \E whole : IsFile(whole) /\ CutOff(contents[name], whole)

LEMMA TruncatedNotLoaded ==
    ASSUME TruncatedAreCutOff
    PROVE  /\ \A z \in Zkey : zkeys[z].ok => z \notin Truncated
           /\ \A w \in Wtns : witnesses[w].ok => w \notin Truncated
<1>1. ASSUME NEW z \in Zkey, z \in Truncated PROVE ~ zkeys[z].ok
  <2>1. PICK whole : IsFile(whole) /\ CutOff(contents[z], whole)
      BY <1>1 DEF TruncatedAreCutOff
  <2>2. IsFile(contents[z])
      BY FileAssumption
  <2>3. ~ readFileData(contents[z], "zkey", 1).reader.ok
      BY <2>1, <2>2, CutOffThrows
  <2>4. QED BY <2>2, <2>3, ZkeyLoaded DEF zkeys
<1>2. ASSUME NEW w \in Wtns, w \in Truncated PROVE ~ witnesses[w].ok
  <2>1. PICK whole : IsFile(whole) /\ CutOff(contents[w], whole)
      BY <1>2 DEF TruncatedAreCutOff
  <2>2. IsFile(contents[w])
      BY FileAssumption
  <2>3. ~ readFileData(contents[w], "wtns", 2).reader.ok
      BY <2>1, <2>2, CutOffThrows
  <2>4. QED BY <2>2, <2>3, WtnsLoaded DEF witnesses
<1>3. QED BY <1>1, <1>2

Objects == {None} \cup [memory : {"caller", "unmapped"}, zkey : Zkey \ Truncated]
RejectedInv == prover \in [Handle -> Objects] /\ (last # None => last.wtns \notin Truncated)

\* A witness that a proof was made of was loaded without an error.
LEMMA ProvedWitness ==
    ASSUME TruncatedAreCutOff, NEW z \in Zkey, NEW w \in Wtns, Prove(z, w)
    PROVE  last'.wtns \notin Truncated
<1>1. PICK digits \in ProofDigits :
        LET length == [proof |-> ProofLength(digits), public |-> PublicLength(SignalDigits[w])]
            required == [proof |-> length.proof + 1, public |-> length.public + 1]
            code == IF NoBuffers THEN "ERROR"
                    ELSE IF WitnessCode(z, w) # "OK" THEN WitnessCode(z, w)
                    ELSE IF TooShort(required) THEN "SHORT_BUFFER"
                    ELSE "OK"
        IN  last' = [code |-> code, caps |-> caps,
                     wtns |-> IF code \in {"OK", "SHORT_BUFFER"} THEN w ELSE None,
                     sizes |-> CASE code = "SHORT_BUFFER" -> Reported(required)
                                 [] code = "OK" -> length
                                 [] OTHER -> caps]
    BY DEF Prove
<1>2. None \notin Truncated
    BY ProverAssumption
<1>3. CASE WitnessCode(z, w) = "OK"
  <2>1. witnesses[w].ok
      BY <1>3 DEF WitnessCode
  <2>2. w \notin Truncated
      BY <2>1, TruncatedNotLoaded
  <2>3. last'.wtns \in {w, None}
      BY <1>1
  <2>4. QED BY <1>2, <2>2, <2>3
<1>4. CASE WitnessCode(z, w) # "OK"
  <2>1. WitnessCode(z, w) \in {"ERROR", "INVALID_WITNESS_LENGTH"}
      BY <1>4, WitnessCodeType
  <2>2. last'.wtns = None
      BY <1>1, <1>4, <2>1
  <2>3. QED BY <1>2, <2>2
<1>5. QED BY <1>3, <1>4

\* A zkey or a witness that was cut off at any byte is refused: the reader cannot leave the
\* last section before the place where the complete file ends, which the shorter one does
\* not reach (binfile_utils.cpp, lines 59 to 76).
THEOREM TruncatedRejectedCorrect ==
    ASSUME TruncatedAreCutOff PROVE Spec => []TruncatedRejected
<1>1. Init => RejectedInv
    BY DEF Init, RejectedInv, Objects
<1>2. RejectedInv /\ [Next]_vars => RejectedInv'
  <2> SUFFICES ASSUME RejectedInv, [Next]_vars PROVE RejectedInv'
      OBVIOUS
  <2>1. ASSUME NEW z \in Zkey, allocate_advertised(z) PROVE RejectedInv'
      BY <2>1 DEF allocate_advertised, RejectedInv
  <2>2. ASSUME NEW sizes \in Capacity, allocate(sizes) PROVE RejectedInv'
      BY <2>2 DEF allocate, RejectedInv
  <2>3. CASE allocate_required
      BY <2>3 DEF allocate_required, RejectedInv
  <2>4. ASSUME NEW h \in Handle, NEW z \in Zkey,
               groth16_prover_create(h, z) \/ groth16_prover_create_zkey_file(h, z)
        PROVE  RejectedInv'
    <3>1. UNCHANGED last
        BY <2>4 DEF groth16_prover_create, groth16_prover_create_zkey_file
    <3>2. CASE ZkeyAccepted(z)
      <4>1. z \in Zkey \ Truncated
          BY <3>2, TruncatedNotLoaded DEF ZkeyAccepted
      <4>2. PICK memory \in {"caller", "unmapped"} :
                prover' = [prover EXCEPT ![h] = [memory |-> memory, zkey |-> z]]
          BY <2>4, <3>2 DEF groth16_prover_create, groth16_prover_create_zkey_file
      <4>3. [memory |-> memory, zkey |-> z] \in Objects
          BY <4>1 DEF Objects
      <4>4. prover' \in [Handle -> Objects]
          BY <4>2, <4>3 DEF RejectedInv
      <4>5. QED BY <3>1, <4>4 DEF RejectedInv
    <3>3. CASE ~ ZkeyAccepted(z)
      <4>1. UNCHANGED prover
          BY <2>4, <3>3 DEF groth16_prover_create, groth16_prover_create_zkey_file
      <4>2. QED BY <3>1, <4>1 DEF RejectedInv
    <3>4. QED BY <3>2, <3>3
  <2>5. ASSUME NEW h \in Handle, groth16_prover_destroy(h) PROVE RejectedInv'
      BY <2>5 DEF groth16_prover_destroy, RejectedInv, Objects
  <2>6. ASSUME NEW h \in Handle, NEW w \in Wtns, groth16_prover_prove(h, w) PROVE RejectedInv'
    <3>1. UNCHANGED prover /\ prover[h].zkey \in Zkey
        BY <2>6 DEF groth16_prover_prove, RejectedInv, Objects
    <3>2. CASE Prove(prover[h].zkey, w)
      <4>1. last'.wtns \notin Truncated
          BY <3>1, <3>2, ProvedWitness
      <4>2. QED BY <3>1, <4>1 DEF RejectedInv
    <3>3. CASE UNCHANGED last
        BY <3>1, <3>3 DEF RejectedInv
    <3>4. QED BY <2>6, <3>2, <3>3 DEF groth16_prover_prove
  <2>7. ASSUME NEW z \in Zkey, groth16_prover(z) PROVE RejectedInv'
    <3>1. UNCHANGED prover
        BY <2>7 DEF groth16_prover
    <3>2. last'.wtns \notin Truncated
      <4>1. CASE \E w \in Wtns : Prove(z, w)
          BY <4>1, ProvedWitness
      <4>2. CASE last' = [code |-> "ERROR", caps |-> caps, wtns |-> None, sizes |-> caps]
          BY <4>2, ProverAssumption
      <4>3. QED BY <2>7, <4>1, <4>2 DEF groth16_prover
    <3>3. QED BY <3>1, <3>2 DEF RejectedInv
  <2>8. CASE UNCHANGED vars
      BY <2>8 DEF vars, RejectedInv
  <2>9. QED BY <2>1, <2>2, <2>3, <2>4, <2>5, <2>6, <2>7, <2>8 DEF Next
<1>3. RejectedInv => TruncatedRejected
    BY DEF RejectedInv, TruncatedRejected, Objects
<1>4. QED BY <1>1, <1>2, <1>3, PTL DEF Spec

=============================================================================
