------------------------------- MODULE BinFile ------------------------------
(***************************************************************************)
(* Readers of zkey and wtns files in memory: src/binfile_utils.cpp,        *)
(* zkey_utils.cpp and wtns_utils.cpp.                                      *)
(*                                                                         *)
(* A file is its size in bytes, its four letters, the number that each of  *)
(* its fields holds, by position, and the number that is read anywhere     *)
(* else.  Positions are of bounded width, as in the code.                  *)
(***************************************************************************)
EXTENDS Integers, Sequences

CONSTANTS
    Size32,     \* 2^32, of the products n8q*2 and n8q*4
    Size64,     \* 2^64, of sizes and positions
    BnPrime     \* the prime that PrimeIsValid compares with

ASSUME WidthAssumption ==
    /\ Size32 \in Nat /\ Size32 > 8
    /\ Size64 = Size32 * Size32

field(f, pos) == IF pos \in DOMAIN f.at THEN f.at[pos] ELSE f.rest

\* A reader: its position, whether nothing was thrown yet, the numbers it has read,
\* and whether every byte read was one of the file.
At(pos) == [ok |-> TRUE, pos |-> pos, values |-> << >>, inside |-> TRUE]
Thrown(s) == [s EXCEPT !.ok = FALSE]

\* BinFile::read, readU32LE (4 bytes) and readU64LE (8).
readMutant(f, s, len) ==
    IF ~s.ok \/ s.pos > f.size THEN Thrown(s)
    ELSE [s EXCEPT !.pos = (s.pos + len) % Size64, !.values = Append(@, field(f, s.pos)),
                   !.inside = @ /\ s.pos + len <= f.size]
read(f, s, len) ==
    IF ~s.ok \/ (s.pos + len) % Size64 > f.size THEN Thrown(s)
    ELSE [s EXCEPT !.pos = (s.pos + len) % Size64, !.values = Append(@, field(f, s.pos)),
                   !.inside = @ /\ s.pos + len <= f.size]

\* Fields that are read one after the other: U32, U64, or times as many bytes as
\* the number says that was read as field i, a product of 32 bits.
U32 == [times |-> 4, i |-> 0]
U64 == [times |-> 8, i |-> 0]
Sized(times, i) == [times |-> times, i |-> i]
bytes(s, fd) == IF fd.i = 0 THEN fd.times ELSE (fd.times * s.values[fd.i]) % Size32
readField(f, s, fd) == IF s.ok THEN read(f, s, bytes(s, fd)) ELSE s

\* The reader after the first i of the fields, and after all of them.
AfterField(f, s, fields) ==
    LET r[i \in 0 .. Len(fields)] ==
            IF i = 0 THEN s ELSE readField(f, r[i - 1], fields[i])
    IN  r
readFields(f, s, fields) == AfterField(f, s, fields)[Len(fields)]

\* One round of the loop: the header of a section, and the jump behind its data.
Section(s) == [type |-> s.values[1], start |-> s.pos, size |-> s.values[2]]
Behind(s) == (s.pos + s.values[2]) % Size64
Header(f, b) == readFields(f, [b.reader EXCEPT !.values = << >>], <<U32, U64>>)
JumpedMutant(f, b, s) ==
    IF ~s.ok THEN [b EXCEPT !.reader = s]
    ELSE [reader |-> [s EXCEPT !.pos = Behind(s)], sections |-> Append(b.sections, Section(s))]
Jumped(f, b, s) ==
    IF ~s.ok THEN [b EXCEPT !.reader = s]
    ELSE [reader |-> [s EXCEPT !.pos = Behind(s), !.ok = Behind(s) <= f.size],
          sections |-> Append(b.sections, Section(s))]
readSection(f, b) == Jumped(f, b, Header(f, b))

\* The sections, and the reader, after the first i rounds.
AfterRound(f, s) ==
    LET b[i \in 0 .. s.values[2]] ==
            IF i = 0 THEN [reader |-> s, sections |-> << >>] ELSE readSection(f, b[i - 1])
    IN  b

readSections(f, s, maxVersion) ==
    IF s.values[1] <= maxVersion /\ f.size >= 12 + s.values[2] * 12
    THEN AfterRound(f, s)[s.values[2]]
    ELSE [reader |-> Thrown(s), sections |-> << >>]

readFileData(f, type, maxVersion) ==
    IF f.size >= 12 /\ f.type = type
    THEN readSections(f, readFields(f, At(4), <<U32, U32>>), maxVersion)
    ELSE [reader |-> Thrown(At(0)), sections |-> << >>]

-----------------------------------------------------------------------------
(* Sections: the first one of a type is meant everywhere.                  *)

HasSections(b, ids) == \A id \in ids : \E i \in DOMAIN b.sections : b.sections[i].type = id
FirstOf(b, id) ==
    CHOOSE i \in DOMAIN b.sections :
        /\ b.sections[i].type = id
        /\ \A j \in 1 .. i - 1 : b.sections[j].type # id

startReadSection(b, id) ==
    IF b.reader.ok /\ HasSections(b, {id})
    THEN [b.reader EXCEPT !.pos = b.sections[FirstOf(b, id)].start, !.values = << >>]
    ELSE Thrown(b.reader)
\* The section has to end where the reader is.
endReadSection(b, id, s) ==
    IF s.ok /\ s.pos - b.sections[FirstOf(b, id)].start # b.sections[FirstOf(b, id)].size
    THEN Thrown(s) ELSE s

\* The fields of a section that holds nothing else.
section(f, b, id, fields) ==
    endReadSection(b, id, readFields(f, startReadSection(b, id), fields))

\* WtnsUtils::loadHeader (n8, prime, nVars), and the witness data of section 2.
wtnsHeader(b, s) ==
    [ok |-> s.ok, inside |-> s.inside, nVars |-> IF s.ok THEN s.values[3] ELSE 0,
     supported |-> s.ok /\ s.values[2] = BnPrime /\ HasSections(b, {2})]
WtnsFields == <<U32, Sized(1, 1), U32>>
wtnsOf(f, b) == wtnsHeader(b, section(f, b, 1, WtnsFields))
loadWtns(f) == wtnsOf(f, readFileData(f, "wtns", 2))

\* ZKeyUtils::loadHeader (the protocol; n8q, qPrime, n8r, rPrime, nVars, nPublic,
\* domainSize and the six points of the verification key), and the sections that the
\* constructor of Groth16Prover asks for.
zkeyHeader(b, s) ==
    [ok |-> s.ok /\ HasSections(b, {4}), inside |-> s.inside,
     nVars |-> IF s.ok THEN s.values[5] ELSE 0,
     supported |-> s.ok /\ s.values[4] = BnPrime /\ HasSections(b, 4 .. 9)]
ZkeyFields ==
    <<U32, Sized(1, 1), U32, Sized(1, 3), U32, U32, U32, Sized(2, 1), Sized(2, 1), Sized(4, 1),
      Sized(4, 1), Sized(2, 1), Sized(4, 1)>>
zkeyOf(f, b, protocol) ==
    IF protocol.ok /\ protocol.values[1] = 1
    THEN zkeyHeader(b, section(f, [b EXCEPT !.reader = protocol], 2, ZkeyFields))
    ELSE zkeyHeader(b, Thrown(protocol))
zkeyAfter(f, b) == zkeyOf(f, b, section(f, b, 1, <<U32>>))
loadZkey(f) == zkeyAfter(f, readFileData(f, "zkey", 1))

-----------------------------------------------------------------------------
(* What the properties say of files.                                       *)

\* A file, which does not reach into the last 2^32 bytes of the address space.
IsFile(f) ==
    /\ f.size \in 0 .. Size64 - Size32
    /\ \A pos \in DOMAIN f.at : f.at[pos] \in Nat
    /\ f.rest \in Nat

\* The beginning of a file whose sections end where the file does.
CutOff(f, whole) ==
    /\ f.at = whole.at /\ f.rest = whole.rest /\ f.type = whole.type /\ f.size < whole.size
    /\ \E maxVersion \in {1, 2} :
           LET b == readFileData(whole, whole.type, maxVersion)
           IN  b.reader.ok /\ b.reader.pos = whole.size

=============================================================================
