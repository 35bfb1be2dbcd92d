----------------------------- MODULE MCProverApi ----------------------------
(***************************************************************************)
(* ProverApi with a zkey and witnesses of the real layout, cut off before, *)
(* at and behind every field, and with one size that makes a position wrap *)
(* around.                                                                 *)
(***************************************************************************)
EXTENDS ProverApi, FiniteSetsExt, SequencesExt

\* A file of sections <<type, fields>>, a field being <<number of bytes, number>>.
Length(fields) == FoldSeq(LAMBDA fd, n : fd[1] + n, 0, fields)
Flat(sections) ==
    FlattenSeq([i \in DOMAIN sections |->
        << <<4, sections[i][1]>>, <<8, Length(sections[i][2])>> >> \o sections[i][2]])
Written(type, sections, rest) ==
    LET fields == << <<4, 1>>, <<4, Len(sections)>> >> \o Flat(sections)
        offset[i \in 1 .. Len(fields) + 1] ==
            IF i = 1 THEN 4 ELSE offset[i - 1] + fields[i - 1][1]
        fieldAt == {<<offset[i], fields[i][2]>> : i \in DOMAIN fields}
    IN  [size |-> offset[Len(fields) + 1], type |-> type, rest |-> rest,
         at |-> [o \in {p[1] : p \in fieldAt} |-> (CHOOSE p \in fieldAt : p[1] = o)[2]]]

zkey ==
    Written("zkey",
        << <<1, << <<4, 1>> >> >>,
           <<2, << <<4, 32>>, <<32, 7>>, <<4, 32>>, <<32, BnPrime>>, <<4, 5>>, <<4, NPublic>>,
                   <<4, 4>>, <<64, 0>>, <<64, 0>>, <<128, 0>>, <<128, 0>>, <<64, 0>>, <<128, 0>> >> >>,
           <<3, << <<64, 0>> >> >>, <<4, << <<88, 0>> >> >>, <<5, << <<64, 0>> >> >>,
           <<6, << <<64, 0>> >> >>, <<7, << <<128, 0>> >> >>, <<8, << <<64, 0>> >> >>,
           <<9, << <<64, 0>> >> >> >>, 0)
wtns(n, prime, rest) ==
    Written("wtns", << <<1, << <<4, 32>>, <<32, prime>>, <<4, n>> >> >>, <<2, << <<160, 0>> >> >> >>, rest)

\* Where a file may be cut off, and what its names are.
Ends(f) == {n \in UNION {{o - 1, o, o + 1} : o \in DOMAIN f.at \cup {f.size}} : n < f.size}
CutsOf(f) == {<<f.type, "cut", n>> : n \in Ends(f)}
\* The size of a section replaced by one that leads back, to its header or by a byte.
SizeFields(f) == {o \in DOMAIN f.at : o >= 16 /\ o - 4 \in DOMAIN f.at /\ o + 8 \in DOMAIN f.at}
WrapsOf(f) == {<<f.type, "wrap", o, n>> : o \in SizeFields(f), n \in {Size64 - 1, Size64 - 12}}

whole == [zkey |-> zkey, few |-> wtns(5, BnPrime, 0), many |-> wtns(5, BnPrime, 1),
          long |-> wtns(6, BnPrime, 0), otherCurve |-> wtns(5, BnPrime + 1, 0)]
WtnsNames == {<<"few">>, <<"many">>, <<"long">>, <<"otherCurve">>}

MCZkey == LET cuts == CutsOf(zkey) IN {<<"zkey">>} \cup cuts \cup WrapsOf(zkey)
MCWtns == LET cuts == CutsOf(whole.few) IN WtnsNames \cup cuts \cup WrapsOf(whole.few)
MCTruncated == LET cuts == CutsOf(zkey) IN cuts \cup CutsOf(whole.few)
MCcontents ==
    LET Origin(name) == IF name[1] = "zkey" THEN zkey ELSE whole.few
    IN  [name \in MCZkey \cup MCWtns |->
            CASE Len(name) = 1 -> whole[name[1]]
              [] Len(name) = 3 -> [Origin(name) EXCEPT !.size = name[3]]
              [] OTHER -> [Origin(name) EXCEPT !.at[name[3]] = name[4]]]

\* What Truncated stands for.
ASSUME CutsAreCutOff ==
    \A name \in MCTruncated :
        CutOff(MCcontents[name], IF name[1] = "zkey" THEN zkey ELSE whole.few)

MCSignalDigits ==
    LET most == MaxDigits * NPublic
    IN  [w \in Wtns |-> IF w = <<"many">> THEN most ELSE NPublic]
MCProofDigits == {8, MaxDigits * 8}

\* Exactly what the longest strings need, and one less for either.
MCCapacity ==
    LET exact == [proof |-> ProofLength(MaxDigits * 8) + 1,
                  public |-> PublicLength(MaxDigits * NPublic) + 1]
    IN  {exact, [exact EXCEPT !.proof = @ - 1], [exact EXCEPT !.public = @ - 1]}

=============================================================================
