------------------------------ MODULE ProverApi -----------------------------
(***************************************************************************)
(* The C interface of rapidsnark's prover, src/prover.cpp: prover objects  *)
(* made from a zkey in memory or in a file, and calls that write a proof   *)
(* and the public signals, as JSON, into buffers of the caller.            *)
(*                                                                         *)
(* A prover object does not copy its zkey: it keeps pointers into the      *)
(* buffer it was made from.  The caller's buffer lives on; the mapping of  *)
(* a file lives as long as the FileLoader on the stack of the call.        *)
(*                                                                         *)
(* A JSON string is its length.  What varies in it is the number of        *)
(* decimal digits: the public signals are those of the witness, but every  *)
(* proof is made with fresh random numbers, and two proofs of one witness  *)
(* have different digits.  Zkeys and witnesses are files in memory, as the *)
(* readers of BinFile see them.                                            *)
(***************************************************************************)
EXTENDS BinFile

CONSTANTS
    Handle,         \* the variables prover_object points to
    NPublic,        \* nPublic of the zkey: how many public signals
    Zkey,           \* the zkeys, in buffers or in files
    Wtns,           \* the witness buffers
    Truncated,      \* those zkeys and witnesses that are the beginning of a longer one
    contents,       \* the file that each of them is
    SignalDigits,   \* for each witness, the digits of its public signals
    ProofDigits,    \* how many digits the numbers of a proof may have
    Capacity,       \* the sizes a caller may give its buffers
    None

MaxDigits == 77     \* of a number below the primes of BN254

ASSUME ProverAssumption ==
    /\ NPublic \in Nat
    /\ SignalDigits \in [Wtns -> NPublic .. MaxDigits * NPublic]
    /\ ProofDigits \subseteq 8 .. MaxDigits * 8
    /\ Capacity \subseteq [proof : Nat, public : Nat]
    /\ Truncated \subseteq Zkey \cup Wtns /\ None \notin Zkey \cup Wtns

ASSUME FileAssumption == \A name \in Zkey \cup Wtns : IsFile(contents[name])

VARIABLES
    prover,     \* the zkey of each prover object and the memory it is in, or None
    caps,       \* the sizes of the caller's two buffers
    last,       \* the last call that was to write a proof, and its outcome
    crashed,    \* the process has read memory that is no longer mapped
    stray       \* a reader has read behind the end of its buffer

vars == <<prover, caps, last, crashed, stray>>

-----------------------------------------------------------------------------

ProofBufferMinSize == 810
PublicBufferMinSizeMutant(count) == count * (MaxDigits + 1) + 4
PublicBufferMinSize(count) == count * 82 + 4

\* Proof::toJson().dump(): eight numbers, and 95 characters around them.
ProofLength(digits) == digits + 95

\* BuildPublicString: an array of strings; an empty json is null, not [].
PublicLength(digits) == IF NPublic = 0 THEN 4 ELSE digits + 3 * NPublic + 1

Init ==
    /\ prover = [h \in Handle |-> None]
    /\ caps = [proof |-> 0, public |-> 0]
    /\ last = None
    /\ crashed = FALSE
    /\ stray = FALSE

\* What the readers make of the files.
zkeys == [z \in Zkey |-> loadZkey(contents[z])]
witnesses == [w \in Wtns |-> loadWtns(contents[w])]

\* The constructor of Groth16Prover succeeds.
ZkeyAccepted(z) == zkeys[z].ok /\ zkeys[z].supported

\* What Groth16Prover::prove thinks of a witness before it makes a proof.
WitnessCode(z, w) ==
    CASE ~ witnesses[w].ok -> "ERROR"
      [] witnesses[w].ok /\ witnesses[w].nVars # zkeys[z].nVars -> "INVALID_WITNESS_LENGTH"
      [] OTHER -> IF witnesses[w].supported THEN "OK" ELSE "ERROR"

\* The caller allocates buffers of the sizes that groth16_proof_size and
\* groth16_public_size_for_zkey_buf (or _file) give.
allocate_advertised(z) ==
    /\ ~crashed
    /\ zkeys[z].ok
    /\ caps' = [proof |-> ProofBufferMinSize, public |-> PublicBufferMinSize(NPublic)]
    /\ stray' = (stray \/ ~ zkeys[z].inside)
    /\ UNCHANGED <<prover, last, crashed>>

\* The caller allocates buffers of its own choice.
allocate(sizes) ==
    /\ ~crashed
    /\ caps' = sizes
    /\ UNCHANGED <<prover, last, crashed, stray>>

\* The caller allocates what the last call asked for.
allocate_required ==
    /\ ~crashed
    /\ last # None /\ last.code = "SHORT_BUFFER"
    /\ caps' = last.sizes
    /\ UNCHANGED <<prover, last, crashed, stray>>

\* A zkey in a buffer of the caller.
groth16_prover_create(h, z) ==
    /\ ~crashed
    /\ prover[h] = None
    /\ IF ZkeyAccepted(z)
       THEN prover' = [prover EXCEPT ![h] = [memory |-> "caller", zkey |-> z]]
       ELSE UNCHANGED prover
    /\ stray' = (stray \/ ~ zkeys[z].inside)
    /\ UNCHANGED <<caps, last, crashed>>

\* A zkey in a file, which ~FileLoader unmaps when the call returns.
groth16_prover_create_zkey_file(h, z) ==
    /\ ~crashed
    /\ prover[h] = None
    /\ IF ZkeyAccepted(z)
       THEN prover' = [prover EXCEPT ![h] = [memory |-> "unmapped", zkey |-> z]]
       ELSE UNCHANGED prover
    /\ stray' = (stray \/ ~ zkeys[z].inside)
    /\ UNCHANGED <<caps, last, crashed>>

groth16_prover_destroy(h) ==
    /\ ~crashed
    /\ prover[h] # None
    /\ prover' = [prover EXCEPT ![h] = None]
    /\ UNCHANGED <<caps, last, crashed, stray>>

\* *proof_size < requiredProofSize || *public_size < requiredPublicSize, where
\* the required sizes count the null terminator.
TooShortMutant(required) == caps.proof < required.proof - 1 \/ caps.public < required.public - 1
TooShort(required) == caps.proof < required.proof \/ caps.public < required.public

\* What a call with too short a buffer leaves in proof_size and public_size.
ReportedMutant(required) ==
    [proof |-> required.proof - caps.proof, public |-> required.public - caps.public]
Reported(required) == required

\* A caller without buffers passes null pointers.
NoBuffers == caps.proof = 0 \/ caps.public = 0

\* What a call that has a prover object does with the witness; sizes is what
\* proof_size and public_size point to afterwards.
Prove(z, w) ==
    \E digits \in ProofDigits :
        LET length == [proof |-> ProofLength(digits), public |-> PublicLength(SignalDigits[w])]
            required == [proof |-> length.proof + 1, public |-> length.public + 1]
            code == IF NoBuffers THEN "ERROR"
                    ELSE IF WitnessCode(z, w) # "OK" THEN WitnessCode(z, w)
                    ELSE IF TooShort(required) THEN "SHORT_BUFFER"
                    ELSE "OK"
        IN  last' = [code |-> code, caps |-> caps,
                     wtns |-> IF code \in {"OK", "SHORT_BUFFER"} THEN w ELSE None,
                     sizes |-> CASE code = "SHORT_BUFFER" -> Reported(required)
                                 [] code = "OK" -> length
                                 [] OTHER -> caps]

\* The zkey is read once the witness has been accepted.
groth16_prover_prove(h, w) ==
    /\ ~crashed
    /\ prover[h] # None
    /\ IF prover[h].memory = "caller" \/ NoBuffers \/ WitnessCode(prover[h].zkey, w) # "OK"
       THEN Prove(prover[h].zkey, w) /\ UNCHANGED crashed
       ELSE crashed' = TRUE /\ UNCHANGED last
    /\ stray' = (stray \/ (~ NoBuffers /\ ~ witnesses[w].inside))
    /\ UNCHANGED <<prover, caps>>

\* groth16_prover and groth16_prover_zkey_file: the prover object and the
\* mapping live until the end of the call.
groth16_prover(z) ==
    /\ ~crashed
    /\ \/ /\ ZkeyAccepted(z)
          /\ \E w \in Wtns :
                /\ Prove(z, w)
                /\ stray' = (stray \/ ~ zkeys[z].inside \/ (~ NoBuffers /\ ~ witnesses[w].inside))
       \/ /\ ~ ZkeyAccepted(z)
          /\ last' = [code |-> "ERROR", caps |-> caps, wtns |-> None, sizes |-> caps]
          /\ stray' = (stray \/ ~ zkeys[z].inside)
    /\ UNCHANGED <<prover, caps, crashed>>

Next ==
    \/ \E z \in Zkey : allocate_advertised(z)
    \/ \E sizes \in Capacity : allocate(sizes)
    \/ allocate_required
    \/ \E h \in Handle, z \in Zkey :
           \/ groth16_prover_create(h, z)
           \/ groth16_prover_create_zkey_file(h, z)
    \/ \E h \in Handle :
           \/ groth16_prover_destroy(h)
           \/ \E w \in Wtns : groth16_prover_prove(h, w)
    \/ \E z \in Zkey : groth16_prover(z)

Spec == Init /\ [][Next]_vars

-----------------------------------------------------------------------------
(***************************************************************************)
(* Properties.                                                             *)
(***************************************************************************)

Sizes == [proof : Nat, public : Nat]

\* The type invariant.
TypeOK ==
    /\ prover \in [Handle -> {None} \cup [memory : {"caller", "unmapped"}, zkey : Zkey]]
    /\ caps \in Sizes
    /\ last \in {None} \cup [code : {"OK", "ERROR", "SHORT_BUFFER", "INVALID_WITNESS_LENGTH"},
                             caps : Sizes, wtns : {None} \cup Wtns, sizes : Sizes]
    /\ crashed \in BOOLEAN /\ stray \in BOOLEAN

\* What groth16_prover_prove writes on success, with the terminator behind it,
\* is inside both buffers.
OutputFits ==
    last # None /\ last.code = "OK" =>
        last.sizes.proof < last.caps.proof /\ last.sizes.public < last.caps.public

\* What groth16_proof_size and groth16_public_size_for_zkey_file give is a size of a
\* buffer that suffices, as prover.h calls it, whatever the numbers in the proof: a
\* call that refuses a buffer was given less.  This is so for a circuit with a
\* public signal: PublicBufferMinSize counts the brackets of an array, and without a
\* signal BuildPublicString writes none, but a null that is a byte too long.
AdvertisedSizesSuffice ==
    NPublic # 0 /\ last # None /\ last.code = "SHORT_BUFFER" =>
        \/ last.caps.proof < ProofBufferMinSize
        \/ last.caps.public < PublicBufferMinSize(NPublic)

\* No byte behind the end of a zkey or a witness is read while its header is loaded,
\* even if the sizes in it are so large that a position wraps around.
ReadsInside == ~stray

\* A file that was cut off, by a full disk or because it is still being written,
\* gives no prover object and no proof.
TruncatedRejected ==
    /\ \A h \in Handle : prover[h] # None => prover[h].zkey \notin Truncated
    /\ last # None => last.wtns \notin Truncated

\* A prover object that was made without an error can be used: what it points
\* to is mapped.
ProverIsUsable == ~crashed

=============================================================================
