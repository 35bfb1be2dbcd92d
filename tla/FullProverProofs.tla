-------------------------- MODULE FullProverProofs --------------------------
(***************************************************************************)
(* Proofs about FullProver for any number of clients, requests and         *)
(* restarts: a success is reported only with a proof and the public        *)
(* signals of the same witness, and an accepted cancel wins.  For one      *)
(* client that nothing disturbs, the proof is of the input it has sent.    *)
(***************************************************************************)
EXTENDS FullProver, TLAPS

\* Where the prover thread is, and what it has left in the shared variables.
ThreadInv ==
    /\ status = "busy" <=> prover # "none"
    /\ prover \in {"public", "isCanceled", "prove"} => witness # None
    /\ prover \in {"isCanceled", "prove"} => pubData = witness
    /\ prover = "finish" =>
          errString = TRUE \/ canceled = TRUE \/ (proof # None /\ pubData = proof)
    /\ errString \in BOOLEAN /\ canceled \in BOOLEAN

\* The inductive invariant.
ProverInv == ThreadInv /\ SuccessHasProof

-----------------------------------------------------------------------------

LEMMA LaunchInv ==
    ASSUME NEW input, NEW circuit, Launch(input, circuit)
    PROVE  ProverInv'
BY DEF Launch, ProverInv, ThreadInv, SuccessHasProof

LEMMA RestartInv ==
    ASSUME FreshProcess
    PROVE  ProverInv'
BY DEF FreshProcess, ProverInv, ThreadInv, SuccessHasProof

LEMMA UnchangedInv ==
    ASSUME ProverInv, UNCHANGED <<status, prover, witness, proof, pubData, errString, canceled>>
    PROVE  ProverInv'
BY DEF ProverInv, ThreadInv, SuccessHasProof

LEMMA PostInputInv ==
    ASSUME ProverInv, NEW c, NEW input, NEW circuit, postInput(c, input, circuit)
    PROVE  ProverInv'
<1>1. startProve(input, circuit) /\ UNCHANGED <<pubData, witness>>
    BY DEF postInput
<1>2. CASE UNCHANGED <<status, canceled, errString, proof, prover>>
    BY <1>1, <1>2, UnchangedInv
<1>3. CASE Launch(input, circuit)
    BY <1>3, LaunchInv
<1>4. QED BY <1>1, <1>2, <1>3 DEF startProve

LEMMA PostCancelInv ==
    ASSUME ProverInv, postCancel
    PROVE  ProverInv'
BY DEF postCancel, result, ProverInv, ThreadInv, SuccessHasProof

\* The steps of the prover thread, which change what it shares.
LEMMA ThreadStepInv ==
    ASSUME ProverInv, Prover
    PROVE  ProverInv'
<1>1. CASE parse
    BY <1>1 DEF parse, result, ProverInv, ThreadInv, SuccessHasProof
<1>2. CASE generate
    BY <1>2 DEF generate, result, ProverInv, ThreadInv, SuccessHasProof
<1>3. CASE load
    BY <1>3 DEF load, result, ProverInv, ThreadInv, SuccessHasProof
<1>4. CASE publish
    BY <1>4 DEF publish, ProverInv, ThreadInv, SuccessHasProof
<1>5. CASE isCanceled
  <2>1. CASE canceled = TRUE
      BY <1>5, <2>1 DEF isCanceled, ProverInv, ThreadInv, SuccessHasProof
  <2>2. CASE canceled = FALSE
      BY <1>5, <2>2 DEF isCanceled, ProverInv, ThreadInv, SuccessHasProof
  <2>3. QED BY <2>1, <2>2 DEF ProverInv, ThreadInv
<1>6. CASE prove
    BY <1>6 DEF prove, ProverInv, ThreadInv, SuccessHasProof
<1>7. CASE catch
  <2>1. CASE canceled = TRUE
    <3>1. errString' \in BOOLEAN
        BY <1>7 DEF catch
    <3>2. QED BY <1>7, <2>1, <3>1 DEF catch, ProverInv, ThreadInv, SuccessHasProof
  <2>2. CASE canceled = FALSE
    <3>1. errString' = TRUE
        BY <1>7, <2>2 DEF catch
    <3>2. QED BY <1>7, <3>1 DEF catch, ProverInv, ThreadInv, SuccessHasProof
  <2>3. QED BY <2>1, <2>2 DEF ProverInv, ThreadInv
<1>8. CASE calcFinished
  <2>1. CASE Launch(pendingInput, pendingCircuit)
      BY <2>1, LaunchInv
  <2>2. CASE /\ status' = Outcome /\ canceled' = FALSE /\ prover' = "none"
             /\ UNCHANGED <<errString, proof, pubData>>
      BY <1>8, <2>2 DEF calcFinished, Outcome, ProverInv, ThreadInv, SuccessHasProof
  <2>3. QED BY <1>8, <2>1, <2>2 DEF calcFinished
<1>9. CASE terminate
    BY <1>9, RestartInv DEF terminate, Restart
<1>10. QED BY <1>1, <1>2, <1>3, <1>4, <1>5, <1>6, <1>7, <1>8, <1>9 DEF Prover

LEMMA ProverInvInvariant == Spec => []ProverInv
<1>1. Init => ProverInv
    BY DEF Init, ProverInv, ThreadInv, SuccessHasProof
<1>2. ProverInv /\ [Next]_vars => ProverInv'
  <2> SUFFICES ASSUME ProverInv, [Next]_vars PROVE ProverInv'
      OBVIOUS
  <2>1. ASSUME NEW c \in Client, NEW input \in Input, NEW circuit \in Circuit,
               postInput(c, input, circuit)
        PROVE  ProverInv'
      BY <2>1, PostInputInv
  <2>2. CASE postCancel
      BY <2>2, PostCancelInv
  <2>3. ASSUME NEW c \in Client, getStatus(c) PROVE ProverInv'
      BY <2>3, UnchangedInv DEF getStatus, result
  <2>4. CASE getStatus_compare
      BY <2>4, UnchangedInv DEF getStatus_compare, result
  <2>5. CASE Prover
      BY <2>5, ThreadStepInv
  <2>6. CASE kill
      BY <2>6, RestartInv DEF kill, Restart
  <2>7. ASSUME NEW o \in orphans, orphan_generate(o) PROVE ProverInv'
      BY <2>7, UnchangedInv DEF orphan_generate, result
  <2>8. CASE UNCHANGED vars
      BY <2>8, UnchangedInv DEF vars, result
  <2>9. QED BY <2>1, <2>2, <2>3, <2>4, <2>5, <2>6, <2>7, <2>8 DEF Next
<1>3. QED BY <1>1, <1>2, PTL DEF Spec

\* Whenever status is success there is a proof, and pubData holds the public
\* signals of the same witness, for any interleaving of requests, cancels,
\* kills and the prover thread.
THEOREM SuccessHasProofCorrect == Spec => []SuccessHasProof
<1>1. ProverInv => SuccessHasProof
    BY DEF ProverInv
<1>2. QED BY ProverInvInvariant, <1>1, PTL

-----------------------------------------------------------------------------

CancelStep == canceled /\ status = "busy" /\ status' # "busy" => status' \in {"aborted", "ready"}

\* A proof that was cancelled while it ran never ends as failed or success.
THEOREM CancelWinsCorrect == Spec => CancelWins
<1>1. [Next]_vars => [CancelStep]_vars
  <2> SUFFICES ASSUME Next, canceled, status = "busy", status' # "busy"
               PROVE  status' \in {"aborted", "ready"}
      BY DEF CancelStep
  <2>1. ASSUME NEW c \in Client, NEW input \in Input, NEW circuit \in Circuit,
               postInput(c, input, circuit)
        PROVE  FALSE
      BY <2>1 DEF postInput, startProve
  <2>2. CASE postCancel
      BY <2>2 DEF postCancel
  <2>3. ASSUME NEW c \in Client, getStatus(c) PROVE FALSE
      BY <2>3 DEF getStatus, result
  <2>4. CASE getStatus_compare
      BY <2>4 DEF getStatus_compare, result
  <2>5. CASE calcFinished
      BY <2>5 DEF calcFinished, Outcome, Launch
  <2>6. CASE terminate \/ kill
      BY <2>6 DEF terminate, kill, Restart, FreshProcess
  <2>7. CASE parse \/ generate \/ load \/ publish \/ isCanceled \/ prove \/ catch
      BY <2>7 DEF parse, generate, load, publish, isCanceled, prove, catch, result
  <2>8. ASSUME NEW o \in orphans, orphan_generate(o) PROVE FALSE
      BY <2>8 DEF orphan_generate, result
  <2>9. QED BY <2>1, <2>2, <2>3, <2>4, <2>5, <2>6, <2>7, <2>8 DEF Next, Prover
<1>2. QED BY <1>1, PTL DEF Spec, CancelWins, CancelStep


-----------------------------------------------------------------------------
(***************************************************************************)
(* Types.                                                                  *)
(***************************************************************************)

\* A request that is pending or executing names a circuit.
RequestInv ==
    /\ pendingInput # NoInput => pendingCircuit \in Circuit
    /\ prover # "none" => executingInput \in Input /\ executingCircuit \in Circuit

\* TypeOK without the environment, in the parts that steps leave alone together.
QueueOK ==
    /\ pendingInput \in Input \cup {NoInput} /\ executingInput \in Input \cup {NoInput}
    /\ pendingCircuit \in Circuit \cup {NoInput} /\ executingCircuit \in Circuit \cup {NoInput}
    /\ RequestInv
ThreadOK ==
    /\ status \in {"ready", "aborted", "failed", "success", "busy"}
    /\ prover \in {"none", "parse", "generating", "load", "public", "isCanceled", "prove",
                   "catch", "finish"}
FlagsOK == canceled \in BOOLEAN /\ errString \in BOOLEAN /\ mtx \in BOOLEAN
ResultOK == {proof, pubData, witness} \subseteq Satisfiable \cup {None}
HttpOK == http \in {Idle, Stuck} \cup {Reading(c, k) : c \in Client, k \in 1 .. 5}
FilesOK ==
    /\ wtnsFile \in [Circuit -> Satisfiable \cup {None}]
    /\ orphans \subseteq Circuit \X Input
    /\ kills \in 0 .. MaxKills

TypeInv == QueueOK /\ ThreadOK /\ FlagsOK /\ ResultOK /\ HttpOK /\ FilesOK

LEMMA InitTypes == Init => TypeInv
<1> SUFFICES ASSUME Init PROVE TypeInv
    OBVIOUS
<1>1. QueueOK /\ ThreadOK /\ ResultOK /\ HttpOK
    BY DEF Init, QueueOK, RequestInv, ThreadOK, ResultOK, HttpOK
<1>2. FlagsOK
    BY DEF Init, FlagsOK
<1>3. FilesOK
    BY InputAssumption DEF Init, FilesOK
<1>4. QED BY <1>1, <1>2, <1>3 DEF TypeInv

LEMMA LaunchTypes ==
    ASSUME TypeInv, NEW input \in Input, NEW circuit \in Circuit, Launch(input, circuit),
           UNCHANGED pubData, witness' \in {witness, None}, mtx' = mtx
    PROVE  QueueOK' /\ ThreadOK' /\ FlagsOK' /\ ResultOK'
<1>1. QueueOK'
    BY DEF Launch, QueueOK, RequestInv
<1>2. ThreadOK'
    BY DEF Launch, ThreadOK
<1>3. FlagsOK'
    BY DEF Launch, FlagsOK, TypeInv
<1>4. ResultOK'
    BY DEF Launch, ResultOK, TypeInv
<1>5. QED BY <1>1, <1>2, <1>3, <1>4

LEMMA RestartTypes ==
    ASSUME TypeInv, Restart, kills' \in 0 .. MaxKills
    PROVE  TypeInv'
<1>1. QueueOK' /\ ThreadOK' /\ ResultOK' /\ HttpOK'
    BY DEF Restart, FreshProcess, QueueOK, RequestInv, ThreadOK, ResultOK, HttpOK
<1>2. FlagsOK'
    BY DEF Restart, FreshProcess, FlagsOK
<1>3. orphans' \subseteq Circuit \X Input
  <2>1. CASE prover = "generating"
    <3>1. <<executingCircuit, executingInput>> \in Circuit \X Input
        BY <2>1 DEF TypeInv, QueueOK, RequestInv
    <3>2. QED BY <2>1, <3>1 DEF Restart, TypeInv, FilesOK
  <2>2. CASE prover # "generating"
      BY <2>2 DEF Restart, TypeInv, FilesOK
  <2>3. QED BY <2>1, <2>2
<1>4. FilesOK'
    BY <1>3 DEF FilesOK, Restart, TypeInv
<1>5. QED BY <1>1, <1>2, <1>4 DEF TypeInv

LEMMA PostInputTypes ==
    ASSUME TypeInv, NEW c \in Client, NEW input \in Input, NEW circuit \in Circuit,
           postInput(c, input, circuit)
    PROVE  TypeInv'
<1>1. startProve(input, circuit) /\ UNCHANGED <<pubData, witness, wtnsFile, orphans, kills>>
    BY DEF postInput
<1>2. FilesOK'
    BY <1>1 DEF TypeInv, FilesOK
<1>3. CASE /\ pendingInput' = input /\ pendingCircuit' = circuit
           /\ mtx' = TRUE /\ http' = Stuck
           /\ UNCHANGED <<status, executingInput, executingCircuit, canceled, errString, proof, prover>>
  <2>1. QueueOK' /\ ThreadOK' /\ ResultOK' /\ HttpOK'
      BY <1>1, <1>3 DEF TypeInv, QueueOK, RequestInv, ThreadOK, ResultOK, HttpOK
  <2>2. FlagsOK'
      BY <1>3 DEF TypeInv, FlagsOK
  <2>3. QED BY <1>2, <2>1, <2>2 DEF TypeInv
<1>4. CASE UNCHANGED worker /\ Launch(input, circuit)
  <2>1. HttpOK'
      BY <1>4 DEF worker, TypeInv, HttpOK
  <2>2. mtx' = mtx
      BY <1>4 DEF worker
  <2>3. QED BY <1>1, <1>2, <1>4, <2>1, <2>2, LaunchTypes DEF TypeInv
<1>5. CASE /\ UNCHANGED worker /\ pendingInput' = input /\ pendingCircuit' = circuit
           /\ UNCHANGED <<status, executingInput, executingCircuit, canceled, errString, proof, prover>>
  <2>1. QueueOK' /\ ThreadOK' /\ ResultOK' /\ HttpOK'
      BY <1>1, <1>5 DEF worker, TypeInv, QueueOK, RequestInv, ThreadOK, ResultOK, HttpOK
  <2>2. FlagsOK'
      BY <1>5 DEF worker, TypeInv, FlagsOK
  <2>3. QED BY <1>2, <2>1, <2>2 DEF TypeInv
<1>6. QED BY <1>1, <1>3, <1>4, <1>5 DEF startProve

LEMMA CompareTypes ==
    ASSUME TypeInv, getStatus_compare
    PROVE  TypeInv'
<1>1. UNCHANGED <<status, queue, canceled, result, mtx, prover, witness, wtnsFile, orphans, kills>>
    BY DEF getStatus_compare
<1>2. QueueOK' /\ ThreadOK' /\ ResultOK' /\ FilesOK'
    BY <1>1 DEF TypeInv, QueueOK, RequestInv, ThreadOK, ResultOK, FilesOK, queue, result
<1>3. FlagsOK'
    BY <1>1 DEF TypeInv, FlagsOK, result
<1>4. HttpOK'
  <2>1. PICK c \in Client, k \in 1 .. 5 : http = Reading(c, k)
      BY DEF TypeInv, HttpOK, getStatus_compare, Idle, Stuck
  <2>2. http.client = c /\ http.next = k
      BY <2>1 DEF Reading
  <2>3. http' = Idle \/ (k # 5 /\ http' = Reading(c, k + 1))
    <3>1. Len(StatusOrder) = 5
        BY DEF StatusOrder
    <3>2. QED BY <2>2, <3>1 DEF getStatus_compare
  <2>4. QED BY <2>3 DEF HttpOK
<1>5. QED BY <1>2, <1>3, <1>4 DEF TypeInv

\* A generator writes only the witness of a satisfiable input.
LEMMA WriteTypes ==
    ASSUME TypeInv, NEW input, NEW circuit, WriteWitness(circuit, input)
    PROVE  wtnsFile' \in [Circuit -> Satisfiable \cup {None}]
BY DEF TypeInv, FilesOK, WriteWitness

LEMMA ThreadTypes ==
    ASSUME TypeInv, Prover
    PROVE  TypeInv'
<1>1. ASSUME UNCHANGED <<queue, mtx, http, orphans, kills>>, ThreadOK', FlagsOK', ResultOK',
             wtnsFile' \in [Circuit -> Satisfiable \cup {None}], prover # "none"
      PROVE  TypeInv'
    BY <1>1 DEF TypeInv, QueueOK, RequestInv, HttpOK, FilesOK, queue
<1>2. CASE parse
  <2>1. FlagsOK'
      BY <1>2 DEF parse, TypeInv, FlagsOK, result, worker
  <2>2. QED BY <1>1, <1>2, <2>1
            DEF parse, TypeInv, ThreadOK, ResultOK, FilesOK, result, worker, env
<1>3. CASE generate
  <2>1. FlagsOK'
      BY <1>3 DEF generate, TypeInv, FlagsOK, result, worker
  <2>2. wtnsFile' \in [Circuit -> Satisfiable \cup {None}]
      BY <1>3, WriteTypes DEF generate
  <2>3. QED BY <1>1, <1>3, <2>1, <2>2
            DEF generate, TypeInv, ThreadOK, ResultOK, result, worker
<1>4. CASE load
  <2>1. FlagsOK'
      BY <1>4 DEF load, TypeInv, FlagsOK, result, worker
  <2>2. wtnsFile[executingCircuit] \in Satisfiable \cup {None}
      BY <1>4 DEF load, TypeInv, QueueOK, RequestInv, FilesOK
  <2>3. ResultOK' /\ ThreadOK'
      BY <1>4, <2>2 DEF load, TypeInv, ResultOK, ThreadOK, result
  <2>4. QED BY <1>1, <1>4, <2>1, <2>3 DEF load, TypeInv, FilesOK, worker, env
<1>5. CASE publish \/ prove
  <2>1. FlagsOK'
      BY <1>5 DEF publish, prove, TypeInv, FlagsOK, worker
  <2>2. QED BY <1>1, <1>5, <2>1
            DEF publish, prove, TypeInv, ThreadOK, ResultOK, FilesOK, worker, env
<1>6. CASE isCanceled
  <2>1. FlagsOK'
      BY <1>6 DEF isCanceled, TypeInv, FlagsOK, worker
  <2>2. proof' \in {proof, None} /\ prover' \in {"finish", "prove"}
      BY <1>6 DEF isCanceled
  <2>3. QED BY <1>1, <1>6, <2>1, <2>2
            DEF isCanceled, TypeInv, ThreadOK, ResultOK, FilesOK, worker, env
<1>7. CASE catch
  <2>1. FlagsOK'
      BY <1>7 DEF catch, TypeInv, FlagsOK, worker
  <2>2. QED BY <1>1, <1>7, <2>1
            DEF catch, TypeInv, ThreadOK, ResultOK, FilesOK, worker, env
<1>8. CASE calcFinished
  <2>1. UNCHANGED <<pubData, mtx, http, wtnsFile, orphans, kills>> /\ witness' = None
      BY <1>8 DEF calcFinished, worker, env
  <2>2. HttpOK' /\ FilesOK'
      BY <2>1 DEF TypeInv, HttpOK, FilesOK
  <2>3. CASE pendingInput # NoInput /\ Launch(pendingInput, pendingCircuit)
    <3>1. pendingInput \in Input /\ pendingCircuit \in Circuit
        BY <2>3 DEF TypeInv, QueueOK, RequestInv
    <3>2. QED BY <2>1, <2>2, <2>3, <3>1, LaunchTypes DEF TypeInv
  <2>4. CASE /\ status' = Outcome /\ canceled' = FALSE /\ executingInput' = NoInput
             /\ prover' = "none"
             /\ UNCHANGED <<pendingInput, pendingCircuit, executingCircuit, errString, proof>>
    <3>1. QueueOK' /\ ThreadOK' /\ ResultOK'
        BY <2>1, <2>4 DEF TypeInv, QueueOK, RequestInv, ThreadOK, ResultOK, Outcome
    <3>2. FlagsOK'
        BY <2>1, <2>4 DEF TypeInv, FlagsOK
    <3>3. QED BY <2>2, <3>1, <3>2 DEF TypeInv
  <2>5. QED BY <1>8, <2>3, <2>4 DEF calcFinished
<1>9. CASE terminate
  <2>1. Restart /\ kills' \in 0 .. MaxKills
      BY <1>9 DEF terminate, TypeInv, FilesOK
  <2>2. QED BY <2>1, RestartTypes
<1>10. QED BY <1>2, <1>3, <1>4, <1>5, <1>6, <1>7, <1>8, <1>9 DEF Prover

LEMMA TypeInvInvariant == Spec => []TypeInv
<1>1. TypeInv /\ [Next]_vars => TypeInv'
  <2> SUFFICES ASSUME TypeInv, [Next]_vars PROVE TypeInv'
      OBVIOUS
  <2>1. ASSUME NEW c \in Client, NEW input \in Input, NEW circuit \in Circuit,
               postInput(c, input, circuit)
        PROVE  TypeInv'
      BY <2>1, PostInputTypes
  <2>2. CASE postCancel
    <3>1. FlagsOK'
        BY <2>2 DEF postCancel, TypeInv, FlagsOK, result, worker
    <3>2. QED BY <2>2, <3>1 DEF postCancel, TypeInv, QueueOK, RequestInv, ThreadOK, ResultOK,
                               HttpOK, FilesOK, queue, result, worker, env
  <2>3. ASSUME NEW c \in Client, getStatus(c) PROVE TypeInv'
    <3>1. FlagsOK'
        BY <2>3 DEF getStatus, TypeInv, FlagsOK, result
    <3>2. HttpOK'
        BY <2>3 DEF getStatus, HttpOK
    <3>3. QED BY <2>3, <3>1, <3>2 DEF getStatus, TypeInv, QueueOK, RequestInv, ThreadOK, ResultOK,
                                     FilesOK, queue, result, env
  <2>4. CASE getStatus_compare
      BY <2>4, CompareTypes
  <2>5. CASE Prover
      BY <2>5, ThreadTypes
  <2>6. CASE kill
    <3>1. Restart /\ kills' \in 0 .. MaxKills
        BY <2>6, InputAssumption DEF kill, TypeInv, FilesOK
    <3>2. QED BY <3>1, RestartTypes
  <2>7. ASSUME NEW o \in orphans, orphan_generate(o) PROVE TypeInv'
    <3>1. FlagsOK'
        BY <2>7 DEF orphan_generate, TypeInv, FlagsOK, result, worker
    <3>2. FilesOK'
      <4>1. wtnsFile' \in [Circuit -> Satisfiable \cup {None}]
          BY <2>7, WriteTypes DEF orphan_generate
      <4>2. QED BY <2>7, <4>1 DEF orphan_generate, TypeInv, FilesOK
    <3>3. QED BY <2>7, <3>1, <3>2 DEF orphan_generate, TypeInv, QueueOK, RequestInv, ThreadOK,
                                     ResultOK, HttpOK, queue, result, worker
  <2>8. CASE UNCHANGED vars
    <3>1. FlagsOK'
        BY <2>8 DEF vars, TypeInv, FlagsOK, result, worker
    <3>2. QED BY <2>8, <3>1 DEF vars, TypeInv, QueueOK, RequestInv, ThreadOK, ResultOK,
                               HttpOK, FilesOK, queue, result, worker, env
  <2>9. QED BY <2>1, <2>2, <2>3, <2>4, <2>5, <2>6, <2>7, <2>8 DEF Next
<1>2. QED BY InitTypes, <1>1, PTL DEF Spec

\* The server's state is well-formed: what is executed, and what a generator
\* that outlives the server writes, was requested; only witnesses of
\* satisfiable inputs reach a file, a result or an answer.
THEOREM TypeCorrect == Spec => []TypeOK
<1>1. TypeInv => TypeOK
    BY DEF TypeInv, QueueOK, ThreadOK, FlagsOK, ResultOK, HttpOK, FilesOK, TypeOK
<1>2. QED BY TypeInvInvariant, <1>1, PTL


-----------------------------------------------------------------------------
(***************************************************************************)
(* A client alone with the server gets the proof of its own input.         *)
(***************************************************************************)

\* What the answers depend on.  None of the four can be dropped: two clients see
\* each other's results, a generator that outlives a killed server writes into
\* the files of the next one, a generator that fails leaves the witness of an
\* earlier request (the run prover_server_stale_witness), and an empty body is
\* never started and answered with the last proof.
Undisturbed ==
    /\ \A c, d \in Client : c = d
    /\ MaxKills = 0
    /\ Input \subseteq Satisfiable \cup Malformed
    /\ NoInput \notin Input

\* The request of a client that waits.
ClientInv ==
    /\ DOMAIN client = Client /\ DOMAIN answer = Client
    /\ \A c \in Client :
          /\ client[c] = Start \/ \E input \in Input : client[c] = Waiting(input)
          /\ client[c] = Start => status # "busy"
          /\ client[c].pc = "waiting" =>
                /\ status = "busy" => executingInput = client[c].input
                /\ status = "success" => proof = client[c].input /\ pubData = client[c].input
    /\ http.pc = "getStatus" => client[http.client].pc = "waiting"
    /\ http # Stuck

\* The witness is the witness of the input that is executed.
WitnessInv ==
    /\ pendingInput = NoInput /\ orphans = {}
    /\ \A circuit \in Circuit \ Provable : wtnsFile[circuit] = None
    /\ prover = "generating" => executingInput \in Satisfiable
    /\ prover = "load" => wtnsFile[executingCircuit] \in {executingInput, None}
    /\ prover \in {"public", "isCanceled", "prove"} => witness = executingInput
    /\ prover \in {"isCanceled", "prove"} => pubData = executingInput
    /\ prover = "finish" => errString = TRUE \/ canceled = TRUE
                               \/ (proof = executingInput /\ pubData = executingInput)

AnswerInv == ClientInv /\ WitnessInv /\ AnswerMatchesRequest

\* Steps that touch neither the clients nor a result they could see.
LEMMA ClientsUntouched ==
    ASSUME ClientInv, AnswerMatchesRequest,
           UNCHANGED <<client, answer, http, status, executingInput>>,
           status = "busy" \/ UNCHANGED <<proof, pubData>>
    PROVE  ClientInv' /\ AnswerMatchesRequest'
<1>1. ClientInv'
    BY DEF ClientInv
<1>2. AnswerMatchesRequest'
    BY DEF AnswerMatchesRequest
<1>3. QED BY <1>1, <1>2

LEMMA PostInputAnswer ==
    ASSUME Undisturbed, TypeInv, ProverInv, AnswerInv,
           NEW c \in Client, NEW input \in Input, NEW circuit \in Circuit,
           postInput(c, input, circuit)
    PROVE  AnswerInv'
<1>1. status # "busy" /\ input # NoInput
    BY DEF postInput, AnswerInv, ClientInv, Undisturbed
<1>2. Launch(input, circuit) /\ UNCHANGED worker
    BY <1>1 DEF postInput, startProve
<1>3. /\ DOMAIN client' = Client /\ client'[c] = Waiting(input)
      /\ DOMAIN answer' = Client /\ answer'[c] = None
    BY DEF postInput, AnswerInv, ClientInv
<1>4. \A d \in Client : d = c
    BY DEF Undisturbed
<1>5. ClientInv'
  <2>1. status' = "busy" /\ executingInput' = input
      BY <1>2 DEF Launch
  <2>2. http' = Idle /\ http'.pc = "idle" /\ http' # Stuck
      BY <1>2 DEF worker, postInput, Idle, Stuck
  <2>3. /\ Waiting(input).pc = "waiting" /\ Waiting(input).input = input
        /\ Waiting(input) # Start
      BY DEF Waiting, Start
  <2>4. QED BY <1>3, <1>4, <2>1, <2>2, <2>3 DEF ClientInv
<1>6. WitnessInv'
    BY <1>2 DEF Launch, postInput, AnswerInv, WitnessInv
<1>7. AnswerMatchesRequest'
    BY <1>3, <1>4 DEF AnswerMatchesRequest
<1>8. QED BY <1>5, <1>6, <1>7 DEF AnswerInv

LEMMA CompareAnswer ==
    ASSUME Undisturbed, TypeInv, ProverInv, AnswerInv, getStatus_compare
    PROVE  AnswerInv'
<1>1. PICK c \in Client, k \in 1 .. 5 : http = Reading(c, k)
    BY DEF TypeInv, HttpOK, getStatus_compare, Idle, Stuck
<1>2. http.client = c /\ http.next = k /\ http.pc = "getStatus" /\ client[c].pc = "waiting"
    BY <1>1 DEF Reading, AnswerInv, ClientInv
<1>3. \A d \in Client : d = c
    BY DEF Undisturbed
<1>4. UNCHANGED <<status, queue, canceled, result, mtx, prover, witness, wtnsFile, orphans, kills>>
    BY DEF getStatus_compare
<1>5. WitnessInv'
    BY <1>4 DEF AnswerInv, WitnessInv, queue, result
<1>6. CASE UNCHANGED <<client, answer>> /\ (http' = Idle \/ http' = Reading(c, k + 1))
  <2>1. /\ http' # Stuck
        /\ http'.pc = "getStatus" => http'.client = c
      BY <1>6 DEF Idle, Stuck, Reading
  <2>2. ClientInv'
      BY <1>2, <1>4, <1>6, <2>1 DEF AnswerInv, ClientInv, queue, result
  <2>3. AnswerMatchesRequest'
      BY <1>6 DEF AnswerInv, AnswerMatchesRequest
  <2>4. QED BY <1>5, <2>2, <2>3 DEF AnswerInv
<1>7. ASSUME NEW reply, http' = Idle, status # "busy",
             client' = [client EXCEPT ![c] = Start],
             answer' = [answer EXCEPT ![c] = [input |-> client[c].input, reply |-> reply]],
             reply.status = "success" =>
                status = "success" /\ reply.proof = proof /\ reply.pubData = pubData
      PROVE  AnswerInv'
  <2>1. /\ DOMAIN client' = Client /\ client'[c] = Start
        /\ DOMAIN answer' = Client
        /\ answer'[c] = [input |-> client[c].input, reply |-> reply]
      BY <1>7 DEF AnswerInv, ClientInv
  <2>2. ClientInv'
    <3>1. Start.pc = "start" /\ Idle.pc = "idle" /\ Idle # Stuck
        BY DEF Start, Idle, Stuck
    <3>2. QED BY <1>3, <1>4, <1>7, <2>1, <3>1 DEF ClientInv
  <2>3. AnswerMatchesRequest'
    <3>1. status = "success" => proof = client[c].input /\ pubData = client[c].input
        BY <1>2 DEF AnswerInv, ClientInv
    <3>2. /\ answer'[c].input = client[c].input /\ answer'[c].reply = reply
        BY <2>1
    <3>3. QED BY <1>3, <1>7, <3>1, <3>2 DEF AnswerMatchesRequest
  <2>4. QED BY <1>5, <2>2, <2>3 DEF AnswerInv
<1>8. Len(StatusOrder) = 5 /\ StatusOrder[5] = "busy"
    BY DEF StatusOrder
<1>9. CASE status = StatusOrder[k]
  <2>1. http' = Idle /\ Receive(c, StatusAnswer(k))
      BY <1>2, <1>9 DEF getStatus_compare
  <2> DEFINE reply == StatusAnswer(k)
  <2>2. /\ reply.status = status
        /\ status = "success" => reply.proof = proof /\ reply.pubData = pubData
      BY <1>9 DEF StatusAnswer
  <2> HIDE DEF reply
  <2>3. CASE status = "busy"
      BY <1>6, <2>1, <2>2, <2>3 DEF Receive, reply
  <2>4. CASE status # "busy"
    <3>1. /\ client' = [client EXCEPT ![c] = Start]
          /\ answer' = [answer EXCEPT ![c] = [input |-> client[c].input, reply |-> reply]]
        BY <2>1, <2>2, <2>4 DEF Receive, reply
    <3>2. QED BY <1>7, <2>1, <2>2, <2>4, <3>1
  <2>5. QED BY <2>3, <2>4
<1>10. CASE status # StatusOrder[k] /\ k = 5
  <2>1. http' = Idle /\ Receive(c, EmptyAnswer)
      BY <1>2, <1>8, <1>10 DEF getStatus_compare
  <2>2. status # "busy" /\ EmptyAnswer.status = ""
      BY <1>8, <1>10 DEF EmptyAnswer
  <2>3. /\ client' = [client EXCEPT ![c] = Start]
        /\ answer' = [answer EXCEPT ![c] = [input |-> client[c].input, reply |-> EmptyAnswer]]
      BY <2>1, <2>2 DEF Receive
  <2>4. QED BY <1>7, <2>1, <2>2, <2>3
<1>11. CASE status # StatusOrder[k] /\ k # 5
    BY <1>2, <1>6, <1>8, <1>11 DEF getStatus_compare
<1>12. QED BY <1>9, <1>10, <1>11

LEMMA TerminateAnswer ==
    ASSUME Undisturbed, TypeInv, AnswerInv, terminate
    PROVE  AnswerInv'
<1>1. FreshProcess /\ prover \in {"parse", "load"} /\ UNCHANGED <<wtnsFile, answer>> /\ orphans' = orphans
    BY DEF terminate, Restart
<1>2. PICK failed : client' = [c \in Client |-> IF c \in failed THEN Start ELSE client[c]]
    BY DEF terminate, Restart
<1>3. status' = "ready" /\ http' = Idle /\ prover' = "none" /\ pendingInput' = NoInput
    BY <1>1 DEF FreshProcess
<1>4. ClientInv'
  <2>1. Idle.pc = "idle" /\ Idle # Stuck /\ Start.pc = "start"
      BY DEF Idle, Stuck, Start
  <2>2. QED BY <1>1, <1>2, <1>3, <2>1 DEF AnswerInv, ClientInv
<1>5. WitnessInv'
    BY <1>1, <1>3 DEF AnswerInv, WitnessInv
<1>6. AnswerMatchesRequest'
    BY <1>1 DEF AnswerInv, AnswerMatchesRequest
<1>7. QED BY <1>4, <1>5, <1>6 DEF AnswerInv

LEMMA ThreadAnswer ==
    ASSUME Undisturbed, TypeInv, ProverInv, AnswerInv, Prover
    PROVE  AnswerInv'
<1>1. prover # "none" => status = "busy"
    BY DEF ProverInv, ThreadInv
<1>2. ASSUME WitnessInv', status = "busy",
             UNCHANGED <<client, answer, http, status, executingInput>>
      PROVE  AnswerInv'
    BY <1>2, ClientsUntouched DEF AnswerInv
<1>3. prover # "none" => executingInput \in Input /\ executingCircuit \in Circuit
    BY DEF TypeInv, QueueOK, RequestInv
<1>4. CASE parse
  <2>1. executingInput \in Satisfiable
      BY <1>3, <1>4 DEF parse, Undisturbed
  <2>2. WitnessInv'
      BY <1>4, <2>1 DEF parse, AnswerInv, WitnessInv, queue, result, env
  <2>3. QED BY <1>1, <1>2, <1>4, <2>2 DEF parse, worker, queue, env
<1>5. CASE generate
  <2>1. executingInput \in Satisfiable /\ executingCircuit \in Circuit
      BY <1>3, <1>5 DEF generate, AnswerInv, WitnessInv
  <2>2. wtnsFile \in [Circuit -> Satisfiable \cup {None}]
      BY DEF TypeInv, FilesOK
  <2>3. /\ wtnsFile'[executingCircuit] \in {executingInput, None}
        /\ \A circuit \in Circuit \ Provable : wtnsFile'[circuit] = None
      BY <1>5, <2>1, <2>2 DEF generate, WriteWitness, AnswerInv, WitnessInv
  <2>4. WitnessInv'
      BY <1>5, <2>3 DEF generate, AnswerInv, WitnessInv, queue, result
  <2>5. QED BY <1>1, <1>2, <1>5, <2>4 DEF generate, worker, queue
<1>6. CASE load
  <2>1. witness' \in {executingInput, None} /\ (witness' # None => prover' = "public")
        /\ (witness' = None => prover' = "catch")
      BY <1>6 DEF load, AnswerInv, WitnessInv
  <2>2. WitnessInv'
      BY <1>6, <2>1 DEF load, AnswerInv, WitnessInv, queue, result, env
  <2>3. QED BY <1>1, <1>2, <1>6, <2>2 DEF load, worker, queue, env
<1>7. CASE publish
  <2>1. WitnessInv'
      BY <1>7 DEF publish, AnswerInv, WitnessInv, queue, env
  <2>2. QED BY <1>1, <1>2, <1>7, <2>1 DEF publish, worker, queue, env
<1>8. CASE isCanceled
  <2>1. CASE canceled = TRUE
    <3>1. WitnessInv'
        BY <1>8, <2>1 DEF isCanceled, AnswerInv, WitnessInv, queue, env
    <3>2. QED BY <1>1, <1>2, <1>8, <3>1 DEF isCanceled, worker, queue, env
  <2>2. CASE canceled = FALSE
    <3>1. WitnessInv'
        BY <1>8, <2>2 DEF isCanceled, AnswerInv, WitnessInv, queue, env
    <3>2. QED BY <1>1, <1>2, <1>8, <3>1 DEF isCanceled, worker, queue, env
  <2>3. QED BY <2>1, <2>2 DEF TypeInv, FlagsOK
<1>9. CASE prove
  <2>1. WitnessInv'
      BY <1>9 DEF prove, AnswerInv, WitnessInv, queue, env
  <2>2. QED BY <1>1, <1>2, <1>9, <2>1 DEF prove, worker, queue, env
<1>10. CASE catch
  <2>1. CASE canceled = TRUE
    <3>1. WitnessInv'
        BY <1>10, <2>1 DEF catch, AnswerInv, WitnessInv, queue, env
    <3>2. QED BY <1>1, <1>2, <1>10, <3>1 DEF catch, worker, queue, env
  <2>2. CASE canceled = FALSE
    <3>1. errString' = TRUE
        BY <1>10, <2>2 DEF catch
    <3>2. WitnessInv'
        BY <1>10, <3>1 DEF catch, AnswerInv, WitnessInv, queue, env
    <3>3. QED BY <1>1, <1>2, <1>10, <3>2 DEF catch, worker, queue, env
  <2>3. QED BY <2>1, <2>2 DEF TypeInv, FlagsOK
<1>11. CASE calcFinished
  <2>1. /\ status' = Outcome /\ prover' = "none" /\ prover = "finish"
        /\ UNCHANGED <<pendingInput, pendingCircuit, executingCircuit, errString, proof,
                       pubData, http, wtnsFile, orphans, client, answer>>
      BY <1>11 DEF calcFinished, AnswerInv, WitnessInv, worker, env
  <2>2. WitnessInv'
      BY <2>1 DEF AnswerInv, WitnessInv
  <2>3. status' # "busy" /\ (status' = "success" => errString # TRUE /\ canceled # TRUE)
      BY <2>1 DEF Outcome
  <2>4. status' = "success" => proof = executingInput /\ pubData = executingInput
      BY <2>1, <2>3 DEF AnswerInv, WitnessInv
  <2>5. status = "busy"
      BY <1>1, <2>1
  <2>6. ClientInv'
      BY <2>1, <2>3, <2>4, <2>5 DEF AnswerInv, ClientInv
  <2>7. AnswerMatchesRequest'
      BY <2>1 DEF AnswerInv, AnswerMatchesRequest
  <2>8. QED BY <2>2, <2>6, <2>7 DEF AnswerInv
<1>12. CASE terminate
    BY <1>12, TerminateAnswer
<1>13. QED BY <1>4, <1>5, <1>6, <1>7, <1>8, <1>9, <1>10, <1>11, <1>12 DEF Prover

LEMMA AnswerStep ==
    ASSUME Undisturbed, TypeInv, ProverInv, AnswerInv, [Next]_vars
    PROVE  AnswerInv'
<1>1. ASSUME NEW c \in Client, NEW input \in Input, NEW circuit \in Circuit,
             postInput(c, input, circuit)
      PROVE  AnswerInv'
    BY <1>1, PostInputAnswer
<1>2. CASE postCancel
  <2>1. WitnessInv'
      BY <1>2 DEF postCancel, AnswerInv, WitnessInv, queue, result, env
  <2>2. QED BY <1>2, <2>1, ClientsUntouched DEF postCancel, AnswerInv, queue, result, worker, env
<1>3. ASSUME NEW c \in Client, getStatus(c) PROVE AnswerInv'
  <2>1. WitnessInv'
      BY <1>3 DEF getStatus, AnswerInv, WitnessInv, queue, result, env
  <2>2. http'.client = c /\ http' # Stuck
      BY <1>3 DEF getStatus, Reading, Stuck
  <2>3. ClientInv'
      BY <1>3, <2>2 DEF getStatus, AnswerInv, ClientInv, queue, result, env
  <2>4. AnswerMatchesRequest'
      BY <1>3 DEF getStatus, AnswerInv, AnswerMatchesRequest, env
  <2>5. QED BY <2>1, <2>3, <2>4 DEF AnswerInv
<1>4. CASE getStatus_compare
    BY <1>4, CompareAnswer
<1>5. CASE Prover
    BY <1>5, ThreadAnswer
<1>6. CASE kill
    BY <1>6 DEF kill, Undisturbed, TypeInv, FilesOK
<1>7. ASSUME NEW o \in orphans, orphan_generate(o) PROVE AnswerInv'
    BY <1>7 DEF AnswerInv, WitnessInv
<1>8. CASE UNCHANGED vars
  <2>1. WitnessInv'
      BY <1>8 DEF vars, AnswerInv, WitnessInv, queue, result, env
  <2>2. QED BY <1>8, <2>1, ClientsUntouched DEF vars, AnswerInv, queue, result, worker, env
<1>9. QED BY <1>1, <1>2, <1>3, <1>4, <1>5, <1>6, <1>7, <1>8 DEF Next

\* With a single client, a server that is not killed, and bodies that are either
\* not JSON or inputs of the circuit, a successful answer holds the proof and
\* the public signals of the input the client sent, although getStatus reads
\* without the lock, cancels arrive at any time, a body that is not JSON
\* restarts the server, and the witness files of earlier requests stay.
THEOREM AnswerMatchesRequestCorrect ==
    ASSUME Undisturbed
    PROVE  Spec => []AnswerMatchesRequest
<1>1. Init => AnswerInv
  <2> SUFFICES ASSUME Init PROVE AnswerInv
      OBVIOUS
  <2>1. ClientInv
      BY DEF Init, ClientInv, Start, Idle, Stuck
  <2>2. WitnessInv
      BY DEF Init, WitnessInv
  <2>3. AnswerMatchesRequest
      BY DEF Init, AnswerMatchesRequest
  <2>4. QED BY <2>1, <2>2, <2>3 DEF AnswerInv
<1>2. TypeInv /\ ProverInv /\ AnswerInv /\ [Next]_vars => AnswerInv'
    BY AnswerStep
<1>3. AnswerInv => AnswerMatchesRequest
    BY DEF AnswerInv
<1>4. QED BY TypeInvInvariant, ProverInvInvariant, <1>1, <1>2, <1>3, PTL DEF Spec

=============================================================================
