----------------------------- MODULE FullProver -----------------------------
(***************************************************************************)
(* The proof server of rapidsnark: FullProver (src/fullprover.cpp) behind  *)
(* the REST routes of src/proverapi.cpp and src/main_proofserver.cpp, with *)
(* clients that run tools/request.js.                                      *)
(*                                                                         *)
(* Two threads of the server share one FullProver.  The HTTP worker        *)
(* (.threads(1)) handles one request at a time; the prover thread that     *)
(* checkPending spawns makes one proof and ends.  A critical section of    *)
(* mtx is one step.  mtx stays taken only when startProve, which holds it, *)
(* calls abort, which locks it again: std::mutex is not recursive, the     *)
(* inner lock is never granted, and the worker is "stuck" from then on.    *)
(* getStatus takes no lock: it compares status with one value after the    *)
(* other, and the server is built without optimisation, so each comparison *)
(* reads it afresh.                                                        *)
(*                                                                         *)
(* A witness is named by the input it was computed from, and so are the    *)
(* proof and the public signals made from it.  The witness generator is a  *)
(* process of its own; the file it writes outlives the server, and so does *)
(* the generator itself (KillMode=process in service/rapidsnark.service).  *)
(***************************************************************************)
EXTENDS Naturals, Sequences

CONSTANTS
    Client,         \* the processes running tools/request.js
    Circuit,        \* the circuits named in requests
    Input,          \* the request bodies
    Malformed,      \* those that are not JSON
    Satisfiable,    \* those the witness generator computes a witness for
    Provable,       \* the circuits with a zkey and a generator in ./build
    Foreign,        \* those whose generator writes for another curve or version
    NoInput,        \* the empty string
    None,           \* null: no proof, no witness file, no answer
    MaxKills        \* bound on how often the server is killed

ASSUME InputAssumption ==
    /\ Malformed \subseteq Input /\ Satisfiable \subseteq Input \ Malformed
    /\ NoInput \notin Satisfiable /\ None \notin Input
    /\ Provable \subseteq Circuit /\ Foreign \subseteq Provable
    /\ MaxKills \in Nat

VARIABLES
    status, pendingInput, pendingCircuit, executingInput, executingCircuit,
    canceled, proof, pubData,
    errString,      \* errString # ""
    mtx,            \* mtx is locked
    http,           \* what the HTTP worker is doing
    prover,         \* where the prover thread is, "none" if there is none
    witness,        \* the witness the prover thread has mapped
    wtnsFile,       \* ./build/<circuit>.wtns
    orphans,        \* generators that outlived the server that ran them
    kills,          \* how often the server was killed
    client,         \* what each client is doing
    answer          \* the last thing each client printed, and its input

queue == <<pendingInput, pendingCircuit, executingInput, executingCircuit>>
result == <<proof, pubData, errString>>
worker == <<mtx, http>>
env == <<wtnsFile, orphans, kills, client, answer>>
vars == <<status, queue, canceled, result, worker, prover, witness, env>>

-----------------------------------------------------------------------------

Idle == [pc |-> "idle"]
Stuck == [pc |-> "stuck"]
Reading(c, k) == [pc |-> "getStatus", client |-> c, next |-> k]

\* The order in which getStatus compares.
StatusOrder == <<"ready", "aborted", "failed", "success", "busy">>

\* A client is between two runs of request.js, or in one: it has sent its
\* input and waits for the server to answer, or to be done.
Start == [pc |-> "start"]
Waiting(input) == [pc |-> "waiting", input |-> input]

\* The constructor's state: what a process has when it starts.
FreshProcess ==
    /\ status' = "ready"
    /\ pendingInput' = NoInput /\ pendingCircuit' = NoInput
    /\ executingInput' = NoInput /\ executingCircuit' = NoInput
    /\ canceled' = FALSE /\ errString' = FALSE
    /\ proof' = None /\ pubData' = None
    /\ mtx' = FALSE /\ http' = Idle
    /\ prover' = "none" /\ witness' = None

Init ==
    /\ status = "ready"
    /\ pendingInput = NoInput /\ pendingCircuit = NoInput
    /\ executingInput = NoInput /\ executingCircuit = NoInput
    /\ canceled = FALSE /\ errString = FALSE
    /\ proof = None /\ pubData = None
    /\ mtx = FALSE /\ http = Idle
    /\ prover = "none" /\ witness = None
    /\ wtnsFile = [circuit \in Circuit |-> None]
    /\ orphans = {} /\ kills = 0
    /\ client = [c \in Client |-> Start]
    /\ answer = [c \in Client |-> None]

\* The part of checkPending that starts a proof.
Launch(input, circuit) ==
    /\ status' = "busy"
    /\ executingInput' = input /\ executingCircuit' = circuit
    /\ pendingInput' = NoInput /\ pendingCircuit' = NoInput
    /\ errString' = FALSE
    /\ canceled' = FALSE
    /\ proof' = None
    /\ prover' = "parse"

-----------------------------------------------------------------------------
(***************************************************************************)
(* The HTTP worker.                                                        *)
(***************************************************************************)

\* POST /input/:circuit, up to its answer, or for ever: startProve locks mtx,
\* stores the request as pending, and starts it unless a proof is running.
startProve(input, circuit) ==
    IF status = "busy"
    THEN /\ pendingInput' = input /\ pendingCircuit' = circuit
         /\ mtx' = TRUE /\ http' = Stuck
         /\ UNCHANGED <<status, executingInput, executingCircuit, canceled, errString, proof, prover>>
    ELSE /\ UNCHANGED worker
         /\ IF input # NoInput
            THEN Launch(input, circuit)
            ELSE /\ pendingInput' = input /\ pendingCircuit' = circuit
                 /\ UNCHANGED <<status, executingInput, executingCircuit, canceled, errString, proof, prover>>

\* A client posts its input: postInput.
postInput(c, input, circuit) ==
    /\ http = Idle /\ ~mtx
    /\ client[c] = Start
    /\ startProve(input, circuit)
    /\ client' = [client EXCEPT ![c] = Waiting(input)]
    /\ answer' = [answer EXCEPT ![c] = None]
    /\ UNCHANGED <<pubData, witness, wtnsFile, orphans, kills>>

\* POST /cancel: abort.
postCancel ==
    /\ http = Idle /\ ~mtx
    /\ status = "busy"
    /\ canceled' = TRUE
    /\ UNCHANGED <<status, queue, result, worker, prover, witness, env>>

\* GET /status: getStatus begins.
getStatus(c) ==
    /\ http = Idle
    /\ client[c].pc = "waiting"
    /\ http' = Reading(c, 1)
    /\ UNCHANGED <<status, queue, canceled, result, mtx, prover, witness, env>>

\* The answer of getStatus when its k-th comparison succeeds.
StatusAnswer(k) ==
    [status |-> StatusOrder[k],
     proof |-> IF StatusOrder[k] = "success" THEN proof ELSE None,
     pubData |-> IF StatusOrder[k] = "success" THEN pubData ELSE None]

\* json st, which stays null when no comparison succeeds.
EmptyAnswer == [status |-> "", proof |-> None, pubData |-> None]

\* What a client running request.js does with the answer: it asks again while
\* the status is "busy", and prints anything else and ends.  The null answer
\* has no status to look at: the client prints an error and ends.
Receive(c, reply) ==
    IF reply.status = "busy"
    THEN UNCHANGED <<client, answer>>
    ELSE /\ client' = [client EXCEPT ![c] = Start]
         /\ answer' = [answer EXCEPT ![c] = [input |-> client[c].input, reply |-> reply]]

\* One comparison of getStatus; the last one, or one that succeeds, answers.
getStatus_compare ==
    /\ http.pc = "getStatus"
    /\ LET k == http.next
           c == http.client
       IN  IF status = StatusOrder[k]
           THEN http' = Idle /\ Receive(c, StatusAnswer(k))
           ELSE IF k = Len(StatusOrder)
                THEN http' = Idle /\ Receive(c, EmptyAnswer)
                ELSE http' = Reading(c, k + 1) /\ UNCHANGED <<client, answer>>
    /\ UNCHANGED <<status, queue, canceled, result, mtx, prover, witness, wtnsFile, orphans, kills>>

-----------------------------------------------------------------------------
(***************************************************************************)
(* The prover thread: thread_calculateProve.                               *)
(***************************************************************************)

\* json::parse, the input file, popen.
parseMutant ==
    /\ prover = "parse"
    /\ executingInput \notin Malformed
    /\ prover' = "load"
    /\ orphans' = orphans \cup {<<executingCircuit, executingInput>>}
    /\ UNCHANGED <<status, queue, canceled, result, worker, witness, wtnsFile, kills, client, answer>>
parse ==
    /\ prover = "parse"
    /\ executingInput \notin Malformed
    /\ prover' = "generating"
    /\ UNCHANGED <<status, queue, canceled, result, worker, witness, env>>

\* The file after a generator for this input has run: its exit code is
\* printed and not used, and a generator that fails leaves the file alone.
WriteWitnessMutant(circuit, input) ==
    IF circuit \in Provable
    THEN wtnsFile' = [wtnsFile EXCEPT ![circuit] = input]
    ELSE UNCHANGED wtnsFile
WriteWitness(circuit, input) ==
    IF circuit \in Provable /\ input \in Satisfiable
    THEN wtnsFile' = [wtnsFile EXCEPT ![circuit] = input]
    ELSE UNCHANGED wtnsFile

generate ==
    /\ prover = "generating"
    /\ WriteWitness(executingCircuit, executingInput)
    /\ prover' = "load"
    /\ UNCHANGED <<status, queue, canceled, result, worker, witness, orphans, kills, client, answer>>

\* The witness file is there and is not one of this curve and of a known version.
WrongCurve == executingCircuit \in Foreign /\ wtnsFile[executingCircuit] # None

\* openExisting maps the witness file, whoever wrote it; a missing file is a
\* runtime_error, which is caught.
load ==
    /\ prover = "load" /\ ~WrongCurve
    /\ witness' = wtnsFile[executingCircuit]
    /\ prover' = IF witness' = None THEN "catch" ELSE "public"
    /\ UNCHANGED <<status, queue, canceled, result, worker, env>>

\* pubData.clear() and the loop that refills it.
publish ==
    /\ prover = "public"
    /\ pubData' = witness
    /\ prover' = "isCanceled"
    /\ UNCHANGED <<status, queue, canceled, proof, errString, worker, witness, env>>

\* if (!isCanceled()), under the lock.
isCanceled ==
    /\ prover = "isCanceled" /\ ~mtx
    /\ prover' = IF canceled THEN "finish" ELSE "prove"
    /\ proof' = IF canceled THEN None ELSE proof
    /\ UNCHANGED <<status, queue, canceled, pubData, errString, worker, witness, env>>

prove ==
    /\ prover = "prove"
    /\ proof' = witness
    /\ prover' = "finish"
    /\ UNCHANGED <<status, queue, canceled, pubData, errString, worker, witness, env>>

\* catch (std::runtime_error e)
catchMutant ==
    /\ prover = "catch" /\ ~mtx
    /\ errString' = (errString \/ ~canceled)
    /\ prover' = "none"
    /\ UNCHANGED <<status, queue, canceled, proof, pubData, worker, witness, env>>
catch ==
    /\ prover = "catch" /\ ~mtx
    /\ errString' = (errString \/ ~canceled)
    /\ prover' = "finish"
    /\ UNCHANGED <<status, queue, canceled, proof, pubData, worker, witness, env>>

\* The status calcFinished gives.
OutcomeNotAborted == IF errString THEN "failed" ELSE "success"
OutcomeErrorFirst == IF errString THEN "failed" ELSE IF canceled THEN "aborted" ELSE "success"
Outcome == IF canceled THEN "aborted" ELSE IF errString THEN "failed" ELSE "success"

\* calcFinished, under the lock, with its call of checkPending (which finds a
\* pending request only if startProve can store one while a proof is running).
\* The thread ends; its mapping of the witness file goes with it.
calcFinished ==
    /\ prover = "finish" /\ ~mtx
    /\ IF pendingInput # NoInput
       THEN Launch(pendingInput, pendingCircuit)
       ELSE /\ status' = Outcome
            /\ canceled' = FALSE
            /\ executingInput' = NoInput
            /\ prover' = "none"
            /\ UNCHANGED <<pendingInput, pendingCircuit, executingCircuit, errString, proof>>
    /\ witness' = None
    /\ UNCHANGED <<pubData, worker, env>>

-----------------------------------------------------------------------------
(***************************************************************************)
(* The end of the process, and its restart by the service (Restart=always).*)
(***************************************************************************)

\* The server dies and comes back.  A generator that was running goes on.  A
\* client whose request was being handled sees its connection fail and ends; a
\* client between two polls may find the server gone, or back.
Restart ==
    /\ FreshProcess
    /\ orphans' = IF prover = "generating"
                  THEN orphans \cup {<<executingCircuit, executingInput>>}
                  ELSE orphans
    /\ \E failed \in SUBSET {c \in Client : client[c].pc = "waiting"} :
           /\ http.pc = "getStatus" => http.client \in failed
           /\ client' = [c \in Client |-> IF c \in failed THEN Start ELSE client[c]]
    /\ UNCHANGED <<wtnsFile, answer>>

\* json::parse throws parse_error, and a wrong type, version or curve of the witness
\* invalid_argument.  Neither is a runtime_error: std::terminate.
terminate ==
    /\ \/ prover = "parse" /\ executingInput \in Malformed
       \/ prover = "load" /\ WrongCurve
    /\ Restart
    /\ UNCHANGED kills

\* The process is killed.
kill == kills < MaxKills /\ kills' = kills + 1 /\ Restart

\* A generator that outlived its server ends.
orphan_generate(o) ==
    /\ WriteWitness(o[1], o[2])
    /\ orphans' = orphans \ {o}
    /\ UNCHANGED <<status, queue, canceled, result, worker, prover, witness, kills, client, answer>>

-----------------------------------------------------------------------------

Prover == parse \/ generate \/ load \/ publish \/ isCanceled \/ prove \/ catch
            \/ calcFinished \/ terminate

Next ==
    \/ \E c \in Client, input \in Input, circuit \in Circuit : postInput(c, input, circuit)
    \/ postCancel
    \/ \E c \in Client : getStatus(c)
    \/ getStatus_compare
    \/ Prover
    \/ kill
    \/ \E o \in orphans : orphan_generate(o)

\* The scheduler runs every thread that can run, the generator ends, and a
\* client that waits for an answer keeps asking.
Fairness ==
    /\ WF_vars(Prover)
    /\ WF_vars(getStatus_compare)
    /\ \A c \in Client : SF_vars(getStatus(c))

Spec == Init /\ [][Next]_vars /\ Fairness

-----------------------------------------------------------------------------
(***************************************************************************)
(* Properties.                                                             *)
(***************************************************************************)

\* The type invariant.
TypeOK ==
    /\ status \in {"ready", "aborted", "failed", "success", "busy"}
    /\ pendingInput \in Input \cup {NoInput} /\ executingInput \in Input \cup {NoInput}
    /\ pendingCircuit \in Circuit \cup {NoInput} /\ executingCircuit \in Circuit \cup {NoInput}
    /\ canceled \in BOOLEAN /\ errString \in BOOLEAN /\ mtx \in BOOLEAN
    /\ {proof, pubData, witness} \subseteq Satisfiable \cup {None}
    /\ http \in {Idle, Stuck} \cup {Reading(c, k) : c \in Client, k \in 1 .. 5}
    /\ prover \in {"none", "parse", "generating", "load", "public", "isCanceled", "prove",
                   "catch", "finish"}
    /\ wtnsFile \in [Circuit -> Satisfiable \cup {None}]
    /\ orphans \subseteq Circuit \X Input
    /\ kills \in 0 .. MaxKills

\* A successful status comes with a proof, and with the public signals of the
\* same witness, although getStatus reads all three without the lock and a
\* cancel may arrive at any point of the computation.
SuccessHasProof == status = "success" => proof # None /\ pubData = proof

\* Once abort has marked the running proof, the proof ends as aborted, or the
\* process ends: a failure or a result that comes later does not win.
CancelWins ==
    [][canceled /\ status = "busy" /\ status' # "busy" => status' \in {"aborted", "ready"}]_vars

\* A successful answer is about the input the client sent.
AnswerMatchesRequest ==
    \A c \in Client :
        answer[c] # None /\ answer[c].reply.status = "success" =>
            answer[c].reply.proof = answer[c].input /\ answer[c].reply.pubData = answer[c].input

\* Every client that waits for its proof is answered at last.
PollingEnds == \A c \in Client : client[c].pc = "waiting" ~> client[c].pc = "start"

=============================================================================
