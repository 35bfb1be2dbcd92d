---------------------------- MODULE Groth16Prover ---------------------------
(***************************************************************************)
(* Groth16::Prover::prove, src/groth16.cpp, run by the threads of the pool *)
(* of ffiasm, while other threads of the process use the same pool.        *)
(*                                                                         *)
(* The loop over the coefficients of the matrices A and B is the one place *)
(* where threads write to the same elements: each coefficient is           *)
(* multiplied with its signal and added to a row of a or b, under one of   *)
(* NLOCKS mutexes shared by all rows.  It and the loop before it, which    *)
(* clears a and b, are run by the pool step by step.  In the other         *)
(* parallel loops an element belongs to one thread, and the loops up to    *)
(* the next of the two are one step.                                       *)
(***************************************************************************)
EXTENDS Groth16, ThreadPool

CONSTANTS
    coefs,          \* the entries of A and B in the order of the proving key
    Witness,        \* the witnesses that may be given
    Stale,          \* what new leaves in an element of an array
    Random,         \* what randombytes_buf may give
    NLOCKS,
    Prover,         \* the caller that runs prove
    rivalCount      \* how many elements the loops of other callers have

Rival == Caller \ {Prover}
nCoefs == Len(coefs)

ASSUME ProverAssumption ==
    /\ coefs \in Seq({e \in Matrix : e.m # 2}) \ {<<>>}
    /\ Witness \subseteq [Signal -> Fr]
    /\ Stale \in Fr /\ Random \subseteq Fr
    /\ NLOCKS \in Nat \ {0}
    /\ Prover \in Caller
    /\ rivalCount \in Nat \ {0}
    /\ Caller \cap {"initialize", "processing coefs"} = {}
    /\ None \notin [of : {"initialize", "processing coefs"} \cup Caller, begin : Nat, end : Nat]

\* The proving key holds every entry of A and B once.
ASSUME KeyAssumption ==
    /\ \A e \in Matrix : e.m # 2 => \E i \in 1 .. nCoefs : coefs[i] = e
    /\ \A i, j \in 1 .. nCoefs : coefs[i] = coefs[j] => i = j

VARIABLES
    pc,         \* where the thread that called prove is
    wtns,       \* the witness
    exps,       \* the first four multiexponentiations
    ab,         \* the arrays a (0), b (1) and c (2)
    locks,      \* for each mutex, the thread that holds it or None
    proof,      \* the proof
    pairs,      \* the pairs pairingCheck has yet to take
    acc,        \* the product of the pairings it has taken
    valid,      \* what groth16_verify says of the proof
    rivals      \* the other callers that have yet to call

verifyVars == <<pairs, acc, valid>>
proveVars == <<pc, wtns, exps, proof, verifyVars>>
vars == <<poolVars, proveVars, ab, locks, rivals>>

-----------------------------------------------------------------------------

Init ==
    /\ PoolInit
    /\ pc = "multiexp"
    /\ wtns \in Witness
    /\ exps = None
    /\ ab = [m \in 0 .. 2 |-> [c \in Row |-> Stale]]
    /\ locks = [k \in 0 .. NLOCKS - 1 |-> None]
    /\ proof = None
    /\ pairs = <<>> /\ acc = f12!one /\ valid = None
    /\ rivals = Rival

multiexp ==
    /\ pc = "multiexp" /\ pc' = "initialize"
    /\ exps' = Multiexps(wtns)
    /\ UNCHANGED <<poolVars, wtns, ab, locks, proof, verifyVars, rivals>>

\* The calls of parallelFor for the two loops, and their returns.
Loop(name, inside, n) ==
    /\ pc = name /\ pc' = inside
    /\ parallelFor(Prover, name, n)
    /\ UNCHANGED <<wtns, exps, ab, locks, proof, verifyVars, rivals>>

LoopDone(inside, next) ==
    /\ pc = inside /\ pc' = next
    /\ call[Prover].at = "outside"
    /\ UNCHANGED <<poolVars, wtns, exps, ab, locks, proof, verifyVars, rivals>>

\* A thread goes on to the next element of its range, or has ended it.
Advanced(t) ==
    IF running[t].i = running[t].end THEN Finished
    ELSE [at |-> "start", of |-> running[t].of, i |-> running[t].i + 1, end |-> running[t].end]
To1(t, state) == running' = [running EXCEPT ![t] = state]
PoolIdle == UNCHANGED <<poolMutex, queue, call, mutex, job, worker, stop>>

\* One iteration of "Initializing a b c A": element i is row i - 1.
clearMutant(t) ==
    /\ running[t].at = "start" /\ running[t].of = "initialize"
    /\ ab' = [ab EXCEPT ![0][running[t].i - 1] = 0]
    /\ To1(t, Advanced(t))
    /\ PoolIdle /\ UNCHANGED <<proveVars, locks, rivals>>
clear(t) ==
    /\ running[t].at = "start" /\ running[t].of = "initialize"
    /\ ab' = [ab EXCEPT ![0][running[t].i - 1] = 0, ![1][running[t].i - 1] = 0]
    /\ To1(t, Advanced(t))
    /\ PoolIdle /\ UNCHANGED <<proveVars, locks, rivals>>

\* E.fr.mul of the signal and the coefficient, which the proving key holds
\* multiplied by Radix twice, for every witness.
aux == [w \in Witness |-> [i \in 1 .. nCoefs |->
           rawMMul(w[coefs[i].s], rawToMontgomery(rawToMontgomery(coefs[i].coef)))]]
LockOfMutant(e) == e.s % NLOCKS
LockOf(e) == e.c % NLOCKS

\* One iteration of "Processing coefs".  The product is made before the mutex is
\* taken.
lock(t) ==
    /\ running[t].at = "start" /\ running[t].of = "processing coefs"
    /\ locks[LockOf(coefs[running[t].i])] = None
    /\ locks' = [locks EXCEPT ![LockOf(coefs[running[t].i])] = t]
    /\ To1(t, [at |-> "load", of |-> running[t].of, i |-> running[t].i, end |-> running[t].end])
    /\ PoolIdle /\ UNCHANGED <<proveVars, ab, rivals>>

\* E.fr.add reads the element
load(t) ==
    /\ running[t].at = "load"
    /\ LET e == coefs[running[t].i]
       IN  To1(t, [at |-> "store", of |-> running[t].of, i |-> running[t].i, end |-> running[t].end,
                   sum |-> rawAdd(ab[e.m][e.c], aux[wtns][running[t].i])])
    /\ PoolIdle /\ UNCHANGED <<proveVars, ab, locks, rivals>>

\* and writes the sum; the guard gives the mutex back at the end of the iteration.
store(t) ==
    /\ running[t].at = "store"
    /\ LET e == coefs[running[t].i]
       IN  /\ ab' = [ab EXCEPT ![e.m][e.c] = running[t].sum]
           /\ locks' = [locks EXCEPT ![LockOf(e)] = None]
    /\ To1(t, Advanced(t))
    /\ PoolIdle /\ UNCHANGED <<proveVars, rivals>>

\* Another thread calls parallelFor; what its loop does is of no concern to prove.
rivalCall(c) ==
    /\ c \in rivals /\ rivals' = rivals \ {c}
    /\ parallelFor(c, c, rivalCount)
    /\ UNCHANGED <<proveVars, ab, locks>>

rivalBody(t) ==
    /\ running[t].at = "start" /\ running[t].of \in Rival
    /\ To1(t, Advanced(t))
    /\ PoolIdle /\ UNCHANGED <<proveVars, ab, locks, rivals>>

\* "Calculating c", and the inverse transforms and the shifts of the three arrays.
shift ==
    /\ pc = "shift" /\ pc' = "fft"
    /\ ab' = [m \in 0 .. 2 |-> Shift(IF m = 2 THEN [i \in Row |-> rawMMul(ab[0][i], ab[1][i])]
                                               ELSE ab[m])]
    /\ UNCHANGED <<poolVars, wtns, exps, locks, proof, verifyVars, rivals>>

\* The transforms, and "Start ABC".
transform ==
    /\ pc = "fft" /\ pc' = "multiexp H"
    /\ LET t == [m \in 0 .. 2 |-> fft(ab[m], domainSize)]
       IN  ab' = [ab EXCEPT ![0] = Abc(t[0], t[1], t[2])]
    /\ UNCHANGED <<poolVars, wtns, exps, locks, proof, verifyVars, rivals>>

\* From "Start Multiexp H" to the end of prove.
assemble(r, s) ==
    /\ pc = "multiexp H" /\ pc' = "verify"
    /\ proof' = Assemble(exps, g1!multiMulByScalarMSM(pointsH, ab[0], domainSize), r, s)
    /\ UNCHANGED <<poolVars, wtns, exps, ab, locks, verifyVars, rivals>>

\* groth16_verify, given the proof and the public signals the prover wrote: the
\* pairs,
verify ==
    /\ pc = "verify" /\ pc' = "pairingCheck"
    /\ pairs' = verifyPairs(proof, BuildPublicString(wtns))
    /\ acc' = f12!one
    /\ UNCHANGED <<poolVars, wtns, exps, ab, locks, proof, valid, rivals>>

\* and pairingCheck, one pairing at a time, with the final exponentiation.
pairingCheck ==
    /\ pc = "pairingCheck"
    /\ IF pairs # <<>>
       THEN /\ acc' = Paired(acc, Head(pairs)[1], Head(pairs)[2])
            /\ pairs' = Tail(pairs)
            /\ UNCHANGED <<pc, valid>>
       ELSE /\ valid' = (FinalExponentiation(acc) = f12!one)
            /\ pc' = "done"
            /\ UNCHANGED <<pairs, acc>>
    /\ UNCHANGED <<poolVars, wtns, exps, ab, locks, proof, rivals>>

-----------------------------------------------------------------------------

\* The steps of prove outside of parallelFor.
Prove ==
    \/ multiexp
    \/ Loop("initialize", "initializing", domainSize)
    \/ LoopDone("initializing", "processing coefs")
    \/ Loop("processing coefs", "summing", nCoefs)
    \/ LoopDone("summing", "shift")
    \/ shift
    \/ transform
    \/ \E r, s \in Random : assemble(r, s)
    \/ verify
    \/ pairingCheck

Body(t) == clear(t) \/ lock(t) \/ load(t) \/ store(t) \/ rivalBody(t)

\* The steps of the pool change nothing else.
OfPool == UNCHANGED <<proveVars, ab, locks, rivals>>

CallerStep(c) ==
    \/ Body(c)
    \/ (unsafePush(c) \/ submit(c) \/ notifyOccupied(c) \/ callerTryPop(c) \/ waitWorker(c)) /\ OfPool

WorkerStep(w) ==
    \/ Body(w)
    \/ (lockMutex(w) \/ checkOccupied(w) \/ waitOccupied(w) \/ workerTryPop(w) \/ notifyFinished(w)) /\ OfPool

Next ==
    \/ Prove
    \/ \E c \in Rival : rivalCall(c)
    \/ \E c \in Caller : CallerStep(c) \/ (wakeCaller(c) /\ OfPool)
    \/ \E w \in Worker : WorkerStep(w) \/ (wakeWorker(w) /\ OfPool)
    \/ pc = "done" /\ rivals = {} /\ \E w \in Worker : destroyWorker(w) /\ OfPool

\* The scheduler runs every thread.  A worker whose waits end without a notify takes
\* its mutex again and again, and a caller that wants it gets it in the end.
Fairness ==
    /\ \A c \in Caller : SF_vars(CallerStep(c))
    /\ \A w \in Worker : WF_vars(WorkerStep(w))

Spec == Init /\ [][Next]_vars
FairSpec == Spec /\ Fairness

-----------------------------------------------------------------------------
(***************************************************************************)
(* Properties.                                                             *)
(***************************************************************************)

\* The element that a thread between E.fr.add's read and its write is about to
\* replace.
Target(t) == <<coefs[running[t].i].m, coefs[running[t].i].c>>

\* Two threads of the loop over the coefficients are never both between reading
\* and writing the same element of a or b, although the mutexes are fewer than
\* the rows: no term is lost.
OneWriter ==
    \A t, v \in Thread :
        t # v /\ running[t].at = "store" /\ running[v].at = "store" => Target(t) # Target(v)

\* When parallelFor returns, a and b hold, in the form of Montgomery, the values
\* of the matrices for this witness.
SumsComplete ==
    pc = "shift" =>
        \A m \in {0, 1}, c \in Row :
            rawFromMontgomery(ab[m][c]) =
                Total(LAMBDA e : e.coef * wtns[e.s], {e \in Matrix : e.m = m /\ e.c = c})

\* Whatever the threads' order and the random scalars, Verifier::verify accepts
\* what Prover::prove made exactly if the witness satisfies the constraints.
VerifiesIffSatisfied == pc = "done" => valid = Satisfied(wtns)

\* parallelFor returns, whoever else uses the pool.
ParallelForReturns ==
    \A c \in Caller : call[c].at # "outside" ~> call[c].at = "outside"

=============================================================================
