------------------------ MODULE Groth16ProverProofs -------------------------
(***************************************************************************)
(* The pool and the mutexes of Prover::prove do their work for every       *)
(* number of threads, callers, ranges and mutexes and for every list of    *)
(* coefficients.                                                           *)
(*                                                                         *)
(* The proof does not depend on the mutex of a worker: what keeps a job    *)
(* from outliving its call is that a worker gives up its own job only when *)
(* it has found the queue empty, and that the caller waits for that of     *)
(* every worker it submitted to.                                           *)
(*                                                                         *)
(* That the sums in a and b come out right rests on three facts more: the  *)
(* raw field computes what Montgomery's form says, for every size of its   *)
(* limbs; every element of a loop is at one place until a thread is done   *)
(* with it; and a row holds the sum of what the threads are done with.     *)
(***************************************************************************)
EXTENDS Groth16Prover, SequenceTheorems, NaturalFacts, TLAPS

\* The functions that are given to parallelFor, and their numbers of elements.
Func == {"initialize", "processing coefs"} \cup Caller
Elements(f) ==
    IF f = "initialize" THEN domainSize ELSE IF f = "processing coefs" THEN nCoefs ELSE rivalCount

\* The jobs that divideWork can make of a loop.
Job(f) == {j \in [of : {f}, begin : 1 .. Elements(f), end : 1 .. Elements(f)] : j.begin <= j.end}
AnyJob == [of : Func, begin : Nat, end : Nat]

\* A call of parallelFor that has not returned: k indexes what it should.
Inside == {"push", "submit", "notify", "run", "wait", "sleep"}
InCall(s) ==
    /\ s \in [at : Inside, f : Func, jobs : Seq(AnyJob), threadCount : Nat, k : Nat]
    /\ \A i \in 1 .. Len(s.jobs) : s.jobs[i] \in Job(s.f)
    /\ s.threadCount \in 1 .. Len(s.jobs)
    /\ s.at = "push" => s.k >= 1
    /\ s.at = "submit" => s.k <= s.threadCount - 1
    /\ s.at = "notify" => s.k < s.threadCount - 1

CallsOK ==
    /\ DOMAIN call = Caller
    /\ \A c \in Caller : call[c] = Outside \/ InCall(call[c])

\* Who holds the mutex of the pool is in parallelFor, and nobody else is.
Exclusive ==
    /\ poolMutex # None => poolMutex \in Caller /\ call[poolMutex].at # "outside"
    /\ \A c \in Caller : call[c].at # "outside" => poolMutex = c

\* The caller s has submitted to w and has not yet seen that w is done.
Awaits(s, w) ==
    /\ s.at # "outside" /\ s.at # "push"
    /\ w < s.threadCount - 1
    /\ s.at = "submit" => w < s.k
    /\ s.at = "notify" => w <= s.k
    /\ s.at \in {"wait", "sleep"} => s.k <= w

\* A worker's job is one of the call in progress, and a worker that runs anything
\* has its job still.
JobsOK ==
    /\ DOMAIN job = Worker /\ DOMAIN worker = Worker
    /\ \A w \in Worker :
         /\ job[w] # None => /\ poolMutex # None
                             /\ job[w] \in Job(call[poolMutex].f)
                             /\ Awaits(call[poolMutex], w)
         /\ worker[w] = "run" => job[w] # None
         /\ running[w] # Finished => worker[w] = "run"

\* A thread at an element of a range.
InRange(r, f) ==
    /\ r.at \in {"start", "load", "store"}
    /\ r.at # "start" => f = "processing coefs"
    /\ r.of = f
    /\ r.i \in 1 .. Elements(f) /\ r.end \in 1 .. Elements(f) /\ r.i <= r.end

RunningOK ==
    /\ DOMAIN running = Thread
    /\ \A t \in Thread : running[t] # Finished =>
           poolMutex # None /\ InRange(running[t], call[poolMutex].f)
    /\ \A c \in Caller : running[c] # Finished => call[c].at = "run"

\* The queue is empty when the caller begins to wait.
QueueOK ==
    /\ queue \in Seq(AnyJob)
    /\ queue # <<>> =>
         /\ poolMutex # None
         /\ call[poolMutex].at \notin {"wait", "sleep"}
         /\ \A i \in 1 .. Len(queue) : queue[i] \in Job(call[poolMutex].f)

\* A thread that is reading or writing an element holds the mutex of its row.
LocksHeld ==
    /\ DOMAIN locks = 0 .. NLOCKS - 1
    /\ \A t \in Thread : running[t].at \in {"load", "store"} =>
           locks[LockOf(coefs[running[t].i])] = t

IndInv == CallsOK /\ Exclusive /\ JobsOK /\ RunningOK /\ QueueOK /\ LocksHeld

-----------------------------------------------------------------------------

LEMMA CountTypes ==
    /\ nCoefs \in Nat \ {0}
    /\ \A f : Elements(f) \in Nat \ {0}
    /\ \A f : Job(f) \subseteq [of : {f}, begin : Nat, end : Nat]
<1>1. nCoefs \in Nat \ {0}
  BY ProverAssumption, LenProperties, EmptySeq DEF nCoefs
<1>2. \A f : Elements(f) \in Nat \ {0}
  BY <1>1, ProverAssumption, Groth16Assumption DEF Elements
<1>3. QED
  BY <1>1, <1>2 DEF Job

\* Workers are numbers, and callers are none.
LEMMA ThreadTypes ==
    /\ Worker \subseteq Int /\ Worker \cap Caller = {}
    /\ None \notin Worker /\ None \notin Caller
    /\ Thread = Worker \cup Caller
BY PoolAssumption DEF Worker, Thread

\* What the mutexes are for: a row has one.
LEMMA LockOfType ==
    ASSUME NEW i \in 1 .. nCoefs
    PROVE  LockOf(coefs[i]) \in 0 .. NLOCKS - 1
<1>1. coefs[i] \in Matrix
  <2>1. coefs \in Seq({e \in Matrix : e.m # 2})
    BY ProverAssumption
  <2>2. QED
    BY <2>1, ElementOfSeq DEF nCoefs
<1>2. coefs[i].c \in Int
  BY <1>1, Groth16Assumption DEF Row
<1>3. NLOCKS \in Nat \ {0}
  BY ProverAssumption
<1>4. QED
  BY <1>2, <1>3 DEF LockOf

LEMMA TimesMonotone ==
    ASSUME NEW i \in Nat, NEW k \in Nat, NEW q \in Nat, i <= k
    PROVE  i * q \in Nat /\ i * q <= k * q
<1>1. PICK d \in Nat : k = i + d
  <2>1. k - i \in Nat /\ k = i + (k - i)
    OBVIOUS
  <2>2. QED
    BY <2>1
<1>2. k * q = i * q + d * q
  BY <1>1
<1>3. i * q \in Nat /\ d * q \in Nat
  OBVIOUS
<1>4. QED
  BY <1>2, <1>3

\* divideWork gives at least one job, and every one is a range that is not empty.
LEMMA DivideWorkRanges ==
    ASSUME NEW f, NEW n \in Nat \ {0}
    PROVE  /\ Len(divideWork(f, n)) = chunkCount(n)
           /\ chunkCount(n) \in Nat \ {0}
           /\ \A i \in 1 .. chunkCount(n) :
                /\ divideWork(f, n)[i] = [of |-> f, begin |-> RangeEnd(i - 1, n) + 1, end |-> RangeEnd(i, n)]
                /\ RangeEnd(i, n) \in 1 .. n /\ RangeEnd(i - 1, n) + 1 \in 1 .. n
                /\ RangeEnd(i - 1, n) + 1 <= RangeEnd(i, n)
<1>1. chunkCount(n) \in Nat /\ chunkCount(n) >= 1 /\ chunkCount(n) <= n
  <2>1. nThreads * chunksPerThread \in Nat /\ nThreads * chunksPerThread >= 1
    BY PoolAssumption
  <2>2. QED
    BY <2>1 DEF chunkCount
<1>2. ASSUME NEW i \in 1 .. chunkCount(n)
      PROVE  RangeEnd(i, n) \in 1 .. n /\ RangeEnd(i - 1, n) + 1 \in 1 .. n
               /\ RangeEnd(i - 1, n) + 1 <= RangeEnd(i, n)
  <2> DEFINE q == minJobSize(n)
             rest == elementRest(n)
             count == chunkCount(n)
  <2>1. q \in Nat /\ rest \in 0 .. count - 1 /\ n = count * q + rest
    <3>1. \A d \in Nat \ {0} : n \div d \in Nat /\ n % d \in 0 .. d - 1 /\ n = d * (n \div d) + (n % d)
      OBVIOUS
    <3>2. chunkCount(n) \in Nat \ {0}
      BY <1>1
    <3>3. QED
      BY <3>1, <3>2, Zenon DEF minJobSize, elementRest
  <2>2. RangeEnd(i, n) = i * q + (IF i < rest THEN i ELSE rest)
    BY DEF RangeEnd
  <2>3. RangeEnd(i - 1, n) = (i - 1) * q + (IF i - 1 < rest THEN i - 1 ELSE rest)
    BY DEF RangeEnd
  <2>4. count \in Nat /\ count >= 1 /\ count <= n /\ i \in 1 .. count
    BY <1>1
  <2> HIDE DEF q, rest, count
  <2>5. q >= 1
    <3> SUFFICES ASSUME q = 0 PROVE FALSE
      BY <2>1
    <3>1. count * q = 0
      BY <2>4
    <3>2. QED
      BY <2>1, <2>4, <3>1
  <2>6. i * q \in Nat /\ i * q <= count * q
    BY <2>1, <2>4, TimesMonotone
  <2>7. (i - 1) * q \in Nat /\ i * q = (i - 1) * q + q
    <3>1. i - 1 \in Nat /\ i = (i - 1) + 1
      BY <2>4
    <3>2. (i - 1) * q \in Nat
      BY <2>1, <3>1, TimesMonotone
    <3>3. QED
      BY <2>1, <3>1, <3>2
  <2>8. QED
    BY <2>1, <2>2, <2>3, <2>4, <2>5, <2>6, <2>7
<1>3. QED
  BY <1>1, <1>2 DEF divideWork

-----------------------------------------------------------------------------
(***************************************************************************)
(* Steps of a caller.                                                      *)
(***************************************************************************)

\* A caller inside parallelFor is the only one.
LEMMA Owner ==
    ASSUME IndInv, NEW c \in Caller, call[c].at # "outside"
    PROVE  /\ poolMutex = c /\ InCall(call[c])
           /\ \A d \in Caller : d # c => call[d].at = "outside"
BY DEF IndInv, CallsOK, Exclusive, Outside

\* What a caller that goes on keeps.
LEMMA Moved ==
    ASSUME CallsOK, NEW c \in Caller, InCall(call[c]), NEW at \in Inside, NEW k \in Nat, To(c, at, k),
           at = "push" => k >= 1,
           at = "submit" => k <= call[c].threadCount - 1,
           at = "notify" => k < call[c].threadCount - 1
    PROVE  /\ CallsOK'
           /\ call'[c].at = at /\ call'[c].k = k /\ at # "outside"
           /\ call'[c].f = call[c].f /\ call'[c].jobs = call[c].jobs
           /\ call'[c].threadCount = call[c].threadCount
           /\ \A d \in Caller : d # c => call'[d] = call[d]
<1>1. call' = [call EXCEPT ![c] = [call[c] EXCEPT !.at = at, !.k = k]]
  BY DEF To
<1>2. call'[c] = [call[c] EXCEPT !.at = at, !.k = k] /\ DOMAIN call' = Caller
        /\ \A d \in Caller : d # c => call'[d] = call[d]
  BY <1>1 DEF CallsOK
<1>3. call[c] \in [at : Inside, f : Func, jobs : Seq(AnyJob), threadCount : Nat, k : Nat]
  BY DEF InCall
<1>4. /\ call'[c] \in [at : Inside, f : Func, jobs : Seq(AnyJob), threadCount : Nat, k : Nat]
      /\ call'[c].at = at /\ call'[c].k = k
      /\ call'[c].f = call[c].f /\ call'[c].jobs = call[c].jobs
      /\ call'[c].threadCount = call[c].threadCount
  BY <1>2, <1>3
<1>5. InCall(call'[c])
  BY <1>4 DEF InCall
<1>6. at # "outside"
  BY DEF Inside
<1>7. QED
  BY <1>2, <1>4, <1>5, <1>6 DEF CallsOK

\* A job that starts is at the first element of its range.
LEMMA StartingInRange ==
    ASSUME NEW f, NEW j \in Job(f)
    PROVE  InRange(Starting(j), f) /\ Starting(j) # Finished /\ Starting(j).at = "start"
BY CountTypes DEF Job, InRange, Starting, Finished

\* Nobody in the pool has anything of a call before it begins.
LEMMA parallelForStep ==
    ASSUME IndInv, NEW c \in Caller, NEW f \in Func, parallelFor(c, f, Elements(f)), UNCHANGED locks
    PROVE  IndInv'
<1> DEFINE n == Elements(f)
           jobs == divideWork(f, n)
           threadCount == IF nThreads < Len(jobs) THEN nThreads ELSE Len(jobs)
           s == [at |-> "push", f |-> f, jobs |-> jobs, threadCount |-> threadCount,
                 k |-> threadCount + 1]
<1>1. /\ call[c].at = "outside" /\ poolMutex = None /\ poolMutex' = c
      /\ call' = [call EXCEPT ![c] = s]
      /\ UNCHANGED <<queue, mutex, job, worker, stop, running, locks>>
  BY DEF parallelFor
<1>2. n \in Nat \ {0}
  BY CountTypes
<1>3. /\ Len(jobs) \in Nat \ {0} /\ jobs \in Seq(AnyJob)
      /\ \A i \in 1 .. Len(jobs) : jobs[i] \in Job(f)
  <2>1. Len(jobs) \in Nat \ {0}
    BY <1>2, DivideWorkRanges
  <2>2. ASSUME NEW i \in 1 .. Len(jobs)
        PROVE  jobs[i] \in Job(f)
    <3>1. i \in 1 .. chunkCount(n)
      BY <1>2, DivideWorkRanges
    <3>2. /\ jobs[i] = [of |-> f, begin |-> RangeEnd(i - 1, n) + 1, end |-> RangeEnd(i, n)]
          /\ RangeEnd(i, n) \in 1 .. n /\ RangeEnd(i - 1, n) + 1 \in 1 .. n
          /\ RangeEnd(i - 1, n) + 1 <= RangeEnd(i, n)
      BY <1>2, <3>1, DivideWorkRanges
    <3>3. QED
      BY <3>2 DEF Job
  <2>3. Job(f) \subseteq AnyJob
    BY CountTypes DEF AnyJob
  <2>4. jobs = [i \in 1 .. Len(jobs) |-> jobs[i]]
    BY <1>2, DivideWorkRanges DEF divideWork
  <2> HIDE DEF jobs
  <2>5. jobs \in Seq(AnyJob)
    BY <2>1, <2>2, <2>3, <2>4
  <2>6. QED
    BY <2>1, <2>2, <2>5
<1> HIDE DEF jobs, n
<1>4. threadCount \in 1 .. Len(jobs)
  BY <1>3, PoolAssumption
<1> HIDE DEF threadCount
<1>5. InCall(s)
  BY <1>3, <1>4 DEF InCall, Inside
<1>6. call'[c] = s /\ call'[c].at # "outside" /\ DOMAIN call' = Caller
        /\ \A d \in Caller : d # c => call'[d] = call[d]
  BY <1>1 DEF IndInv, CallsOK
<1>7. CallsOK'
  BY <1>5, <1>6 DEF IndInv, CallsOK
<1>8. Exclusive'
  <2>1. \A d \in Caller : call[d].at = "outside"
    BY <1>1, ThreadTypes DEF IndInv, Exclusive
  <2>2. QED
    BY <1>1, <1>6, <2>1 DEF Exclusive
<1>9. JobsOK'
  BY <1>1 DEF IndInv, JobsOK
<1>10. RunningOK'
  BY <1>1, ThreadTypes DEF IndInv, RunningOK
<1>11. QueueOK'
  BY <1>1 DEF IndInv, QueueOK
<1>12. LocksHeld'
  BY <1>1 DEF IndInv, LocksHeld
<1>13. QED
  BY <1>7, <1>8, <1>9, <1>10, <1>11, <1>12 DEF IndInv

LEMMA unsafePushStep ==
    ASSUME IndInv, NEW c \in Caller, unsafePush(c), UNCHANGED locks
    PROVE  IndInv'
<1>1. call[c].at = "push" /\ UNCHANGED <<poolMutex, mutex, job, worker, stop, running, locks>>
  BY DEF unsafePush
<1>2. poolMutex = c /\ InCall(call[c]) /\ \A d \in Caller : d # c => call[d].at = "outside"
  BY <1>1, Owner
<1>3. call[c].k \in Nat /\ call[c].k >= 1 /\ call[c].threadCount \in 1 .. Len(call[c].jobs)
        /\ call[c].jobs \in Seq(AnyJob) /\ Len(call[c].jobs) \in Nat
  BY <1>1, <1>2, LenProperties DEF InCall
<1>4. /\ CallsOK' /\ call'[c].f = call[c].f /\ call'[c].at \in {"push", "submit"}
      /\ \A d \in Caller : d # c => call'[d] = call[d]
  <2>1. CASE call[c].k <= Len(call[c].jobs)
    <3>1. To(c, "push", call[c].k + 1)
      BY <2>1 DEF unsafePush
    <3>2. QED
      BY <1>2, <1>3, <3>1, Moved DEF IndInv, Inside
  <2>2. CASE ~(call[c].k <= Len(call[c].jobs))
    <3>1. To(c, "submit", 0)
      BY <2>2 DEF unsafePush
    <3>2. QED
      BY <1>2, <1>3, <3>1, Moved DEF IndInv, Inside
  <2>3. QED
    BY <2>1, <2>2
<1>5. Exclusive'
  BY <1>1, <1>2, <1>4 DEF IndInv, Exclusive
<1>6. \A w \in Worker : job[w] = None
  BY <1>1, <1>2 DEF IndInv, JobsOK, Awaits
<1>7. JobsOK'
  BY <1>1, <1>6 DEF IndInv, JobsOK
<1>8. \A d \in Caller : running[d] = Finished
  BY <1>1, <1>2 DEF IndInv, RunningOK
<1>9. RunningOK'
  BY <1>1, <1>2, <1>4, <1>8 DEF IndInv, RunningOK
<1>10. QueueOK'
  <2>1. queue \in Seq(AnyJob) /\ \A i \in 1 .. Len(queue) : queue[i] \in Job(call[c].f)
    BY <1>2, EmptySeq DEF IndInv, QueueOK
  <2>2. queue' \in Seq(AnyJob) /\ \A i \in 1 .. Len(queue') : queue'[i] \in Job(call[c].f)
    <3>1. CASE call[c].k <= Len(call[c].jobs)
      <4>1. queue' = Append(queue, call[c].jobs[call[c].k])
        BY <3>1 DEF unsafePush
      <4>2. call[c].jobs[call[c].k] \in AnyJob /\ call[c].jobs[call[c].k] \in Job(call[c].f)
        BY <1>2, <1>3, <3>1 DEF InCall
      <4>3. QED
        BY <2>1, <4>1, <4>2
    <3>2. CASE ~(call[c].k <= Len(call[c].jobs))
      BY <2>1, <3>2 DEF unsafePush
    <3>3. QED
      BY <3>1, <3>2
  <2>3. QED
    BY <1>1, <1>2, <1>4, <2>2, ThreadTypes DEF QueueOK
<1>11. LocksHeld'
  BY <1>1 DEF IndInv, LocksHeld
<1>12. QED
  BY <1>4, <1>5, <1>7, <1>9, <1>10, <1>11 DEF IndInv

\* A caller goes on, and nobody's job, range or queue changes.
LEMMA OnlyMoved ==
    ASSUME IndInv, NEW c \in Caller, call[c].at # "outside",
           NEW at \in Inside, NEW k \in Nat, To(c, at, k),
           at = "push" => k >= 1,
           at = "submit" => k <= call[c].threadCount - 1,
           at = "notify" => k < call[c].threadCount - 1,
           UNCHANGED <<poolMutex, queue, job, running, locks>>,
           DOMAIN worker' = Worker, \A w \in Worker : worker'[w] = "run" <=> worker[w] = "run",
           \A w \in Worker : job[w] # None => Awaits(call'[c], w),
           running[c] # Finished => at = "run",
           queue # <<>> => at \notin {"wait", "sleep"}
    PROVE  IndInv'
<1>1. poolMutex = c /\ InCall(call[c]) /\ \A d \in Caller : d # c => call[d].at = "outside"
  BY Owner
<1>2. /\ CallsOK' /\ call'[c].f = call[c].f /\ call'[c].at = at /\ at # "outside"
      /\ \A d \in Caller : d # c => call'[d] = call[d]
  BY <1>1, Moved DEF IndInv
<1>3. Exclusive'
  BY <1>1, <1>2 DEF IndInv, Exclusive
<1>4. JobsOK'
  BY <1>1, <1>2 DEF IndInv, JobsOK
<1>5. RunningOK'
  BY <1>1, <1>2 DEF IndInv, RunningOK
<1>6. QueueOK'
  BY <1>1, <1>2 DEF IndInv, QueueOK
<1>7. LocksHeld'
  BY DEF IndInv, LocksHeld
<1>8. QED
  BY <1>2, <1>3, <1>4, <1>5, <1>6, <1>7 DEF IndInv

LEMMA notifyOccupiedStep ==
    ASSUME IndInv, NEW c \in Caller, notifyOccupied(c), UNCHANGED locks
    PROVE  IndInv'
<1>1. /\ call[c].at = "notify" /\ To(c, "submit", call[c].k + 1)
      /\ UNCHANGED <<poolMutex, queue, job, running, locks>>
  BY DEF notifyOccupied
<1>2. InCall(call[c]) /\ poolMutex = c
  BY <1>1, Owner
<1>3. call[c].k \in Nat /\ call[c].threadCount \in Nat
  BY <1>2 DEF InCall
<1>4. call[c].k + 1 <= call[c].threadCount - 1
  BY <1>1, <1>2 DEF InCall
<1>5. /\ call'[c].at = "submit" /\ call'[c].k = call[c].k + 1
      /\ call'[c].threadCount = call[c].threadCount
  BY <1>1, <1>2, <1>3, <1>4, Moved DEF IndInv, Inside
<1>6. DOMAIN worker' = Worker /\ \A w \in Worker : worker'[w] = "run" <=> worker[w] = "run"
  BY DEF notifyOccupied, Notified, IndInv, JobsOK
<1>7. \A w \in Worker : job[w] # None => Awaits(call'[c], w)
  BY <1>1, <1>2, <1>3, <1>5, ThreadTypes DEF IndInv, JobsOK, Awaits
<1>8. running[c] = Finished
  BY <1>1 DEF IndInv, RunningOK
<1>9. QED
  BY <1>1, <1>3, <1>4, <1>6, <1>7, <1>8, OnlyMoved DEF Inside

LEMMA wakeCallerStep ==
    ASSUME IndInv, NEW c \in Caller, wakeCaller(c), UNCHANGED locks
    PROVE  IndInv'
<1>1. /\ call[c].at = "sleep" /\ To(c, "wait", call[c].k)
      /\ UNCHANGED <<poolMutex, queue, job, running, worker, locks>>
  BY DEF wakeCaller
<1>2. InCall(call[c]) /\ poolMutex = c
  BY <1>1, Owner
<1>3. call[c].k \in Nat
  BY <1>2 DEF InCall
<1>4. /\ call'[c].at = "wait" /\ call'[c].k = call[c].k
      /\ call'[c].threadCount = call[c].threadCount
  BY <1>1, <1>2, <1>3, Moved DEF IndInv, Inside
<1>5. \A w \in Worker : job[w] # None => Awaits(call'[c], w)
  BY <1>1, <1>2, <1>4 DEF IndInv, JobsOK, Awaits
<1>6. running[c] = Finished /\ queue = <<>>
  BY <1>1, <1>2, ThreadTypes DEF IndInv, RunningOK, QueueOK
<1>7. DOMAIN worker' = Worker /\ \A w \in Worker : worker'[w] = "run" <=> worker[w] = "run"
  BY <1>1 DEF IndInv, JobsOK
<1>8. QED
  BY <1>1, <1>3, <1>5, <1>6, <1>7, OnlyMoved DEF Inside

LEMMA submitStep ==
    ASSUME IndInv, NEW c \in Caller, submit(c), UNCHANGED locks
    PROVE  IndInv'
<1>1. call[c].at = "submit" /\ UNCHANGED <<poolMutex, queue, mutex, worker, stop, locks>>
  BY DEF submit
<1>2. poolMutex = c /\ InCall(call[c]) /\ \A d \in Caller : d # c => call[d].at = "outside"
  BY <1>1, Owner
<1>3. /\ call[c].k \in Nat /\ call[c].k <= call[c].threadCount - 1
      /\ call[c].threadCount \in 1 .. Len(call[c].jobs)
      /\ call[c].jobs \in Seq(AnyJob) /\ Len(call[c].jobs) \in Nat
  BY <1>1, <1>2, LenProperties DEF InCall
<1>4. call[c].jobs[call[c].k + 1] \in Job(call[c].f)
  BY <1>2, <1>3 DEF InCall
<1> DEFINE j == call[c].jobs[call[c].k + 1]
           k == call[c].k
<1>5. running[c] = Finished
  BY <1>1 DEF IndInv, RunningOK
<1>6. CASE k < call[c].threadCount - 1
  <2>1. job' = [job EXCEPT ![k] = j] /\ To(c, "notify", k) /\ running' = running
    BY <1>6 DEF submit
  <2>2. /\ CallsOK' /\ call'[c].at = "notify" /\ call'[c].k = k
        /\ call'[c].f = call[c].f /\ call'[c].threadCount = call[c].threadCount
        /\ \A d \in Caller : d # c => call'[d] = call[d]
    BY <1>2, <1>3, <1>6, <2>1, Moved DEF IndInv, Inside
  <2>3. Exclusive'
    BY <1>1, <1>2, <2>2 DEF IndInv, Exclusive
  <2>4. \A w \in Worker : job'[w] = IF w = k THEN j ELSE job[w]
    BY <2>1 DEF IndInv, JobsOK
  <2>5. k \in Worker => job[k] = None
    BY <1>1, <1>2, <1>3 DEF IndInv, JobsOK, Awaits
  <2>6. \A w \in Worker : job'[w] # None =>
            job'[w] \in Job(call[c].f) /\ Awaits(call'[c], w)
    <3> TAKE w \in Worker
    <3>1. CASE w = k
      BY <1>3, <1>4, <1>6, <2>2, <2>4, <3>1 DEF Awaits
    <3>2. CASE w # k
      BY <1>1, <1>2, <1>3, <2>2, <2>4, <3>2, ThreadTypes DEF IndInv, JobsOK, Awaits
    <3>3. QED
      BY <3>1, <3>2
  <2>7. \A w \in Worker : worker[w] = "run" => job'[w] # None
    BY <2>4, <2>5 DEF IndInv, JobsOK
  <2>8. JobsOK'
    BY <1>1, <1>2, <2>1, <2>2, <2>6, <2>7, ThreadTypes DEF IndInv, JobsOK
  <2>9. RunningOK'
    BY <1>1, <1>2, <1>5, <2>1, <2>2 DEF IndInv, RunningOK
  <2>10. QueueOK' /\ LocksHeld'
    BY <1>1, <1>2, <2>1, <2>2 DEF IndInv, QueueOK, LocksHeld
  <2>11. QED
    BY <2>2, <2>3, <2>8, <2>9, <2>10 DEF IndInv
<1>7. CASE ~(k < call[c].threadCount - 1)
  <2>1. running' = [running EXCEPT ![c] = Starting(j)] /\ To(c, "run", 0) /\ job' = job
    BY <1>7 DEF submit
  <2>2. /\ CallsOK' /\ call'[c].at = "run"
        /\ call'[c].f = call[c].f /\ call'[c].threadCount = call[c].threadCount
        /\ \A d \in Caller : d # c => call'[d] = call[d]
    BY <1>2, <1>3, <2>1, Moved DEF IndInv, Inside
  <2>3. Exclusive'
    BY <1>1, <1>2, <2>2 DEF IndInv, Exclusive
  <2>4. \A t \in Thread : running'[t] = IF t = c THEN Starting(j) ELSE running[t]
    BY <2>1 DEF IndInv, RunningOK
  <2>5. InRange(Starting(j), call[c].f) /\ Starting(j).at = "start"
    BY <1>4, StartingInRange
  <2>6. \A w \in Worker : running'[w] = running[w]
    BY <2>4, ThreadTypes
  <2>7. JobsOK'
    BY <1>1, <1>2, <2>1, <2>2, <2>6 DEF IndInv, JobsOK, Awaits
  <2>8. RunningOK'
    <3>1. \A t \in Thread : running'[t] # Finished => InRange(running'[t], call[c].f)
      BY <1>2, <2>4, <2>5 DEF IndInv, RunningOK
    <3>2. \A d \in Caller : running'[d] # Finished => call'[d].at = "run"
      BY <2>2, <2>4, ThreadTypes DEF IndInv, RunningOK
    <3>3. QED
      BY <1>1, <1>2, <2>1, <2>2, <3>1, <3>2, ThreadTypes DEF IndInv, RunningOK
  <2>9. QueueOK'
    BY <1>1, <1>2, <2>1, <2>2 DEF IndInv, QueueOK
  <2>10. LocksHeld'
    BY <1>1, <2>4, <2>5 DEF IndInv, LocksHeld
  <2>11. QED
    BY <2>2, <2>3, <2>7, <2>8, <2>9, <2>10 DEF IndInv
<1>8. QED
  BY <1>6, <1>7

\* Taking the first job of the queue.
LEMMA Popped ==
    ASSUME QueueOK, queue # <<>>, queue' = Tail(queue)
    PROVE  /\ Head(queue) \in Job(call[poolMutex].f)
           /\ queue' \in Seq(AnyJob)
           /\ \A i \in 1 .. Len(queue') : queue'[i] \in Job(call[poolMutex].f)
<1>1. queue \in Seq(AnyJob) /\ Len(queue) \in Nat /\ Len(queue) >= 1
  BY LenProperties, EmptySeq DEF QueueOK
<1>2. Head(queue) = queue[1]
  BY <1>1
<1>3. queue' \in Seq(AnyJob) /\ Len(queue') = Len(queue) - 1
        /\ \A i \in 1 .. Len(queue') : queue'[i] = queue[i + 1] /\ i + 1 \in 1 .. Len(queue)
  BY <1>1
<1>4. QED
  BY <1>1, <1>2, <1>3 DEF QueueOK

LEMMA callerTryPopStep ==
    ASSUME IndInv, NEW c \in Caller, callerTryPop(c), UNCHANGED locks
    PROVE  IndInv'
<1>1. /\ call[c].at = "run" /\ running[c] = Finished
      /\ UNCHANGED <<poolMutex, mutex, job, worker, stop, locks>>
  BY DEF callerTryPop
<1>2. poolMutex = c /\ InCall(call[c]) /\ \A d \in Caller : d # c => call[d].at = "outside"
  BY <1>1, Owner
<1>3. CASE queue # <<>>
  <2>1. /\ running' = [running EXCEPT ![c] = Starting(Head(queue))]
        /\ queue' = Tail(queue) /\ call' = call
    BY <1>3 DEF callerTryPop
  <2>2. /\ Head(queue) \in Job(call[c].f) /\ queue' \in Seq(AnyJob)
        /\ \A i \in 1 .. Len(queue') : queue'[i] \in Job(call[c].f)
    BY <1>2, <1>3, <2>1, Popped DEF IndInv
  <2>3. InRange(Starting(Head(queue)), call[c].f) /\ Starting(Head(queue)).at = "start"
    BY <2>2, StartingInRange
  <2>4. \A t \in Thread : running'[t] = IF t = c THEN Starting(Head(queue)) ELSE running[t]
    BY <2>1 DEF IndInv, RunningOK
  <2>5. CallsOK' /\ Exclusive'
    BY <1>1, <2>1 DEF IndInv, CallsOK, Exclusive
  <2>6. JobsOK'
    BY <1>1, <2>1, <2>4, ThreadTypes DEF IndInv, JobsOK
  <2>7. RunningOK'
    BY <1>1, <1>2, <2>1, <2>3, <2>4, ThreadTypes DEF IndInv, RunningOK
  <2>8. QueueOK'
    BY <1>1, <1>2, <2>1, <2>2, ThreadTypes DEF QueueOK
  <2>9. LocksHeld'
    BY <1>1, <2>3, <2>4 DEF IndInv, LocksHeld
  <2>10. QED
    BY <2>5, <2>6, <2>7, <2>8, <2>9 DEF IndInv
<1>4. CASE queue = <<>>
  <2>1. To(c, "wait", 0) /\ UNCHANGED <<queue, running>>
    BY <1>4 DEF callerTryPop
  <2>2. /\ call'[c].at = "wait" /\ call'[c].k = 0
        /\ call'[c].threadCount = call[c].threadCount
    BY <1>2, <2>1, Moved DEF IndInv, Inside
  <2>3. \A w \in Worker : job[w] # None => Awaits(call'[c], w)
    BY <1>1, <1>2, <2>2, PoolAssumption DEF IndInv, JobsOK, Awaits, Worker
  <2>4. DOMAIN worker' = Worker /\ \A w \in Worker : worker'[w] = "run" <=> worker[w] = "run"
    BY <1>1 DEF IndInv, JobsOK
  <2>5. QED
    BY <1>1, <1>4, <2>1, <2>3, <2>4, OnlyMoved DEF Inside
<1>5. QED
  BY <1>3, <1>4

\* A caller that returns has seen every worker without a job.
LEMMA waitWorkerStep ==
    ASSUME IndInv, NEW c \in Caller, waitWorker(c), UNCHANGED locks
    PROVE  IndInv'
<1>1. call[c].at = "wait" /\ UNCHANGED <<queue, mutex, job, worker, stop, running, locks>>
  BY DEF waitWorker
<1>2. poolMutex = c /\ InCall(call[c]) /\ \A d \in Caller : d # c => call[d].at = "outside"
  BY <1>1, Owner
<1>3. call[c].k \in Nat /\ call[c].threadCount \in Nat
  BY <1>2 DEF InCall
<1>4. running[c] = Finished /\ queue = <<>>
  BY <1>1, <1>2, ThreadTypes DEF IndInv, RunningOK, QueueOK
<1>5. DOMAIN worker' = Worker /\ \A w \in Worker : worker'[w] = "run" <=> worker[w] = "run"
  BY <1>1 DEF IndInv, JobsOK
<1>6. CASE call[c].k < call[c].threadCount - 1 /\ job[call[c].k] = None
  <2>1. To(c, "wait", call[c].k + 1) /\ UNCHANGED poolMutex
    BY <1>6 DEF waitWorker
  <2>2. /\ call'[c].at = "wait" /\ call'[c].k = call[c].k + 1
        /\ call'[c].threadCount = call[c].threadCount
    BY <1>2, <1>3, <2>1, Moved DEF IndInv, Inside
  <2>3. \A w \in Worker : job[w] # None => Awaits(call'[c], w)
    <3> SUFFICES ASSUME NEW w \in Worker, job[w] # None PROVE Awaits(call'[c], w)
      OBVIOUS
    <3>1. w \in Int /\ w # call[c].k /\ call[c].k <= w /\ w < call[c].threadCount - 1
      BY <1>1, <1>2, <1>6, ThreadTypes DEF IndInv, JobsOK, Awaits
    <3>2. QED
      BY <1>3, <2>2, <3>1 DEF Awaits
  <2>4. QED
    BY <1>1, <1>3, <1>4, <1>5, <2>1, <2>3, OnlyMoved DEF Inside
<1>7. CASE call[c].k < call[c].threadCount - 1 /\ job[call[c].k] # None
  <2>1. To(c, "sleep", call[c].k) /\ UNCHANGED poolMutex
    BY <1>7 DEF waitWorker
  <2>2. /\ call'[c].at = "sleep" /\ call'[c].k = call[c].k
        /\ call'[c].threadCount = call[c].threadCount
    BY <1>2, <1>3, <2>1, Moved DEF IndInv, Inside
  <2>3. \A w \in Worker : job[w] # None => Awaits(call'[c], w)
    BY <1>1, <1>2, <2>2 DEF IndInv, JobsOK, Awaits
  <2>4. QED
    BY <1>1, <1>3, <1>4, <1>5, <2>1, <2>3, OnlyMoved DEF Inside
<1>8. CASE ~(call[c].k < call[c].threadCount - 1)
  <2>1. call' = [call EXCEPT ![c] = Outside] /\ poolMutex' = None
    BY <1>8 DEF waitWorker
  <2>2. \A d \in Caller : call'[d] = IF d = c THEN Outside ELSE call[d]
    BY <2>1 DEF IndInv, CallsOK
  <2>3. CallsOK'
    BY <2>1, <2>2 DEF IndInv, CallsOK
  <2>4. Exclusive'
    BY <1>2, <2>1, <2>2 DEF Exclusive, Outside
  <2>5. \A w \in Worker : job[w] = None
    BY <1>1, <1>2, <1>3, <1>8, ThreadTypes DEF IndInv, JobsOK, Awaits
  <2>6. \A t \in Thread : running[t] = Finished
    BY <1>1, <1>2, <2>5, ThreadTypes DEF IndInv, JobsOK, RunningOK
  <2>7. JobsOK' /\ RunningOK' /\ QueueOK' /\ LocksHeld'
    BY <1>1, <1>4, <2>5, <2>6, ThreadTypes DEF IndInv, JobsOK, RunningOK, QueueOK, LocksHeld
  <2>8. QED
    BY <2>3, <2>4, <2>7 DEF IndInv
<1>9. QED
  BY <1>6, <1>7, <1>8

-----------------------------------------------------------------------------
(***************************************************************************)
(* Steps of a worker.                                                      *)
(***************************************************************************)

LEMMA WorkerMoved ==
    ASSUME IndInv, UNCHANGED <<poolMutex, queue, job, running, locks>>,
           DOMAIN call' = Caller, \A c \in Caller : call'[c] = call[c],
           DOMAIN worker' = Worker, \A w \in Worker : worker'[w] = "run" <=> worker[w] = "run"
    PROVE  IndInv'
<1>1. CallsOK' /\ Exclusive' /\ QueueOK' /\ LocksHeld'
  BY DEF IndInv, CallsOK, Exclusive, QueueOK, LocksHeld
<1>2. JobsOK' /\ RunningOK'
  BY DEF IndInv, JobsOK, RunningOK, Exclusive
<1>3. QED
  BY <1>1, <1>2 DEF IndInv

\* A worker that starts a job of the call in progress, having one of its own.
LEMMA WorkerStarts ==
    ASSUME IndInv, NEW w \in Worker, NEW j, poolMutex # None, j \in Job(call[poolMutex].f),
           job[w] # None, DOMAIN worker' = Worker,
           \A v \in Worker : worker'[v] = IF v = w THEN "run" ELSE worker[v],
           running' = [running EXCEPT ![w] = Starting(j)],
           UNCHANGED <<poolMutex, call, job, locks>>, QueueOK'
    PROVE  IndInv'
<1>1. InRange(Starting(j), call[poolMutex].f) /\ Starting(j).at = "start"
  BY StartingInRange
<1>2. \A t \in Thread : running'[t] = IF t = w THEN Starting(j) ELSE running[t]
  BY DEF IndInv, RunningOK
<1>3. CallsOK' /\ Exclusive'
  BY DEF IndInv, CallsOK, Exclusive
<1>4. JobsOK'
  BY <1>2, ThreadTypes DEF IndInv, JobsOK
<1>5. RunningOK'
  BY <1>1, <1>2, ThreadTypes DEF IndInv, RunningOK
<1>6. LocksHeld'
  BY <1>1, <1>2 DEF IndInv, LocksHeld
<1>7. QED
  BY <1>3, <1>4, <1>5, <1>6 DEF IndInv

LEMMA checkOccupiedStep ==
    ASSUME IndInv, NEW w \in Worker, checkOccupied(w), UNCHANGED locks
    PROVE  IndInv'
<1>1. worker[w] = "check" /\ UNCHANGED <<poolMutex, queue, call, job, locks>>
  BY DEF checkOccupied
<1>2. CASE running' = running /\ \E at \in {"wait", "returned"} : worker' = [worker EXCEPT ![w] = at]
  <2>1. DOMAIN worker' = Worker /\ \A v \in Worker : worker'[v] = "run" <=> worker[v] = "run"
    BY <1>1, <1>2 DEF IndInv, JobsOK
  <2>2. DOMAIN call' = Caller /\ \A c \in Caller : call'[c] = call[c]
    BY <1>1 DEF IndInv, CallsOK
  <2>3. QED
    BY <1>1, <1>2, <2>1, <2>2, WorkerMoved
<1>3. CASE /\ job[w] # None /\ worker' = [worker EXCEPT ![w] = "run"]
           /\ running' = [running EXCEPT ![w] = Starting(job[w])]
  <2>1. poolMutex # None /\ job[w] \in Job(call[poolMutex].f)
    BY <1>3 DEF IndInv, JobsOK
  <2>2. QueueOK'
    BY <1>1 DEF IndInv, QueueOK
  <2>3. DOMAIN worker' = Worker /\ \A v \in Worker : worker'[v] = IF v = w THEN "run" ELSE worker[v]
    BY <1>3 DEF IndInv, JobsOK
  <2>4. QED
    BY <1>1, <1>3, <2>1, <2>2, <2>3, WorkerStarts
<1>4. QED
  BY <1>2, <1>3 DEF checkOccupied

LEMMA workerTryPopStep ==
    ASSUME IndInv, NEW w \in Worker, workerTryPop(w), UNCHANGED locks
    PROVE  IndInv'
<1>1. /\ worker[w] = "run" /\ running[w] = Finished
      /\ UNCHANGED <<poolMutex, call, stop, locks>>
  BY DEF workerTryPop
<1>2. job[w] # None /\ poolMutex # None
  BY <1>1 DEF IndInv, JobsOK
<1>3. CASE queue # <<>>
  <2>1. /\ running' = [running EXCEPT ![w] = Starting(Head(queue))]
        /\ queue' = Tail(queue) /\ UNCHANGED <<job, worker>>
    BY <1>3 DEF workerTryPop
  <2>2. /\ Head(queue) \in Job(call[poolMutex].f) /\ queue' \in Seq(AnyJob)
        /\ \A i \in 1 .. Len(queue') : queue'[i] \in Job(call[poolMutex].f)
    BY <1>3, <2>1, Popped DEF IndInv
  <2>3. QueueOK'
    BY <1>1, <1>3, <2>2 DEF IndInv, QueueOK
  <2>4. DOMAIN worker' = Worker /\ \A v \in Worker : worker'[v] = IF v = w THEN "run" ELSE worker[v]
    BY <1>1, <2>1 DEF IndInv, JobsOK
  <2>5. QED
    BY <1>1, <1>2, <2>1, <2>2, <2>3, <2>4, WorkerStarts
<1>4. CASE queue = <<>>
  <2>1. /\ job' = [job EXCEPT ![w] = None] /\ worker' = [worker EXCEPT ![w] = "notify"]
        /\ UNCHANGED <<queue, running>>
    BY <1>4 DEF workerTryPop
  <2>2. CallsOK' /\ Exclusive' /\ QueueOK' /\ LocksHeld' /\ RunningOK'
    BY <1>1, <2>1 DEF IndInv, CallsOK, Exclusive, QueueOK, LocksHeld, RunningOK
  <2>3. JobsOK'
    BY <1>1, <2>1 DEF IndInv, JobsOK
  <2>4. QED
    BY <2>2, <2>3 DEF IndInv
<1>5. QED
  BY <1>3, <1>4

LEMMA notifyFinishedStep ==
    ASSUME IndInv, NEW w \in Worker, notifyFinished(w), UNCHANGED locks
    PROVE  IndInv'
<1>1. /\ worker[w] = "notify" /\ worker' = [worker EXCEPT ![w] = "lock"]
      /\ UNCHANGED <<poolMutex, queue, job, running, locks>>
  BY DEF notifyFinished
<1>2. DOMAIN worker' = Worker /\ \A v \in Worker : worker'[v] = "run" <=> worker[v] = "run"
  BY <1>1 DEF IndInv, JobsOK
<1>3. CASE \E c \in Caller : call[c].at = "sleep" /\ call[c].k = w
  <2>1. PICK c \in Caller : call[c].at = "sleep" /\ call[c].k = w
    BY <1>3
  <2>2. poolMutex = c /\ InCall(call[c]) /\ \A d \in Caller : d # c => call[d].at = "outside"
    BY <2>1, Owner
  <2>3. To(c, "wait", w)
    <3>1. call' = [d \in Caller |-> IF d = c THEN [call[c] EXCEPT !.at = "wait"] ELSE call[d]]
      BY <2>1, <2>2 DEF notifyFinished
    <3>2. [call[c] EXCEPT !.at = "wait"] = [call[c] EXCEPT !.at = "wait", !.k = w]
      BY <2>1, <2>2 DEF InCall
    <3>3. QED
      BY <3>1, <3>2 DEF To, IndInv, CallsOK
  <2>4. w \in Nat
    BY PoolAssumption DEF Worker
  <2>5. /\ call'[c].at = "wait" /\ call'[c].k = w
        /\ call'[c].threadCount = call[c].threadCount
    BY <2>2, <2>3, <2>4, Moved DEF IndInv, Inside
  <2>6. \A v \in Worker : job[v] # None => Awaits(call'[c], v)
    BY <2>1, <2>2, <2>5 DEF IndInv, JobsOK, Awaits
  <2>7. running[c] = Finished /\ queue = <<>>
    BY <2>1, <2>2, ThreadTypes DEF IndInv, RunningOK, QueueOK
  <2>8. QED
    BY <1>1, <1>2, <2>1, <2>3, <2>4, <2>6, <2>7, OnlyMoved DEF Inside
<1>4. CASE ~\E c \in Caller : call[c].at = "sleep" /\ call[c].k = w
  <2>1. call' = [c \in Caller |-> call[c]]
    BY <1>4 DEF notifyFinished
  <2>2. DOMAIN call' = Caller /\ \A c \in Caller : call'[c] = call[c]
    BY <2>1
  <2>3. QED
    BY <1>1, <1>2, <2>2, WorkerMoved
<1>5. QED
  BY <1>3, <1>4

\* The steps that only move a worker that runs nothing.
LEMMA WorkerOnlySteps ==
    ASSUME IndInv, NEW w \in Worker, UNCHANGED locks,
           lockMutex(w) \/ waitOccupied(w) \/ wakeWorker(w) \/ destroyWorker(w)
    PROVE  IndInv'
<1>1. UNCHANGED <<poolMutex, queue, call, job, running, locks>>
  BY DEF lockMutex, waitOccupied, wakeWorker, destroyWorker
<1>2. DOMAIN worker' = Worker /\ \A v \in Worker : worker'[v] = "run" <=> worker[v] = "run"
  BY DEF lockMutex, waitOccupied, wakeWorker, destroyWorker, Notified, IndInv, JobsOK
<1>3. DOMAIN call' = Caller /\ \A c \in Caller : call'[c] = call[c]
  BY <1>1 DEF IndInv, CallsOK
<1>4. QED
  BY <1>1, <1>2, <1>3, WorkerMoved

-----------------------------------------------------------------------------
(***************************************************************************)
(* Steps of the loops.                                                     *)
(***************************************************************************)

\* A thread goes on with its range, or ends it.
LEMMA Progressed ==
    ASSUME IndInv, NEW t \in Thread, NEW r, running[t] # Finished, PoolIdle,
           running' = [running EXCEPT ![t] = r],
           r = Finished \/ InRange(r, running[t].of),
           LocksHeld'
    PROVE  IndInv'
<1>1. poolMutex # None /\ InRange(running[t], call[poolMutex].f) /\ running[t].of = call[poolMutex].f
  BY DEF IndInv, RunningOK, InRange
<1>2. \A v \in Thread : running'[v] = IF v = t THEN r ELSE running[v]
  BY DEF IndInv, RunningOK
<1>3. CallsOK' /\ Exclusive' /\ QueueOK'
  BY DEF PoolIdle, IndInv, CallsOK, Exclusive, QueueOK
<1>4. JobsOK'
  BY <1>2, ThreadTypes DEF PoolIdle, IndInv, JobsOK
<1>5. RunningOK'
  BY <1>1, <1>2, ThreadTypes DEF PoolIdle, IndInv, RunningOK
<1>6. QED
  BY <1>3, <1>4, <1>5 DEF IndInv

LEMMA AtStart ==
    ASSUME NEW f, NEW i \in 1 .. Elements(f), NEW end \in 1 .. Elements(f), i <= end
    PROVE  InRange([at |-> "start", of |-> f, i |-> i, end |-> end], f)
BY DEF InRange

LEMMA AdvancedInRange ==
    ASSUME NEW t \in Thread, NEW f, InRange(running[t], f)
    PROVE  /\ Advanced(t) = Finished \/ InRange(Advanced(t), f)
           /\ Advanced(t).at \in {"finished", "start"}
<1>1. CASE running[t].i = running[t].end
  BY <1>1 DEF Advanced, Finished
<1>2. CASE running[t].i # running[t].end
  <2>1. Advanced(t) = [at |-> "start", of |-> f, i |-> running[t].i + 1, end |-> running[t].end]
    BY <1>2 DEF Advanced, InRange
  <2>2. Elements(f) \in Nat
    BY CountTypes
  <2>3. running[t].i \in 1 .. Elements(f) /\ running[t].end \in 1 .. Elements(f)
          /\ running[t].i <= running[t].end
    BY DEF InRange
  <2>4. running[t].i + 1 \in 1 .. Elements(f) /\ running[t].i + 1 <= running[t].end
    BY <1>2, <2>2, <2>3
  <2>5. InRange(Advanced(t), f)
    BY <2>1, <2>3, <2>4, AtStart
  <2>6. QED
    BY <2>1, <2>5
<1>3. QED
  BY <1>1, <1>2

LEMMA clearOrRivalStep ==
    ASSUME IndInv, NEW t \in Thread, clear(t) \/ rivalBody(t)
    PROVE  IndInv'
<1>1. /\ running[t].at = "start" /\ running' = [running EXCEPT ![t] = Advanced(t)]
      /\ PoolIdle /\ locks' = locks
  BY DEF clear, rivalBody, To1
<1>2. running[t] # Finished
  BY <1>1 DEF Finished
<1>3. InRange(running[t], running[t].of)
  BY <1>2 DEF IndInv, RunningOK, InRange
<1>4. /\ Advanced(t) = Finished \/ InRange(Advanced(t), running[t].of)
      /\ Advanced(t).at \in {"finished", "start"}
  BY <1>3, AdvancedInRange
<1>5. LocksHeld'
  BY <1>1, <1>4 DEF IndInv, LocksHeld, RunningOK
<1>6. QED
  BY <1>1, <1>2, <1>4, <1>5, Progressed

\* A thread between the two steps of E.fr.add is at a coefficient.
LEMMA LockInUse ==
    ASSUME IndInv, NEW t \in Thread, running[t].at \in {"load", "store"}
    PROVE  LockOf(coefs[running[t].i]) \in 0 .. NLOCKS - 1
<1>1. running[t] # Finished
  BY DEF Finished
<1>2. running[t].i \in 1 .. nCoefs
  BY <1>1 DEF IndInv, RunningOK, InRange, Elements
<1>3. QED
  BY <1>2, LockOfType

LEMMA lockStep ==
    ASSUME IndInv, NEW t \in Thread, lock(t)
    PROVE  IndInv'
<1> DEFINE r == [at |-> "load", of |-> running[t].of, i |-> running[t].i, end |-> running[t].end]
           k == LockOf(coefs[running[t].i])
<1>1. /\ running[t].at = "start" /\ running[t].of = "processing coefs"
      /\ locks[k] = None /\ locks' = [locks EXCEPT ![k] = t]
      /\ running' = [running EXCEPT ![t] = r]
      /\ PoolIdle
  BY DEF lock, To1
<1>2. running[t] # Finished
  <2>1. running[t].at = "start"
    BY DEF lock
  <2>2. QED
    BY <2>1 DEF Finished
<1>3. InRange(running[t], running[t].of)
  BY <1>2 DEF IndInv, RunningOK, InRange
<1>4. running[t].i \in 1 .. nCoefs
  BY <1>1, <1>3 DEF InRange, Elements
<1>5. k \in 0 .. NLOCKS - 1
  BY <1>4, LockOfType
<1>6. InRange(r, running[t].of) /\ r.i = running[t].i /\ r.at = "load"
  BY <1>1, <1>3 DEF InRange
<1> HIDE DEF k, r
<1>7. LocksHeld'
  <2>1. \A v \in Thread : running'[v] = IF v = t THEN r ELSE running[v]
    BY <1>1 DEF IndInv, RunningOK
  <2>2. DOMAIN locks' = 0 .. NLOCKS - 1 /\ \A l \in 0 .. NLOCKS - 1 : locks'[l] = IF l = k THEN t ELSE locks[l]
    BY <1>1 DEF IndInv, LocksHeld
  <2>3. ASSUME NEW v \in Thread, v # t, running[v].at \in {"load", "store"}
        PROVE  locks'[LockOf(coefs[running[v].i])] = v
    <3>1. locks[LockOf(coefs[running[v].i])] = v /\ v # None
      BY <2>3, ThreadTypes DEF IndInv, LocksHeld
    <3>2. LockOf(coefs[running[v].i]) # k
      BY <1>1, <3>1
    <3>3. LockOf(coefs[running[v].i]) \in 0 .. NLOCKS - 1
      BY <2>3, LockInUse
    <3>4. QED
      BY <2>2, <3>1, <3>2, <3>3
  <2>4. locks'[LockOf(coefs[r.i])] = t
    BY <1>5, <1>6, <2>2 DEF k
  <2>5. QED
    BY <2>1, <2>2, <2>3, <2>4 DEF LocksHeld
<1>8. QED
  BY <1>1, <1>2, <1>6, <1>7, Progressed

LEMMA loadStep ==
    ASSUME IndInv, NEW t \in Thread, load(t)
    PROVE  IndInv'
<1>1. PICK sum : running' = [running EXCEPT ![t] =
          [at |-> "store", of |-> running[t].of, i |-> running[t].i, end |-> running[t].end, sum |-> sum]]
  BY DEF load, To1
<1>2. running[t].at = "load" /\ PoolIdle /\ locks' = locks
  BY DEF load
<1> DEFINE r == [at |-> "store", of |-> running[t].of, i |-> running[t].i,
                 end |-> running[t].end, sum |-> sum]
<1>3. running[t] # Finished
  BY <1>2 DEF Finished
<1>4. InRange(running[t], running[t].of)
  BY <1>3 DEF IndInv, RunningOK, InRange
<1>5. InRange(r, running[t].of) /\ r.i = running[t].i /\ r.at = "store"
  BY <1>2, <1>4 DEF InRange
<1>6. running' = [running EXCEPT ![t] = r]
  BY <1>1
<1> HIDE DEF r
<1>7. LocksHeld'
  BY <1>2, <1>5, <1>6 DEF IndInv, LocksHeld, RunningOK
<1>8. QED
  BY <1>2, <1>3, <1>5, <1>6, <1>7, Progressed

LEMMA storeStep ==
    ASSUME IndInv, NEW t \in Thread, store(t)
    PROVE  IndInv'
<1> DEFINE k == LockOf(coefs[running[t].i])
<1>1. /\ running[t].at = "store" /\ running' = [running EXCEPT ![t] = Advanced(t)]
      /\ locks' = [locks EXCEPT ![k] = None] /\ PoolIdle
  BY DEF store, To1
<1>2. running[t] # Finished
  BY <1>1 DEF Finished
<1>3. InRange(running[t], running[t].of)
  BY <1>2 DEF IndInv, RunningOK, InRange
<1>4. /\ Advanced(t) = Finished \/ InRange(Advanced(t), running[t].of)
      /\ Advanced(t).at \in {"finished", "start"}
  BY <1>3, AdvancedInRange
<1>5. locks[k] = t
  BY <1>1 DEF IndInv, LocksHeld
<1> HIDE DEF k
<1>6. LocksHeld'
  <2>1. \A v \in Thread : running'[v] = IF v = t THEN Advanced(t) ELSE running[v]
    BY <1>1 DEF IndInv, RunningOK
  <2>2. ASSUME NEW v \in Thread, running'[v].at \in {"load", "store"}
        PROVE  locks'[LockOf(coefs[running'[v].i])] = v
    <3>1. v # t /\ running'[v] = running[v]
      BY <1>4, <2>1, <2>2
    <3>2. locks[LockOf(coefs[running[v].i])] = v
      BY <2>2, <3>1 DEF IndInv, LocksHeld
    <3>3. LockOf(coefs[running[v].i]) # k
      BY <1>5, <3>1, <3>2
    <3>4. QED
      BY <1>1, <3>1, <3>2, <3>3
  <2>3. DOMAIN locks' = 0 .. NLOCKS - 1
    BY <1>1 DEF IndInv, LocksHeld
  <2>4. QED
    BY <2>2, <2>3 DEF LocksHeld
<1>7. QED
  BY <1>1, <1>2, <1>4, <1>6, Progressed

-----------------------------------------------------------------------------
(***************************************************************************)
(* The theorems.                                                           *)
(***************************************************************************)

LEMMA InitInd == Init => IndInv
<1> SUFFICES ASSUME Init PROVE IndInv
  OBVIOUS
<1>1. CallsOK /\ Exclusive
  BY ThreadTypes DEF Init, PoolInit, CallsOK, Exclusive, Outside
<1>2. JobsOK /\ RunningOK
  BY ThreadTypes DEF Init, PoolInit, JobsOK, RunningOK
<1>3. QueueOK
  BY DEF Init, PoolInit, QueueOK
<1>4. LocksHeld
  BY DEF Init, PoolInit, LocksHeld, Finished
<1>5. QED
  BY <1>1, <1>2, <1>3, <1>4 DEF IndInv

LEMMA ProveStep ==
    ASSUME IndInv, Prove
    PROVE  IndInv'
<1>1. CASE /\ UNCHANGED <<poolVars, locks>>
  BY <1>1 DEF poolVars, IndInv, CallsOK, Exclusive, JobsOK, RunningOK, QueueOK, LocksHeld
<1>2. CASE Loop("initialize", "initializing", domainSize)
  <2>1. "initialize" \in Func /\ Elements("initialize") = domainSize /\ Prover \in Caller
    BY ProverAssumption DEF Func, Elements
  <2>2. QED
    BY <1>2, <2>1, parallelForStep DEF Loop
<1>3. CASE Loop("processing coefs", "summing", nCoefs)
  <2>1. "processing coefs" \in Func /\ Elements("processing coefs") = nCoefs /\ Prover \in Caller
    BY ProverAssumption DEF Func, Elements
  <2>2. QED
    BY <1>3, <2>1, parallelForStep DEF Loop
<1>4. QED
  BY <1>1, <1>2, <1>3 DEF Prove, multiexp, LoopDone, shift, transform, assemble, verify, pairingCheck

LEMMA BodyStep ==
    ASSUME IndInv, NEW t \in Thread, Body(t)
    PROVE  IndInv'
BY clearOrRivalStep, lockStep, loadStep, storeStep DEF Body

LEMMA NextInd == IndInv /\ [Next]_vars => IndInv'
<1> SUFFICES ASSUME IndInv, [Next]_vars PROVE IndInv'
  OBVIOUS
<1>1. CASE Prove
  BY <1>1, ProveStep
<1>2. ASSUME NEW c \in Rival, rivalCall(c)
      PROVE  IndInv'
  <2>1. c \in Caller /\ c \in Func /\ Elements(c) = rivalCount
    BY <1>2, ProverAssumption DEF Rival, Func, Elements
  <2>2. parallelFor(c, c, Elements(c)) /\ locks' = locks
    BY <1>2, <2>1 DEF rivalCall
  <2>3. QED
    BY <2>1, <2>2, parallelForStep
<1>3. ASSUME NEW c \in Caller, CallerStep(c) \/ (wakeCaller(c) /\ OfPool)
      PROVE  IndInv'
  <2>1. CASE Body(c)
    BY <2>1, ThreadTypes, BodyStep
  <2>2. CASE OfPool /\ (unsafePush(c) \/ submit(c) \/ notifyOccupied(c))
    BY <2>2, unsafePushStep, submitStep, notifyOccupiedStep DEF OfPool
  <2>3. CASE OfPool /\ (callerTryPop(c) \/ waitWorker(c) \/ wakeCaller(c))
    BY <2>3, callerTryPopStep, waitWorkerStep, wakeCallerStep DEF OfPool
  <2>4. QED
    BY <1>3, <2>1, <2>2, <2>3 DEF CallerStep
<1>4. ASSUME NEW w \in Worker, WorkerStep(w) \/ (wakeWorker(w) /\ OfPool) \/ (destroyWorker(w) /\ OfPool)
      PROVE  IndInv'
  <2>1. CASE Body(w)
    BY <2>1, ThreadTypes, BodyStep
  <2>2. CASE OfPool /\ (lockMutex(w) \/ waitOccupied(w) \/ wakeWorker(w) \/ destroyWorker(w))
    BY <2>2, WorkerOnlySteps DEF OfPool
  <2>3. CASE OfPool /\ (checkOccupied(w) \/ workerTryPop(w) \/ notifyFinished(w))
    BY <2>3, checkOccupiedStep, workerTryPopStep, notifyFinishedStep DEF OfPool
  <2>4. QED
    BY <1>4, <2>1, <2>2, <2>3 DEF WorkerStep
<1>5. CASE UNCHANGED vars
  BY <1>5 DEF vars, poolVars, IndInv, CallsOK, Exclusive, JobsOK, RunningOK, QueueOK, LocksHeld
<1>6. QED
  BY <1>1, <1>2, <1>3, <1>4, <1>5 DEF Next

LEMMA IndInvInvariant == Spec => []IndInv
BY InitInd, NextInd, PTL DEF Spec

\* No two threads of the loop at line 100 of groth16.cpp are about to write the
\* same element, however few mutexes there are: a row has one mutex, and who
\* is between the read and the write holds it.
THEOREM OneWriterCorrect == Spec => []OneWriter
<1>1. IndInv => OneWriter
  BY DEF IndInv, LocksHeld, OneWriter, Target, LockOf
<1>2. QED
  BY <1>1, IndInvInvariant, PTL

\* parallelFor returns only when no worker has, runs or can still find in the queue a
\* job that refers to its function.
THEOREM NoJobOutlivesItsCallCorrect == Spec => []NoJobOutlivesItsCall
<1>1. IndInv => NoJobOutlivesItsCall
  <2> SUFFICES ASSUME IndInv PROVE NoJobOutlivesItsCall
    OBVIOUS
  <2>1. ASSUME NEW f, poolMutex # None, call[poolMutex].f = f
        PROVE  Alive(f)
    BY <2>1 DEF IndInv, Exclusive, Alive
  <2>2. ASSUME NEW i \in 1 .. Len(queue)
        PROVE  Alive(queue[i].of)
    <3>1. queue # <<>>
      BY <2>2
    <3>2. poolMutex # None /\ queue[i] \in Job(call[poolMutex].f)
      BY <3>1 DEF IndInv, QueueOK
    <3>3. QED
      BY <2>1, <3>2 DEF Job
  <2>3. ASSUME NEW w \in Worker, job[w] # None
        PROVE  Alive(job[w].of)
    <3>1. poolMutex # None /\ job[w] \in Job(call[poolMutex].f)
      BY <2>3 DEF IndInv, JobsOK
    <3>2. QED
      BY <2>1, <3>1 DEF Job
  <2>4. ASSUME NEW t \in Thread, running[t] # Finished
        PROVE  Alive(running[t].of)
    <3>1. poolMutex # None /\ running[t].of = call[poolMutex].f
      BY <2>4 DEF IndInv, RunningOK, InRange
    <3>2. QED
      BY <2>1, <3>1
  <2>5. QED
    BY <2>2, <2>3, <2>4 DEF NoJobOutlivesItsCall
<1>2. QED
  BY <1>1, IndInvInvariant, PTL

\* unsafePush is safe: nobody pops while a caller pushes.
THEOREM PushedAloneCorrect == Spec => []PushedAlone
<1>1. IndInv => PushedAlone
  <2> SUFFICES ASSUME IndInv, NEW c \in Caller, call[c].at = "push"
               PROVE  /\ \A w \in Worker : worker[w] # "run"
                      /\ \A d \in Caller \ {c} : call[d].at # "run"
    BY DEF PushedAlone
  <2>1. poolMutex = c /\ \A d \in Caller : d # c => call[d].at = "outside"
    BY Owner
  <2>2. QED
    BY <2>1 DEF IndInv, JobsOK, Awaits
<1>2. QED
  BY <1>1, IndInvInvariant, PTL

-----------------------------------------------------------------------------
(***************************************************************************)
(* The field.  Two numbers that are congruent stand for one element.       *)
(***************************************************************************)

Congruent(a, b) == \E k \in Int : a = b + k * Prime

\* The powers of a word, up to that of an element.
LEMMA WordPowers ==
    /\ WordPower \in [0 .. Limbs -> Nat \ {0}]
    /\ WordPower[0] = 1
    /\ \A i \in 0 .. Limbs - 1 : WordPower[i + 1] = Word * WordPower[i]
    /\ Radix \in Nat \ {0} /\ Radix = Word * WordPower[Limbs - 1]
<1> DEFINE D == Nat \ {0}
           step == [i \in 1 .. Limbs |-> [v \in D |-> Word * v]]
<1>1. Word \in Nat \ {0, 1} /\ Limbs \in Nat \ {0, 1}
  BY FieldAssumption
<1>2. step \in [1 .. Limbs -> [D -> D]] /\ 1 \in D
  <2>1. \A v \in D : Word * v \in D
    BY <1>1
  <2>2. QED
    BY <2>1
<1>3. PICK g \in [0 .. Limbs -> D] : Recursive(g, 1, step, Limbs)
  <2> HIDE DEF step, D
  <2>1. QED
    BY <1>1, <1>2, RecursionExists
<1>4. g = [i \in 0 .. Limbs |-> IF i = 0 THEN 1 ELSE Word * g[i - 1]]
  <2>1. ASSUME NEW i \in 0 .. Limbs
        PROVE  g[i] = IF i = 0 THEN 1 ELSE Word * g[i - 1]
    <3>1. CASE i = 0
      BY <1>3, <3>1 DEF Recursive
    <3>2. CASE i # 0
      <4>1. i \in 1 .. Limbs /\ i - 1 \in 0 .. Limbs
        BY <1>1, <3>2
      <4>2. g[i - 1] \in D
        BY <4>1
      <4>3. step[i][g[i - 1]] = Word * g[i - 1]
        BY <4>1, <4>2
      <4>4. g[i] = step[i][g[i - 1]]
        BY <1>3, <3>2 DEF Recursive
      <4>5. QED
        BY <3>2, <4>3, <4>4
    <3>3. QED
      BY <3>1, <3>2
  <2>2. g = [i \in 0 .. Limbs |-> g[i]]
    OBVIOUS
  <2>3. QED
    BY <2>1, <2>2
<1>5. WordPower = [i \in 0 .. Limbs |-> IF i = 0 THEN 1 ELSE Word * WordPower[i - 1]]
  BY <1>4 DEF WordPower
<1>6. WordPower[0] = 1 /\ \A i \in 0 .. Limbs - 1 : WordPower[i + 1] = Word * WordPower[i]
  <2>1. 0 \in 0 .. Limbs
    BY <1>1
  <2>2. ASSUME NEW i \in 0 .. Limbs - 1
        PROVE  WordPower[i + 1] = Word * WordPower[i]
    <3>1. i + 1 \in 0 .. Limbs /\ i + 1 # 0 /\ (i + 1) - 1 = i
      BY <1>1
    <3>2. QED
      BY <1>5, <3>1
  <2>3. QED
    BY <1>5, <2>1, <2>2
<1>7. \A i \in 0 .. Limbs : WordPower[i] \in D
  <2> DEFINE S == {i \in 0 .. Limbs : WordPower[i] \in D}
  <2>1. 0 \in S
    BY <1>1, <1>6
  <2>2. ASSUME NEW i \in 0 .. Limbs - 1, i \in S
        PROVE  i + 1 \in S
    <3>1. WordPower[i] \in D /\ WordPower[i + 1] = Word * WordPower[i]
      BY <1>6, <2>2
    <3>2. \A v \in D : Word * v \in D
      BY <1>1
    <3>3. i + 1 \in 0 .. Limbs
      BY <1>1
    <3>4. QED
      BY <3>1, <3>2, <3>3
  <2> HIDE DEF S
  <2>3. 0 .. Limbs \subseteq S
    BY <1>1, <2>1, <2>2, IntervalInduction
  <2>4. QED
    BY <2>3 DEF S
<1>8. DOMAIN WordPower = 0 .. Limbs
  BY <1>5
<1>9. Radix \in D /\ Radix = Word * WordPower[Limbs - 1]
  <2>1. Limbs \in 0 .. Limbs /\ Limbs - 1 \in 0 .. Limbs - 1 /\ (Limbs - 1) + 1 = Limbs
    BY <1>1
  <2>2. QED
    BY <1>6, <1>7, <2>1 DEF Radix
<1>10. WordPower \in [0 .. Limbs -> D]
  BY <1>5, <1>7, <1>8
<1>11. QED
  BY <1>6, <1>9, <1>10

\* Fr_np makes the lowest limb vanish.
Vanishes(n, M, Base) == (n * M + 1) % Base = 0
Factor(n, p, Base) == (n * (p % Base)) % Base
WithQ(p) == p + Prime * Factor(np, p, Word)

LEMMA np_Type == np \in Nat /\ Vanishes(np, Prime, Word)
<1>1. np \in 0 .. Word - 1 /\ (np * Prime + 1) % Word = 0
  BY FieldAssumption DEF np
<1>2. QED
  BY <1>1, FieldAssumption DEF Vanishes

LEMMA Multiples ==
    ASSUME NEW Base \in Nat \ {0}, NEW a \in Int, a % Base = 0
    PROVE  \E k \in Int : a = Base * k
<1>1. a = Base * (a \div Base) + (a % Base) /\ a \div Base \in Int
  BY SMT
<1>2. QED
  BY <1>1

\* A product and its multiple of the prime are a multiple of a word.
LEMMA DividesExactly ==
    ASSUME NEW M \in Nat, NEW Base \in Nat \ {0}, NEW n \in Nat, Vanishes(n, M, Base), NEW p \in Nat
    PROVE  /\ Factor(n, p, Base) \in 0 .. Base - 1
           /\ \E t \in Int : p + M * Factor(n, p, Base) = Base * t
<1> DEFINE r == p % Base
           q == (n * r) % Base
<1>1. r \in 0 .. Base - 1
  OBVIOUS
<1>2. PICK a \in Int : p = Base * a + r
  <2>1. p = Base * (p \div Base) + r /\ p \div Base \in Int
    BY SMT
  <2>2. QED
    BY <2>1
<1> HIDE DEF r
<1>3. n * r \in Nat
  BY <1>1
<1>4. q \in 0 .. Base - 1 /\ \E b \in Int : n * r = Base * b + q
  <2>1. \A x \in Nat : x % Base \in 0 .. Base - 1 /\ x = Base * (x \div Base) + (x % Base) /\ x \div Base \in Int
    BY SMT
  <2>2. QED
    BY <1>3, <2>1
<1>5. PICK b \in Int : n * r = Base * b + q
  BY <1>4
<1>6. n * M + 1 \in Int
  OBVIOUS
<1>7. PICK c \in Int : n * M + 1 = Base * c
  BY <1>6, Multiples DEF Vanishes
<1> HIDE DEF q
<1>8. p + M * q = Base * (a + r * c - M * b)
  <2>1. r * (n * M + 1) = r * (Base * c)
    BY <1>7
  <2>2. r * (n * M + 1) = M * (n * r) + r
    BY <1>1
  <2>3. M * (n * r) = M * (Base * b) + M * q
    <3>1. ASSUME NEW x \in Int, NEW y \in Int, NEW z \in Int
          PROVE  x * (y + z) = x * y + x * z
      OBVIOUS
    <3>2. Base * b \in Int /\ q \in Int /\ M \in Int
      BY <1>4
    <3>3. M * (Base * b + q) = M * (Base * b) + M * q
      BY <3>1, <3>2
    <3>4. QED
      BY <1>5, <3>3
  <2>4. Base * (a + r * c - M * b) = Base * a + r * (Base * c) - M * (Base * b)
    BY <1>1
  <2>5. M * q = r * (Base * c) - r - M * (Base * b)
    <3>1. M * q \in Int /\ M * (n * r) \in Int /\ r * (Base * c) \in Int /\ M * (Base * b) \in Int /\ r \in Int
      BY <1>1, <1>4
    <3>2. r * (Base * c) = M * (n * r) + r
      BY <2>1, <2>2, Zenon
    <3>3. PICK u \in Int : u = M * q
      BY <3>1
    <3>4. PICK x \in Int : x = M * (n * r)
      BY <3>1
    <3>5. PICK y \in Int : y = r * (Base * c)
      BY <3>1
    <3>6. PICK z \in Int : z = M * (Base * b)
      BY <3>1
    <3>7. y = x + r /\ x = z + u /\ r \in Int
      BY <2>3, <3>1, <3>2, <3>3, <3>4, <3>5, <3>6, Zenon
    <3>8. u = y - r - z
      BY <3>7
    <3>9. QED
      BY <3>3, <3>5, <3>6, <3>8, Zenon
  <2>6. QED
    <3>1. M * q \in Int /\ Base * a \in Int /\ r * (Base * c) \in Int /\ M * (Base * b) \in Int /\ r \in Int
      BY <1>1, <1>4
    <3>2. QED
      BY <1>2, <2>4, <2>5, <3>1
<1>9. a + r * c - M * b \in Int
  BY <1>1
<1>10. QED
  BY <1>4, <1>8, <1>9 DEF q, r, Factor
\* One round: what is carried on is less than twice the prime.
Sent(p) == WithQ(p) \div Word

LEMMA SentBounds ==
    ASSUME NEW p \in Nat, p <= Prime * Word + Prime - 1
    PROVE  /\ Sent(p) \in 0 .. 2 * Prime - 1
           /\ WithQ(p) = Word * Sent(p)
           /\ WithQ(p) < Radix * Word
           /\ \E k \in Int : WithQ(p) = p + k * Prime
<1>1. Prime \in Nat \ {0, 1} /\ Word \in Nat \ {0, 1} /\ 2 * Prime <= Radix /\ Radix \in Nat
  BY FieldAssumption, WordPowers
<1> DEFINE q == Factor(np, p, Word)
<1>2. Prime \in Nat /\ Word \in Nat \ {0}
  BY <1>1
<1>3. q \in 0 .. Word - 1 /\ \E t \in Int : p + Prime * q = Word * t
  BY <1>2, np_Type, DividesExactly
<1> HIDE DEF q
<1>4. PICK t \in Int : p + Prime * q = Word * t
  BY <1>3
<1>5. WithQ(p) = Word * t
  BY <1>4 DEF WithQ, q
<1>6. Prime * q \in Nat /\ Prime * q <= Prime * Word - Prime
  <2>1. ASSUME NEW a \in Nat, NEW b \in Nat, NEW c \in Nat, a <= b - 1
        PROVE  c * a \in Nat /\ c * a <= c * b - c
    <3>1. PICK d \in Nat : b = a + 1 + d
      <4>1. b - a - 1 \in Nat /\ b = a + 1 + (b - a - 1)
        BY <2>1
      <4>2. QED
        BY <4>1
    <3>2. c * b = c * a + c + c * d /\ c * a \in Nat /\ c * d \in Nat
      BY <3>1
    <3>3. QED
      BY <3>2
  <2>2. QED
    BY <1>1, <1>3, <2>1
<1>7. Word * t \in Nat /\ Word * t <= 2 * (Prime * Word) - 1
  <2>1. Prime * Word \in Nat
    BY <1>1
  <2>2. QED
    BY <1>1, <1>4, <1>6, <2>1
<1>8. t \in 0 .. 2 * Prime - 1
  <2>1. t >= 0
    <3>1. ASSUME t < 0 PROVE FALSE
      <4>1. -t \in Nat /\ -t >= 1
        BY <3>1
      <4>2. Word * (-t) >= 1 /\ Word * (-t) = -(Word * t)
        BY <1>1, <4>1
      <4>3. QED
        BY <1>7, <4>2
    <3>2. QED
      BY <3>1
  <2>2. t <= 2 * Prime - 1
    <3>1. ASSUME t >= 2 * Prime PROVE FALSE
      <4>1. PICK d \in Nat : t = 2 * Prime + d
        <5>1. t - 2 * Prime \in Nat /\ t = 2 * Prime + (t - 2 * Prime)
          BY <1>1, <3>1
        <5>2. QED
          BY <5>1
      <4>2. Word * t = 2 * (Prime * Word) + Word * d /\ Word * d \in Nat /\ Prime * Word \in Nat
        BY <1>1, <4>1
      <4>3. QED
        BY <1>7, <4>2
    <3>2. QED
      BY <1>1, <3>1
  <2>3. QED
    BY <1>1, <2>1, <2>2
<1>9. (Word * t) \div Word = t
  <2>1. Word * t <= Word * t /\ Word * t < Word * t + Word
    BY <1>1, <1>7
  <2>2. t \in Nat /\ Word * t \in Nat /\ Word \in Nat \ {0}
    BY <1>1, <1>7, <1>8
  <2>3. QED
    BY <2>1, <2>2, DivUnique
<1>10. Sent(p) = t
  BY <1>5, <1>9 DEF Sent
<1>11. Word * t < Radix * Word
  <2>1. PICK d \in Nat : Radix = 2 * Prime + d
    <3>1. Radix - 2 * Prime \in Nat /\ Radix = 2 * Prime + (Radix - 2 * Prime)
      BY <1>1
    <3>2. QED
      BY <3>1
  <2>2. Radix * Word = 2 * (Prime * Word) + d * Word /\ d * Word \in Nat /\ Prime * Word \in Nat
    BY <1>1, <2>1
  <2>3. QED
    BY <1>7, <2>2
<1>12. WithQ(p) = p + q * Prime /\ q \in Int
  <2>1. Prime * q = q * Prime
    BY <1>1, <1>3
  <2>2. QED
    BY <1>3, <2>1 DEF WithQ, q
<1>13. QED
  BY <1>5, <1>8, <1>10, <1>11, <1>12

\* The recursion of Montgomery, as a step from one product to the next.
Round(term, p) ==
    ((WithQ(p) \div (Radix * Word)) * Word + term + ((WithQ(p) \div Word) % Radix)) % (Radix * Word)

\* The carry is 0, and nothing is truncated.
LEMMA RoundIs ==
    ASSUME NEW term \in Nat, term <= Prime * Word - Prime,
           NEW p \in Nat, p <= Prime * Word + Prime - 1
    PROVE  Round(term, p) = term + Sent(p) /\ Round(term, p) <= Prime * Word + Prime - 1
<1>1. Prime \in Nat \ {0, 1} /\ Word \in Nat \ {0, 1} /\ 2 * Prime <= Radix /\ Radix \in Nat \ {0}
  BY FieldAssumption, WordPowers
<1>2. Sent(p) \in 0 .. 2 * Prime - 1 /\ WithQ(p) = Word * Sent(p) /\ WithQ(p) < Radix * Word
  BY SentBounds
<1>3. WithQ(p) \in Nat
  BY <1>1, <1>2
<1>4. WithQ(p) \div (Radix * Word) = 0
  <2>1. Radix * Word \in Nat \ {0}
    BY <1>1
  <2>2. (Radix * Word) * 0 <= WithQ(p) /\ WithQ(p) < (Radix * Word) * 0 + Radix * Word
    BY <1>2, <1>3, <2>1
  <2>3. QED
    BY <1>3, <2>1, <2>2, DivUnique
<1>5. (WithQ(p) \div Word) % Radix = Sent(p)
  <2>1. Sent(p) \in 0 .. Radix - 1
    BY <1>1, <1>2
  <2>2. \A s \in 0 .. Radix - 1 : s % Radix = s
    BY <1>1
  <2>3. QED
    BY <2>1, <2>2 DEF Sent
<1>6. term + Sent(p) \in Nat /\ term + Sent(p) <= Prime * Word + Prime - 1
  <2>1. Prime * Word \in Nat
    BY <1>1
  <2>2. QED
    BY <1>1, <1>2, <2>1
<1>7. Prime * Word + Prime - 1 < Radix * Word
  <2>1. PICK d \in Nat : Radix = 2 * Prime + d
    <3>1. Radix - 2 * Prime \in Nat /\ Radix = 2 * Prime + (Radix - 2 * Prime)
      BY <1>1
    <3>2. QED
      BY <3>1
  <2>2. Radix * Word = 2 * (Prime * Word) + d * Word /\ d * Word \in Nat /\ Prime * Word \in Nat
    BY <1>1, <2>1
  <2>3. PICK e \in Nat : Word = 1 + e
    BY <1>1
  <2>4. Prime * Word = Prime + Prime * e /\ Prime * e \in Nat
    BY <1>1, <2>3
  <2>5. QED
    BY <1>1, <2>2, <2>4
<1>8. 0 * Word = 0 /\ 0 + term = term
  BY <1>1
<1>9. (term + Sent(p)) % (Radix * Word) = term + Sent(p)
  <2>1. \A m \in Nat \ {0} : \A s \in 0 .. m - 1 : s % m = s
    OBVIOUS
  <2>2. Radix * Word \in Nat \ {0}
    BY <1>1
  <2>3. term + Sent(p) \in 0 .. (Radix * Word) - 1
    <3>1. Prime * Word \in Nat
      BY <1>1
    <3>2. QED
      BY <1>1, <1>6, <1>7, <2>2, <3>1
  <2>4. QED
    BY <2>1, <2>2, <2>3
<1>10. Round(term, p) = (0 * Word + term + Sent(p)) % (Radix * Word)
  BY <1>4, <1>5 DEF Round
<1>11. QED
  BY <1>6, <1>8, <1>9, <1>10

\* Congruence is an equivalence, kept by sums and products.
LEMMA CongruentRefl ==
    ASSUME NEW a \in Int
    PROVE  Congruent(a, a)
<1>1. Prime \in Int
  BY FieldAssumption
<1>2. a = a + 0 * Prime /\ 0 \in Int
  BY <1>1
<1>3. QED
  BY <1>2 DEF Congruent

LEMMA CongruentSym ==
    ASSUME NEW a \in Int, NEW b \in Int, Congruent(a, b)
    PROVE  Congruent(b, a)
<1>1. Prime \in Int
  BY FieldAssumption
<1>2. PICK k \in Int : a = b + k * Prime
  BY DEF Congruent
<1>3. b = a + (-k) * Prime /\ -k \in Int
  BY <1>1, <1>2
<1>4. QED
  BY <1>3 DEF Congruent

LEMMA CongruentTrans ==
    ASSUME NEW a \in Int, NEW b \in Int, NEW c \in Int, Congruent(a, b), Congruent(b, c)
    PROVE  Congruent(a, c)
<1>1. Prime \in Int
  BY FieldAssumption
<1>2. PICK k \in Int : a = b + k * Prime
  BY DEF Congruent
<1>3. PICK l \in Int : b = c + l * Prime
  BY DEF Congruent
<1>4. a = c + (k + l) * Prime /\ k + l \in Int
  BY <1>1, <1>2, <1>3
<1>5. QED
  BY <1>4 DEF Congruent

LEMMA CongruentAdd ==
    ASSUME NEW a \in Int, NEW b \in Int, NEW c \in Int, NEW d \in Int, Congruent(a, b), Congruent(c, d)
    PROVE  Congruent(a + c, b + d)
<1>1. Prime \in Int
  BY FieldAssumption
<1>2. PICK k \in Int : a = b + k * Prime
  BY DEF Congruent
<1>3. PICK l \in Int : c = d + l * Prime
  BY DEF Congruent
<1>4. a + c = (b + d) + (k + l) * Prime /\ k + l \in Int
  BY <1>1, <1>2, <1>3
<1>5. QED
  BY <1>4 DEF Congruent

LEMMA CongruentTimes ==
    ASSUME NEW a \in Int, NEW b \in Int, NEW c \in Int, Congruent(a, b)
    PROVE  Congruent(a * c, b * c)
<1>1. Prime \in Int
  BY FieldAssumption
<1>2. PICK k \in Int : a = b + k * Prime
  BY DEF Congruent
<1>3. a * c = b * c + (k * c) * Prime /\ k * c \in Int
  <2>1. PICK p \in Int : p = Prime
    BY <1>1
  <2>2. (b + k * p) * c = b * c + (k * c) * p
    BY <2>1
  <2>3. QED
    BY <1>2, <2>1, <2>2
<1>4. QED
  BY <1>3 DEF Congruent

\* Elements that are congruent are equal.
LEMMA CongruentFr ==
    ASSUME NEW a \in Fr, NEW b \in Fr, Congruent(a, b)
    PROVE  a = b
<1>1. Prime \in Nat \ {0}
  BY FieldAssumption
<1>2. PICK k \in Int : a = b + k * Prime
  BY DEF Congruent
<1>3. a \in Int /\ b \in Int /\ 0 <= a /\ a < Prime /\ 0 <= b /\ b < Prime
  BY <1>1 DEF Fr
<1>4. k = 0
  <2>1. PICK p \in Int : p = Prime
    BY <1>1
  <2>2. CASE k >= 1
    <3>1. PICK d \in Nat : k = 1 + d
      BY <2>2
    <3>2. k * p = p + d * p /\ d * p >= 0
      BY <1>1, <2>1, <3>1
    <3>3. QED
      BY <1>2, <1>3, <2>1, <3>2
  <2>3. CASE k <= -1
    <3>1. PICK d \in Nat : k = -1 - d
      <4>1. -1 - k \in Nat /\ k = -1 - (-1 - k)
        BY <2>3
      <4>2. QED
        BY <4>1
    <3>2. k * p = -p - d * p /\ d * p >= 0
      BY <1>1, <2>1, <3>1
    <3>3. QED
      BY <1>2, <1>3, <2>1, <3>2
  <2>4. QED
    BY <2>2, <2>3
<1>5. QED
  BY <1>1, <1>2, <1>3, <1>4

LEMMA CongruentMod ==
    ASSUME NEW a \in Int
    PROVE  a % Prime \in Fr /\ Congruent(a % Prime, a)
<1>1. Prime \in Nat \ {0}
  BY FieldAssumption
<1>2. a % Prime \in 0 .. Prime - 1 /\ a = Prime * (a \div Prime) + (a % Prime) /\ a \div Prime \in Int
  BY <1>1
<1>3. PICK q \in Int : a = Prime * q + (a % Prime)
  BY <1>2
<1>4. a % Prime = a + (-q) * Prime /\ -q \in Int
  <2>1. PICK p \in Int : p = Prime
    BY <1>1
  <2>2. PICK r \in Int : r = a % Prime
    BY <1>1, <1>2
  <2>3. a = p * q + r
    BY <1>3, <2>1, <2>2
  <2>4. r = a + (-q) * p
    BY <2>3
  <2>5. QED
    BY <2>1, <2>2, <2>4
<1>5. QED
  BY <1>2, <1>4 DEF Fr, Congruent
\* The products of the rounds.
ProductOf(terms) ==
    CHOOSE g : g = [i \in 0 .. Limbs - 1 |-> IF i = 0 THEN terms[0] ELSE Round(terms[i], g[i - 1])]
Reduced(v) == IF v >= Prime THEN v - Prime ELSE v

LEMMA MontgomeryIs ==
    ASSUME NEW terms
    PROVE  Montgomery(terms) = Reduced((WithQ(ProductOf(terms)[Limbs - 1]) \div Word) % Radix)
BY Zenon DEF Montgomery, ProductOf, Round, WithQ, Factor, Reduced

LEMMA ProductEquations ==
    ASSUME NEW terms \in [0 .. Limbs - 1 -> Nat]
    PROVE  /\ ProductOf(terms)[0] = terms[0]
           /\ \A i \in 0 .. Limbs - 2 : ProductOf(terms)[i + 1] = Round(terms[i + 1], ProductOf(terms)[i])
<1> DEFINE N == Limbs - 1
           step == [i \in 1 .. N |-> [v \in Nat |-> Round(terms[i], v)]]
<1>1. Limbs \in Nat /\ N \in Nat /\ N >= 1 /\ Word \in Nat \ {0} /\ Radix \in Nat \ {0} /\ Prime \in Nat
  BY FieldAssumption, WordPowers
<1> HIDE DEF N
<1>2. ASSUME NEW i \in 1 .. N, NEW v \in Nat
      PROVE  Round(terms[i], v) \in Nat
  <2>1. terms[i] \in Nat
    BY <1>1, <1>2 DEF N
  <2>2. Factor(np, v, Word) \in Nat
    <3>1. v % Word \in Nat
      BY <1>1
    <3>2. np * (v % Word) \in Nat
      BY <3>1, np_Type
    <3>3. QED
      BY <1>1, <3>2 DEF Factor
  <2>3. WithQ(v) \in Nat
    BY <1>1, <2>2 DEF WithQ
  <2>4. Radix * Word \in Nat \ {0}
    BY <1>1
  <2>5. WithQ(v) \div (Radix * Word) \in Nat /\ WithQ(v) \div Word \in Nat
    BY <1>1, <2>3, <2>4, DivBounds
  <2>6. (WithQ(v) \div Word) % Radix \in Nat
    BY <1>1, <2>5
  <2>7. (WithQ(v) \div (Radix * Word)) * Word \in Nat
    BY <1>1, <2>5
  <2>8. (WithQ(v) \div (Radix * Word)) * Word + terms[i] + ((WithQ(v) \div Word) % Radix) \in Nat
    BY <2>1, <2>6, <2>7
  <2>9. \A a \in Nat, m \in Nat \ {0} : a % m \in Nat
    OBVIOUS
  <2>10. QED
    BY <2>4, <2>8, <2>9 DEF Round
<1>3. step \in [1 .. N -> [Nat -> Nat]]
  BY <1>2
<1>4. terms[0] \in Nat
  BY <1>1 DEF N
<1>5. PICK g \in [0 .. N -> Nat] : Recursive(g, terms[0], step, N)
  <2> HIDE DEF step
  <2>1. N \in Nat
    BY <1>1
  <2>2. QED
    BY <1>3, <1>4, <2>1, RecursionExists
<1>6. g = [i \in 0 .. N |-> IF i = 0 THEN terms[0] ELSE Round(terms[i], g[i - 1])]
  <2>1. ASSUME NEW i \in 0 .. N
        PROVE  g[i] = IF i = 0 THEN terms[0] ELSE Round(terms[i], g[i - 1])
    <3>1. CASE i = 0
      BY <1>5, <3>1 DEF Recursive
    <3>2. CASE i # 0
      <4>1. i \in 1 .. N /\ i - 1 \in 0 .. N
        BY <1>1, <3>2
      <4>2. g[i - 1] \in Nat
        BY <4>1
      <4>3. step[i][g[i - 1]] = Round(terms[i], g[i - 1])
        BY <4>1, <4>2
      <4>4. g[i] = step[i][g[i - 1]]
        BY <1>5, <3>2 DEF Recursive
      <4>5. QED
        BY <3>2, <4>3, <4>4
    <3>3. QED
      BY <3>1, <3>2
  <2>2. g = [i \in 0 .. N |-> g[i]]
    OBVIOUS
  <2>3. QED
    BY <2>1, <2>2
<1> DEFINE product == ProductOf(terms)
<1>7. product = [i \in 0 .. N |-> IF i = 0 THEN terms[0] ELSE Round(terms[i], product[i - 1])]
  BY <1>6 DEF ProductOf, N
<1> HIDE DEF product
<1>8. product[0] = terms[0]
  BY <1>1, <1>7
<1>9. ASSUME NEW i \in 0 .. Limbs - 2
      PROVE  product[i + 1] = Round(terms[i + 1], product[i])
  <2>1. i + 1 \in 0 .. N /\ i + 1 # 0 /\ (i + 1) - 1 = i
    BY <1>1 DEF N
  <2>2. QED
    BY <1>7, <2>1
<1>10. QED
  BY <1>8, <1>9 DEF product

\* What a thread's E.fr.mul and the conversions yield: less than the prime, and
\* the terms' sum divided by Radix.
LEMMA MontgomeryCorrect ==
    ASSUME NEW terms \in [0 .. Limbs - 1 -> Nat],
           \A i \in 0 .. Limbs - 1 : terms[i] <= Prime * Word - Prime,
           NEW V \in [0 .. Limbs - 1 -> Int], V[0] = terms[0],
           \A i \in 0 .. Limbs - 2 : V[i + 1] = V[i] + terms[i + 1] * WordPower[i + 1]
    PROVE  /\ Montgomery(terms) \in Fr
           /\ Congruent(Montgomery(terms) * Radix, V[Limbs - 1])
<1> DEFINE product == ProductOf(terms)
           N == Limbs - 1
           Good(i) == /\ product[i] \in Nat /\ product[i] <= Prime * Word + Prime - 1
                      /\ Congruent(product[i] * WordPower[i], V[i])
           S == {i \in 0 .. N : Good(i)}
<1>1. Limbs \in Nat /\ N \in Nat /\ Word \in Nat \ {0} /\ Radix \in Nat \ {0} /\ Prime \in Nat \ {0}
        /\ 2 * Prime <= Radix
  BY FieldAssumption, WordPowers
<1>2. product[0] = terms[0] /\ \A i \in 0 .. N - 1 : product[i + 1] = Round(terms[i + 1], product[i])
  <2>1. \A i \in 0 .. N - 1 : i \in 0 .. Limbs - 2
    BY <1>1
  <2>2. QED
    BY <2>1, ProductEquations
<1>3. \A i \in 0 .. N : WordPower[i] \in Nat
  BY <1>1, WordPowers
<1>4. \A i \in 0 .. N : terms[i] \in Nat /\ terms[i] <= Prime * Word - Prime /\ V[i] \in Int
  OBVIOUS
<1>5. \A i \in 0 .. N - 1 : WordPower[i + 1] = Word * WordPower[i] /\ V[i + 1] = V[i] + terms[i + 1] * WordPower[i + 1]
  <2>1. \A i \in 0 .. N - 1 : i \in 0 .. Limbs - 1 /\ i \in 0 .. Limbs - 2
    BY <1>1
  <2>2. QED
    BY <2>1, WordPowers
<1>6. WordPower[0] = 1 /\ V[0] = terms[0]
  BY WordPowers
<1> HIDE DEF product
\* What is sent on from a product is congruent to it, a limb higher.
<1>7. ASSUME NEW i \in 0 .. N, Good(i)
      PROVE  /\ Sent(product[i]) \in 0 .. 2 * Prime - 1
             /\ Congruent(Sent(product[i]) * (Word * WordPower[i]), V[i])
  <2>1. product[i] \in Nat /\ product[i] <= Prime * Word + Prime - 1
    BY <1>7
  <2>2. /\ Sent(product[i]) \in 0 .. 2 * Prime - 1 /\ WithQ(product[i]) = Word * Sent(product[i])
        /\ \E k \in Int : WithQ(product[i]) = product[i] + k * Prime
    BY <2>1, SentBounds
  <2>3. Congruent(WithQ(product[i]), product[i])
    BY <2>2 DEF Congruent
  <2>4. PICK s \in Nat : s = Sent(product[i])
    BY <1>1, <2>2
  <2>5. PICK p \in Nat : p = product[i]
    BY <2>1
  <2>6. PICK w \in Nat : w = WordPower[i]
    BY <1>3
  <2>7. PICK v \in Int : v = V[i]
    BY <1>4
  <2>8. Congruent(Word * s, p)
    BY <2>2, <2>3, <2>4, <2>5
  <2>9. Word * s \in Int /\ p \in Int /\ w \in Int /\ p * w \in Int
    BY <1>1
  <2>10. Congruent((Word * s) * w, p * w)
    BY <2>8, <2>9, CongruentTimes
  <2>11. Congruent(p * w, v)
    BY <1>7, <2>5, <2>6, <2>7
  <2>12. (Word * s) * w = s * (Word * w) /\ s * (Word * w) \in Int
    BY <1>1
  <2>13. Congruent(s * (Word * w), v)
    BY <2>9, <2>10, <2>11, <2>12, CongruentTrans
  <2>14. QED
    BY <2>2, <2>4, <2>6, <2>7, <2>13
<1>8. 0 \in S
  <2>1. product[0] = terms[0] /\ terms[0] \in Nat /\ terms[0] <= Prime * Word - Prime /\ 0 \in 0 .. N
    BY <1>1, <1>2, <1>4
  <2>2. product[0] <= Prime * Word + Prime - 1
    <3>1. Prime * Word \in Nat
      BY <1>1
    <3>2. QED
      BY <1>1, <2>1, <3>1
  <2>3. product[0] * WordPower[0] = V[0]
    BY <1>6, <2>1
  <2>4. Congruent(product[0] * WordPower[0], V[0])
    BY <1>4, <2>1, <2>3, CongruentRefl
  <2>5. QED
    BY <2>1, <2>2, <2>4
<1>9. ASSUME NEW i \in 0 .. N - 1, i \in S
      PROVE  i + 1 \in S
  <2>1. Good(i) /\ i \in 0 .. N /\ i + 1 \in 0 .. N
    BY <1>1, <1>9
  <2>2. Sent(product[i]) \in 0 .. 2 * Prime - 1 /\ Congruent(Sent(product[i]) * (Word * WordPower[i]), V[i])
    BY <1>7, <2>1
  <2>3. product[i] \in Nat /\ product[i] <= Prime * Word + Prime - 1
    BY <2>1
  <2>4. terms[i + 1] \in Nat /\ terms[i + 1] <= Prime * Word - Prime
    BY <1>4, <2>1
  <2>5. /\ Round(terms[i + 1], product[i]) = terms[i + 1] + Sent(product[i])
        /\ Round(terms[i + 1], product[i]) <= Prime * Word + Prime - 1
    BY <2>3, <2>4, RoundIs
  <2>6. product[i + 1] = terms[i + 1] + Sent(product[i]) /\ product[i + 1] <= Prime * Word + Prime - 1
    BY <1>2, <2>5
  <2>7. PICK s \in Nat : s = Sent(product[i])
    BY <1>1, <2>2
  <2>8. PICK t \in Nat : t = terms[i + 1]
    BY <2>4
  <2>9. PICK w \in Nat : w = WordPower[i + 1]
    BY <1>3, <2>1
  <2>10. PICK v \in Int : v = V[i]
    BY <1>4, <2>1
  <2>11. Congruent(s * w, v)
    BY <1>5, <2>2, <2>7, <2>9, <2>10
  <2>12. t * w \in Int /\ s * w \in Int /\ t * w + s * w = (t + s) * w
    OBVIOUS
  <2>13. Congruent(t * w, t * w)
    BY <2>12, CongruentRefl
  <2>14. Congruent(t * w + s * w, t * w + v)
    BY <2>11, <2>12, <2>13, CongruentAdd
  <2>15. t * w + v = v + t * w
    BY <2>12
  <2>16. Congruent((t + s) * w, v + t * w)
    BY <2>12, <2>14, <2>15, Zenon
  <2>17. product[i + 1] = t + s /\ V[i + 1] = v + t * w
    BY <1>5, <2>6, <2>7, <2>8, <2>9, <2>10
  <2>18. Congruent(product[i + 1] * WordPower[i + 1], V[i + 1])
    BY <2>9, <2>16, <2>17, Zenon
  <2>19. product[i + 1] \in Nat
    BY <2>17
  <2>20. QED
    BY <2>1, <2>6, <2>18, <2>19
<1>10. Good(N) /\ N \in 0 .. N
  <2> HIDE DEF S
  <2>1. 0 .. N \subseteq S
    BY <1>1, <1>8, <1>9, IntervalInduction
  <2>2. N \in 0 .. N
    BY <1>1
  <2>3. QED
    BY <2>1, <2>2 DEF S
<1>11. PICK s \in Nat : s = Sent(product[N]) /\ s <= 2 * Prime - 1
  <2>1. Sent(product[N]) \in 0 .. 2 * Prime - 1
    BY <1>7, <1>10
  <2>2. QED
    BY <1>1, <2>1
<1>12. Congruent(s * Radix, V[N])
  <2>1. Radix = Word * WordPower[N]
    BY WordPowers
  <2>2. QED
    BY <1>7, <1>10, <1>11, <2>1
<1>13. Montgomery(terms) = Reduced(s)
  <2>1. s % Radix = s
    BY <1>1, <1>11
  <2>2. Montgomery(terms) = Reduced((WithQ(product[N]) \div Word) % Radix)
    BY MontgomeryIs DEF product
  <2>3. QED
    BY <1>11, <2>1, <2>2 DEF Sent
<1>14. Reduced(s) \in Fr /\ Congruent(Reduced(s), s)
  <2>1. CASE s >= Prime
    <3>1. Reduced(s) = s - Prime /\ s - Prime = s + (-1) * Prime /\ -1 \in Int
      BY <1>1, <2>1 DEF Reduced
    <3>2. QED
      BY <1>1, <1>11, <2>1, <3>1 DEF Fr, Congruent
  <2>2. CASE ~(s >= Prime)
    <3>1. Reduced(s) = s
      BY <2>2 DEF Reduced
    <3>2. s \in Fr
      BY <1>1, <2>2 DEF Fr
    <3>3. QED
      BY <3>1, <3>2, CongruentRefl
  <2>3. QED
    BY <2>1, <2>2
<1>15. Congruent(Reduced(s) * Radix, V[N])
  <2>1. PICK r \in Int : r = Reduced(s)
    BY <1>1, <1>14 DEF Fr
  <2>2. PICK m \in Int : m = Radix
    BY <1>1
  <2>3. PICK v \in Int : v = V[N]
    BY <1>4, <1>10
  <2>4. Congruent(r, s) /\ s \in Int
    BY <1>14, <2>1
  <2>5. Congruent(r * m, s * m)
    BY <2>4, CongruentTimes
  <2>6. r * m \in Int /\ s * m \in Int /\ Congruent(s * m, v)
    BY <1>12, <2>2, <2>3
  <2>7. Congruent(r * m, v)
    BY <2>5, <2>6, CongruentTrans
  <2>8. QED
    BY <2>1, <2>2, <2>3, <2>7
<1>16. QED
  BY <1>13, <1>14, <1>15

\* The limbs of a number, one more at a time.
LEMMA ModSplit ==
    ASSUME NEW a \in Nat, NEW P \in Nat \ {0}, NEW Base \in Nat \ {0}
    PROVE  a % (Base * P) = (a % P) + ((a \div P) % Base) * P
<1> DEFINE q == a \div P
           r == a % P
<1>1. q \in Nat /\ r \in 0 .. P - 1 /\ a = P * q + r
  BY SMT
<1> HIDE DEF q, r
<1> DEFINE k == q \div Base
           l == q % Base
<1>2. k \in Nat /\ l \in 0 .. Base - 1 /\ q = Base * k + l
  BY <1>1, SMT
<1> HIDE DEF k, l
<1>3. a = (Base * P) * k + (r + l * P)
  <2>1. P * q = (Base * P) * k + l * P
    <3>1. P * (Base * k + l) = (Base * P) * k + l * P
      BY <1>2
    <3>2. QED
      BY <1>2, <3>1
  <2>2. P * q \in Int /\ (Base * P) * k \in Int /\ l * P \in Int /\ r \in Int
    BY <1>1, <1>2
  <2>3. PICK x \in Int : x = (Base * P) * k
    BY <2>2
  <2>4. PICK y \in Int : y = l * P
    BY <2>2
  <2>5. a = x + (r + y)
    BY <1>1, <2>1, <2>2, <2>3, <2>4
  <2>6. QED
    BY <2>3, <2>4, <2>5
<1>4. r + l * P \in 0 .. Base * P - 1
  <2>1. PICK d \in Nat : Base = l + 1 + d
    <3>1. Base - l - 1 \in Nat /\ Base = l + 1 + (Base - l - 1)
      BY <1>2
    <3>2. QED
      BY <3>1
  <2>2. Base * P = l * P + P + d * P /\ l * P \in Nat /\ d * P \in Nat
    <3>1. (l + 1 + d) * P = l * P + P + d * P /\ l * P \in Nat /\ d * P \in Nat
      BY <1>2
    <3>2. QED
      BY <2>1, <3>1
  <2>3. QED
    BY <1>1, <2>2
<1>5. Base * P \in Nat \ {0}
  OBVIOUS
<1>6. \A m \in Nat \ {0}, j \in Nat : \A s \in 0 .. m - 1 : (m * j + s) % m = s
  <2> TAKE m \in Nat \ {0}, j \in Nat
  <2> TAKE s \in 0 .. m - 1
  <2> DEFINE x == m * j + s
  <2>1. x \in Nat /\ m * j <= x /\ x < m * j + m
    BY SMT
  <2>2. x \div m = j
    BY <2>1, DivUnique
  <2>3. x = m * (x \div m) + (x % m) /\ x % m \in 0 .. m - 1
    BY <2>1, SMT
  <2> HIDE DEF x
  <2>4. x = m * j + (x % m) /\ m * j \in Int
    BY <2>2, <2>3
  <2>5. x % m = s
    <3>1. x = m * j + s
      BY DEF x
    <3>2. QED
      BY <2>3, <2>4, <3>1
  <2>6. QED
    BY <2>5 DEF x
<1>7. PICK m \in Nat \ {0} : m = Base * P
  BY <1>5
<1>8. PICK s \in 0 .. m - 1 : s = r + l * P
  BY <1>4, <1>7
<1>9. a = m * k + s
  BY <1>3, <1>7, <1>8
<1>10. a % m = s
  BY <1>2, <1>6, <1>9
<1>11. QED
  BY <1>7, <1>8, <1>10 DEF r, l, q

\* Fr_rawMMul: the product divided by Radix.
LEMMA rawMMulCorrect ==
    ASSUME NEW a \in 0 .. Radix - 1, NEW b \in Fr
    PROVE  rawMMul(a, b) \in Fr /\ Congruent(rawMMul(a, b) * Radix, a * b)
<1> DEFINE terms == [i \in 0 .. Limbs - 1 |-> b * limb(a, i)]
           V == [i \in 0 .. Limbs - 1 |-> b * (a % WordPower[i + 1])]
<1>1. Limbs \in Nat \ {0, 1} /\ Word \in Nat \ {0, 1} /\ Radix \in Nat \ {0} /\ Prime \in Nat \ {0}
  BY FieldAssumption, WordPowers
<1>2. a \in Nat /\ b \in Nat /\ b <= Prime - 1
  BY <1>1 DEF Fr
<1>3. \A i \in 0 .. Limbs : WordPower[i] \in Nat \ {0}
  BY WordPowers
<1>4. ASSUME NEW i \in 0 .. Limbs - 1
      PROVE  /\ limb(a, i) \in 0 .. Word - 1
             /\ b * limb(a, i) \in Nat /\ b * limb(a, i) <= Prime * Word - Prime
  <2>1. WordPower[i] \in Nat \ {0}
    BY <1>1, <1>3
  <2>2. a \div WordPower[i] \in Nat
    BY <1>2, <2>1, DivBounds
  <2>3. limb(a, i) \in 0 .. Word - 1
    BY <1>1, <2>2 DEF limb
  <2>4. PICK l \in Nat : l = limb(a, i) /\ l <= Word - 1
    BY <1>1, <2>3
  <2>5. b * l \in Nat /\ b * l <= Prime * l
    BY <1>1, <1>2, <2>4, TimesMonotone
  <2>6. l * Prime \in Nat /\ l * Prime <= (Word - 1) * Prime
    <3>1. Word - 1 \in Nat /\ Prime \in Nat
      BY <1>1
    <3>2. QED
      BY <2>4, <3>1, TimesMonotone
  <2>7. (Word - 1) * Prime = Prime * Word - Prime /\ l * Prime = Prime * l
    BY <1>1
  <2>8. PICK x \in Nat : x = b * l
    BY <2>5
  <2>9. x <= Prime * Word - Prime
    <3>1. Prime * l \in Int /\ Prime * Word - Prime \in Int
      BY <1>1
    <3>2. x <= Prime * l /\ Prime * l <= Prime * Word - Prime
      BY <2>5, <2>6, <2>7, <2>8
    <3>3. \A m, n \in Int : x <= m /\ m <= n => x <= n
      OBVIOUS
    <3>4. QED
      BY <3>1, <3>2, <3>3
  <2>10. QED
    BY <2>3, <2>4, <2>8, <2>9
<1>5. terms \in [0 .. Limbs - 1 -> Nat] /\ \A i \in 0 .. Limbs - 1 : terms[i] <= Prime * Word - Prime
  BY <1>4
<1>6. ASSUME NEW i \in 0 .. Limbs - 1
      PROVE  a % WordPower[i + 1] \in Nat /\ b * (a % WordPower[i + 1]) \in Int
  <2>1. WordPower[i + 1] \in Nat \ {0}
    BY <1>1, <1>3
  <2>2. \A m \in Nat \ {0} : a % m \in Nat
    BY <1>2
  <2>3. a % WordPower[i + 1] \in Nat
    BY <2>1, <2>2
  <2>4. QED
    BY <1>2, <2>3
<1>7. V \in [0 .. Limbs - 1 -> Int]
  BY <1>6
<1>8. V[0] = terms[0]
  <2>1. WordPower[0 + 1] = Word /\ WordPower[0] = 1
    <3>1. 0 \in 0 .. Limbs - 1 /\ Word * 1 = Word
      BY <1>1
    <3>2. QED
      BY <3>1, WordPowers
  <2>2. limb(a, 0) = a % Word
    <3>1. a \div 1 = a
      BY <1>2
    <3>2. QED
      BY <2>1, <3>1 DEF limb
  <2>3. 0 \in 0 .. Limbs - 1
    BY <1>1
  <2>4. QED
    BY <2>1, <2>2, <2>3
<1>9. ASSUME NEW i \in 0 .. Limbs - 2
      PROVE  V[i + 1] = V[i] + terms[i + 1] * WordPower[i + 1]
  <2>1. i \in 0 .. Limbs - 1 /\ i + 1 \in 0 .. Limbs - 1
    BY <1>1
  <2>2. WordPower[(i + 1) + 1] = Word * WordPower[i + 1]
    BY <2>1, WordPowers
  <2>3. PICK P \in Nat \ {0} : P = WordPower[i + 1]
    <3>1. i + 1 \in 0 .. Limbs
      BY <1>1
    <3>2. QED
      BY <1>3, <3>1
  <2>4. a % (Word * P) = (a % P) + ((a \div P) % Word) * P
    <3>1. Word \in Nat \ {0}
      BY <1>1
    <3>2. QED
      BY <1>2, <3>1, ModSplit
  <2>5. limb(a, i + 1) = (a \div P) % Word
    BY <2>3 DEF limb
  <2>6. PICK l \in Nat : l = limb(a, i + 1)
    BY <1>1, <1>4, <2>1
  <2>7. PICK m \in Nat : m = a % P
    BY <1>6, <2>1, <2>3
  <2>8. a % (Word * P) = m + l * P
    BY <2>4, <2>5, <2>6, <2>7
  <2>9. b * (m + l * P) = b * m + (b * l) * P
    BY <1>2
  <2>10. V[i + 1] = b * (m + l * P)
    BY <2>1, <2>2, <2>3, <2>8
  <2>11. V[i] = b * m
    BY <2>1, <2>3, <2>7
  <2>12. terms[i + 1] = b * l
    BY <2>1, <2>6
  <2> HIDE DEF V, terms
  <2>13. QED
    BY <2>3, <2>9, <2>10, <2>11, <2>12
<1>10. V[Limbs - 1] = a * b
  <2>1. Limbs - 1 \in 0 .. Limbs - 1 /\ (Limbs - 1) + 1 = Limbs
    BY <1>1
  <2>2. a % Radix = a
    BY <1>1
  <2>3. V[Limbs - 1] = b * a
    BY <2>1, <2>2 DEF Radix
  <2>4. QED
    BY <1>2, <2>3
<1>11. rawMMul(a, b) = Montgomery(terms)
  BY DEF rawMMul
<1> HIDE DEF terms, V
<1>12. QED
  BY <1>5, <1>7, <1>8, <1>9, <1>10, <1>11, MontgomeryCorrect

LEMMA rawFromMontgomeryCorrect ==
    ASSUME NEW a \in Fr
    PROVE  rawFromMontgomery(a) \in Fr /\ Congruent(rawFromMontgomery(a) * Radix, a)
<1> DEFINE terms == [i \in 0 .. Limbs - 1 |-> IF i = 0 THEN a ELSE 0]
           V == [i \in 0 .. Limbs - 1 |-> a]
<1>1. Limbs \in Nat \ {0, 1} /\ Word \in Nat \ {0, 1} /\ Prime \in Nat \ {0}
  BY FieldAssumption
<1>2. a \in Nat /\ a <= Prime - 1
  BY <1>1 DEF Fr
<1>3. a <= Prime * Word - Prime /\ 0 <= Prime * Word - Prime
  <2>1. PICK d \in Nat : Word = 2 + d
    <3>1. Word - 2 \in Nat /\ Word = 2 + (Word - 2)
      BY <1>1
    <3>2. QED
      BY <3>1
  <2>2. Prime * Word = 2 * Prime + Prime * d /\ Prime * d \in Nat
    BY <1>1, <2>1
  <2>3. QED
    BY <1>1, <1>2, <2>2
<1>4. terms \in [0 .. Limbs - 1 -> Nat] /\ \A i \in 0 .. Limbs - 1 : terms[i] <= Prime * Word - Prime
  BY <1>2, <1>3
<1>5. V \in [0 .. Limbs - 1 -> Int] /\ V[0] = terms[0] /\ V[Limbs - 1] = a
  BY <1>1, <1>2
<1>6. ASSUME NEW i \in 0 .. Limbs - 2
      PROVE  V[i + 1] = V[i] + terms[i + 1] * WordPower[i + 1]
  <2>1. i \in 0 .. Limbs - 1 /\ i + 1 \in 0 .. Limbs - 1 /\ i + 1 # 0
    BY <1>1
  <2>2. terms[i + 1] = 0 /\ V[i + 1] = a /\ V[i] = a
    BY <2>1
  <2>3. WordPower[i + 1] \in Nat
    <3>1. i + 1 \in 0 .. Limbs
      BY <1>1
    <3>2. QED
      BY <3>1, WordPowers
  <2>4. 0 * WordPower[i + 1] = 0
    BY <2>3
  <2>5. QED
    BY <1>2, <2>2, <2>4
<1>7. rawFromMontgomery(a) = Montgomery(terms)
  BY DEF rawFromMontgomery
<1> HIDE DEF terms, V
<1>8. QED
  BY <1>4, <1>5, <1>6, <1>7, MontgomeryCorrect

\* Fr_rawAdd: one subtraction of the prime is enough.
LEMMA rawAddCorrect ==
    ASSUME NEW a \in Fr, NEW b \in Fr
    PROVE  rawAdd(a, b) \in Fr /\ Congruent(rawAdd(a, b), a + b)
<1>1. Prime \in Nat \ {0} /\ Radix \in Nat \ {0} /\ 2 * Prime <= Radix
  BY FieldAssumption, WordPowers
<1>2. PICK s \in Nat : s = a + b /\ s < 2 * Prime
  BY <1>1 DEF Fr
<1>3. s % Radix = s /\ s \div Radix = 0
  BY <1>1, <1>2
<1>4. CASE s >= Prime
  <2>1. rawAdd(a, b) = (s - Prime) % Radix
    BY <1>2, <1>3, <1>4 DEF rawAdd
  <2>2. rawAdd(a, b) = s - Prime /\ s - Prime = (a + b) + (-1) * Prime /\ -1 \in Int
    BY <1>1, <1>2, <1>4, <2>1
  <2>3. QED
    BY <1>1, <1>2, <1>4, <2>2 DEF Fr, Congruent
<1>5. CASE ~(s >= Prime)
  <2>1. rawAdd(a, b) = s
    BY <1>2, <1>3, <1>5 DEF rawAdd
  <2>2. s \in Fr /\ a + b \in Int
    BY <1>1, <1>2, <1>5 DEF Fr
  <2>3. QED
    BY <1>2, <2>1, <2>2, CongruentRefl
<1>6. QED
  BY <1>4, <1>5

\* Radix has an inverse, since Fr_np shows that a word has one.
LEMMA RadixInverse ==
    \E d \in Int : Congruent(Radix * d, 1)
<1> DEFINE S == {i \in 0 .. Limbs : \E d \in Int : Congruent(WordPower[i] * d, 1)}
<1>1. Limbs \in Nat \ {0, 1} /\ Word \in Nat \ {0, 1} /\ Prime \in Nat \ {0}
  BY FieldAssumption
<1>2. PICK c \in Int : np * Prime + 1 = Word * c
  <2>1. np * Prime + 1 \in Int
    BY <1>1, np_Type
  <2>2. (np * Prime + 1) % Word = 0
    BY np_Type DEF Vanishes
  <2>3. PICK a \in Int : a = np * Prime + 1
    BY <2>1
  <2>4. a % Word = 0 /\ Word \in Nat \ {0}
    BY <1>1, <2>2, <2>3
  <2>5. \E k \in Int : a = Word * k
    BY <2>4, Multiples
  <2>6. QED
    BY <2>3, <2>5
<1>3. Congruent(Word * c, 1) /\ Word * c \in Int
  <2>1. Word * c = 1 + np * Prime /\ np \in Int
    BY <1>1, <1>2, np_Type
  <2>2. QED
    BY <1>1, <2>1 DEF Congruent
<1>4. 0 \in S
  <2>1. WordPower[0] * 1 = 1 /\ 0 \in 0 .. Limbs /\ 1 \in Int
    BY <1>1, WordPowers
  <2>2. Congruent(1, 1)
    BY CongruentRefl
  <2>3. QED
    BY <2>1, <2>2
<1>5. ASSUME NEW i \in 0 .. Limbs - 1, i \in S
      PROVE  i + 1 \in S
  <2>1. PICK d \in Int : Congruent(WordPower[i] * d, 1)
    BY <1>5
  <2>2. i \in 0 .. Limbs /\ i + 1 \in 0 .. Limbs
    BY <1>1
  <2>3. PICK w \in Int : w = WordPower[i]
    BY <2>2, WordPowers
  <2>4. WordPower[i + 1] = Word * w
    BY <2>3, WordPowers
  <2>5. PICK e \in Int : e = Word * c
    BY <1>3
  <2>6. w * d \in Int /\ (w * d) * e \in Int /\ 1 * e = e
    BY <2>5
  <2>7. Congruent((w * d) * e, 1 * e)
    <3>1. PICK u \in Int : u = 1
      OBVIOUS
    <3>2. Congruent(w * d, u)
      BY <2>1, <2>3, <3>1
    <3>3. Congruent((w * d) * e, u * e)
      BY <2>6, <3>2, CongruentTimes
    <3>4. QED
      BY <3>1, <3>3
  <2>8. Congruent((w * d) * e, 1)
    BY <1>3, <2>5, <2>6, <2>7, CongruentTrans
  <2>9. (Word * w) * (c * d) = (w * d) * e
    <3>1. PICK Base \in Int : Base = Word
      BY <1>1
    <3>2. (Base * w) * (c * d) = (w * d) * (Base * c)
      OBVIOUS
    <3>3. QED
      BY <2>5, <3>1, <3>2
  <2>10. c * d \in Int
    OBVIOUS
  <2>11. Congruent(WordPower[i + 1] * (c * d), 1)
    BY <2>4, <2>8, <2>9
  <2>12. QED
    BY <2>2, <2>10, <2>11
<1>6. Limbs \in S
  <2> HIDE DEF S
  <2>1. 0 .. Limbs \subseteq S
    BY <1>1, <1>4, <1>5, IntervalInduction
  <2>2. Limbs \in 0 .. Limbs
    BY <1>1
  <2>3. QED
    BY <2>1, <2>2
<1>7. QED
  BY <1>6 DEF Radix

LEMMA CancelRadix ==
    ASSUME NEW x \in Int, NEW y \in Int, Congruent(x * Radix, y * Radix)
    PROVE  Congruent(x, y)
<1>1. PICK R \in Int : R = Radix
  BY WordPowers
<1>2. PICK d \in Int : Congruent(R * d, 1)
  BY <1>1, RadixInverse
<1>3. x * R \in Int /\ y * R \in Int /\ R * d \in Int /\ Congruent(x * R, y * R)
  BY <1>1
<1>4. Congruent((x * R) * d, (y * R) * d)
  BY <1>3, CongruentTimes
<1>5. ASSUME NEW z \in Int
      PROVE  Congruent((z * R) * d, z) /\ (z * R) * d \in Int
  <2>1. Congruent((R * d) * z, 1 * z)
    <3>1. PICK u \in Int : u = 1
      OBVIOUS
    <3>2. Congruent(R * d, u)
      BY <1>2, <3>1
    <3>3. Congruent((R * d) * z, u * z)
      BY <1>3, <3>2, CongruentTimes
    <3>4. QED
      BY <3>1, <3>3
  <2>2. (R * d) * z = (z * R) * d /\ 1 * z = z
    OBVIOUS
  <2>3. QED
    BY <2>1, <2>2
<1>6. Congruent(x, (x * R) * d)
  BY <1>5, CongruentSym
<1>7. Congruent(x, (y * R) * d)
  BY <1>4, <1>5, <1>6, CongruentTrans
<1>8. QED
  BY <1>5, <1>7, CongruentTrans

LEMMA R2Correct == R2 \in Fr /\ Congruent(R2, Radix * Radix)
<1>1. PICK R \in Int : R = Radix
  BY WordPowers
<1>2. PICK r \in Fr : r = R % Prime /\ Congruent(r, R)
  BY CongruentMod
<1>3. r \in Int
  BY FieldAssumption, <1>2 DEF Fr
<1>4. r * r \in Int /\ r * R \in Int /\ R * R \in Int /\ R * r = r * R
  BY <1>3
<1>5. Congruent(r * r, R * r)
  BY <1>2, <1>3, CongruentTimes
<1>6. Congruent(r * R, R * R)
  BY <1>2, <1>3, CongruentTimes
<1>7. Congruent(r * r, R * R)
  BY <1>4, <1>5, <1>6, CongruentTrans
<1>8. PICK q \in Int : q = r * r
  BY <1>4
<1>9. q % Prime \in Fr /\ Congruent(q % Prime, q)
  BY CongruentMod
<1>10. q % Prime \in Int
  BY FieldAssumption, <1>9 DEF Fr
<1>11. Congruent(q % Prime, R * R)
  BY <1>4, <1>7, <1>8, <1>9, <1>10, CongruentTrans
<1>12. R2 = q % Prime
  BY <1>1, <1>2, <1>8 DEF R2
<1>13. QED
  BY <1>1, <1>9, <1>11, <1>12

LEMMA FrInt == Fr \subseteq Int /\ Fr \subseteq 0 .. Radix - 1
BY FieldAssumption, WordPowers DEF Fr

LEMMA rawToMontgomeryCorrect ==
    ASSUME NEW a \in Fr
    PROVE  rawToMontgomery(a) \in Fr /\ Congruent(rawToMontgomery(a), a * Radix)
<1>1. a \in Int /\ a \in 0 .. Radix - 1
  BY FrInt
<1>2. PICK R \in Int : R = Radix
  BY WordPowers
<1>3. PICK s \in Fr : s = R2 /\ Congruent(s, R * R)
  BY <1>2, R2Correct
<1>4. PICK t \in Fr : t = rawToMontgomery(a) /\ Congruent(t * R, a * s)
  <2>1. rawMMul(a, s) \in Fr /\ Congruent(rawMMul(a, s) * Radix, a * s)
    BY <1>1, rawMMulCorrect
  <2>2. QED
    BY <1>2, <1>3, <2>1 DEF rawToMontgomery
<1>5. s \in Int /\ t \in Int
  BY FrInt
<1>6. Congruent(s * a, (R * R) * a) /\ s * a = a * s /\ (R * R) * a = (a * R) * R
  <2>1. R * R \in Int
    OBVIOUS
  <2>2. Congruent(s * a, (R * R) * a)
    BY <1>1, <1>3, <1>5, <2>1, CongruentTimes
  <2>3. QED
    BY <1>1, <1>5, <2>2
<1>7. t * R \in Int /\ a * s \in Int /\ a * R \in Int /\ (a * R) * R \in Int
  BY <1>1, <1>5
<1>8. Congruent(t * R, (a * R) * R)
  <2>1. Congruent(a * s, (a * R) * R)
    BY <1>6
  <2>2. QED
    BY <1>4, <1>7, <2>1, CongruentTrans
<1>9. Congruent(t, a * R)
  <2>1. PICK y \in Int : y = a * R
    BY <1>7
  <2>2. Congruent(t * Radix, y * Radix)
    BY <1>2, <1>8, <2>1
  <2>3. Congruent(t, y)
    BY <1>5, <2>2, CancelRadix
  <2>4. QED
    BY <2>1, <2>3
<1>10. QED
  BY <1>2, <1>4, <1>9

\* The product of a signal and a coefficient that the proving key holds multiplied by
\* Radix twice.
LEMMA ProductCorrect ==
    ASSUME NEW w \in Fr, NEW coef \in Fr
    PROVE  LET p == rawMMul(w, rawToMontgomery(rawToMontgomery(coef)))
           IN  p \in Fr /\ Congruent(p, (coef * w) * Radix)
<1>1. w \in Int /\ coef \in Int /\ w \in 0 .. Radix - 1
  BY FrInt
<1>2. PICK R \in Int : R = Radix
  BY WordPowers
<1>3. PICK s \in Fr : s = rawToMontgomery(coef) /\ Congruent(s, coef * R)
  BY <1>2, rawToMontgomeryCorrect
<1>4. PICK t \in Fr : t = rawToMontgomery(s) /\ Congruent(t, s * R)
  BY <1>2, rawToMontgomeryCorrect
<1>5. s \in Int /\ t \in Int
  BY FrInt
<1>6. s * R \in Int /\ coef * R \in Int /\ (coef * R) * R \in Int
  BY <1>1, <1>5
<1>7. Congruent(t, (coef * R) * R)
  <2>1. Congruent(s * R, (coef * R) * R)
    BY <1>3, <1>5, <1>6, CongruentTimes
  <2>2. QED
    BY <1>4, <1>5, <1>6, <2>1, CongruentTrans
<1>8. PICK p \in Fr : p = rawMMul(w, t) /\ Congruent(p * R, w * t)
  BY <1>1, <1>2, rawMMulCorrect
<1>9. p \in Int
  BY FrInt
<1>10. Congruent(t * w, ((coef * R) * R) * w)
  BY <1>1, <1>5, <1>6, <1>7, CongruentTimes
<1>11. w * t = t * w /\ ((coef * R) * R) * w = ((coef * w) * R) * R
  BY <1>1, <1>5
<1>12. p * R \in Int /\ w * t \in Int /\ (coef * w) * R \in Int /\ ((coef * w) * R) * R \in Int
  BY <1>1, <1>5, <1>9
<1>13. Congruent(p * R, ((coef * w) * R) * R)
  <2>1. Congruent(w * t, ((coef * w) * R) * R)
    BY <1>10, <1>11
  <2>2. QED
    BY <1>8, <1>12, <2>1, CongruentTrans
<1>14. PICK y \in Int : y = (coef * w) * R
  BY <1>12
<1>15. Congruent(p * Radix, y * Radix)
  BY <1>2, <1>13, <1>14
<1>16. Congruent(p, y)
  BY <1>9, <1>15, CancelRadix
<1>17. QED
  BY <1>2, <1>3, <1>4, <1>8, <1>14, <1>16

\* rawSub and rawNeg subtract, with one correction.
LEMMA rawSubCorrect ==
    ASSUME NEW a \in Fr, NEW b \in Fr
    PROVE  rawSub(a, b) \in Fr /\ Congruent(rawSub(a, b), a - b)
<1>1. Prime \in Nat \ {0} /\ Radix \in Nat \ {0} /\ 2 * Prime <= Radix
  BY FieldAssumption, WordPowers
<1>2. a \in 0 .. Prime - 1 /\ b \in 0 .. Prime - 1
  BY DEF Fr
<1>3. CASE a < b
  <2>1. PICK R \in Nat \ {0} : R = Radix
    BY <1>1
  <2>2. (a - b) % R = a - b + R
    BY <1>1, <1>2, <1>3, <2>1
  <2>3. PICK s \in Nat : s = a - b + Prime
    BY <1>1, <1>2
  <2>4. (a - b + R) + Prime = s + R /\ s < R /\ s \in 0 .. Prime - 1
    BY <1>1, <1>2, <1>3, <2>1, <2>3
  <2>5. (s + R) % R = s
    BY <2>1, <2>4
  <2>6. rawSub(a, b) = s
    BY <1>3, <2>1, <2>2, <2>4, <2>5 DEF rawSub
  <2>7. s = (a - b) + 1 * Prime
    BY <1>1, <1>2, <2>3
  <2>8. QED
    BY <2>4, <2>6, <2>7 DEF Congruent, Fr
<1>4. CASE ~(a < b)
  <2>1. rawSub(a, b) = a - b /\ a - b \in 0 .. Prime - 1
    BY <1>1, <1>2, <1>4 DEF rawSub
  <2>2. a - b \in Int
    BY <1>2
  <2>3. Congruent(a - b, a - b)
    BY <2>2, CongruentRefl
  <2>4. QED
    BY <2>1, <2>3 DEF Fr
<1>5. QED
  BY <1>3, <1>4

LEMMA rawNegCorrect ==
    ASSUME NEW a \in Fr
    PROVE  rawNeg(a) \in Fr /\ Congruent(rawNeg(a), -a)
<1>1. Prime \in Nat \ {0} /\ Radix \in Nat \ {0} /\ 2 * Prime <= Radix
  BY FieldAssumption, WordPowers
<1>2. a \in 0 .. Prime - 1
  BY DEF Fr
<1>3. CASE a # 0
  <2>1. PICK s \in 0 .. Prime - 1 : s = Prime - a
    BY <1>1, <1>2, <1>3
  <2>2. s % Radix = s
    BY <1>1, <2>1
  <2>3. s = (-a) + 1 * Prime
    BY <1>1, <1>2, <2>1
  <2>4. rawNeg(a) = s
    BY <1>3, <2>1, <2>2 DEF rawNeg
  <2>5. QED
    BY <2>1, <2>3, <2>4 DEF Congruent, Fr
<1>4. CASE a = 0
  <2>1. rawNeg(a) = 0 /\ -a = 0 /\ 0 \in Fr
    <3>1. rawNeg(a) = 0
      BY <1>4 DEF rawNeg
    <3>2. -a = 0
      <4>1. PICK n \in Int : n = -a
        BY <1>2
      <4>2. a + n = 0
        BY <1>2, <4>1
      <4>3. n = 0
        BY <1>4, <4>2
      <4>4. QED
        BY <4>1, <4>3
    <3>3. QED
      BY <1>4, <3>1, <3>2
  <2>2. Congruent(0, 0)
    BY CongruentRefl
  <2>3. QED
    BY <2>1, <2>2
<1>5. QED
  BY <1>3, <1>4

\* rawFromMontgomery gives the number that an element stands for.
LEMMA StandsFor ==
    ASSUME NEW v \in Fr, NEW y \in Int, Congruent(v, y * Radix)
    PROVE  rawFromMontgomery(v) = y % Prime
<1>1. PICK R \in Int : R = Radix
  BY WordPowers
<1>2. PICK f \in Fr : f = rawFromMontgomery(v) /\ Congruent(f * R, v)
  BY <1>1, rawFromMontgomeryCorrect
<1>3. f \in Int /\ v \in Int
  BY FrInt
<1>4. f * R \in Int /\ y * R \in Int
  BY <1>3
<1>5. Congruent(v, y * R)
  BY <1>1
<1>6. Congruent(f * R, y * R)
  BY <1>2, <1>3, <1>4, <1>5, CongruentTrans
<1>7. Congruent(f, y)
  BY <1>1, <1>3, <1>6, CancelRadix
<1>8. PICK z \in Fr : z = y % Prime /\ Congruent(z, y)
  BY CongruentMod
<1>9. z \in Int
  BY FrInt
<1>10. Congruent(y, z)
  BY <1>8, <1>9, CongruentSym
<1>11. Congruent(f, z)
  BY <1>3, <1>7, <1>9, <1>10, CongruentTrans
<1>12. f = z
  BY <1>11, CongruentFr
<1>13. QED
  BY <1>2, <1>8, <1>12

\* The arithmetic of RawFr, on limbs with their carries and truncations, is that of the
\* field on the numbers that its elements stand for: for every size and number of
\* limbs and every prime that leaves one bit of them free.  Above all, the carry that
\* Fr_rawMMul adds two limbs too low is always 0.
THEOREM RawFieldCorrect ==
    ASSUME NEW a \in Fr, NEW b \in Fr, NEW x, x = rawToMontgomery(a), NEW y, y = rawToMontgomery(b)
    PROVE  /\ rawFromMontgomery(x) = a
           /\ rawFromMontgomery(rawAdd(x, y)) = (a + b) % Prime
           /\ rawFromMontgomery(rawSub(x, y)) = (a - b) % Prime
           /\ rawFromMontgomery(rawNeg(x)) = (-a) % Prime
           /\ rawFromMontgomery(rawMMul(x, y)) = (a * b) % Prime
<1>1. PICK R \in Int : R = Radix
  BY WordPowers
<1>2. x \in Fr /\ Congruent(x, a * R) /\ y \in Fr /\ Congruent(y, b * R)
  BY <1>1, rawToMontgomeryCorrect
<1>3. a \in Int /\ b \in Int /\ x \in Int /\ y \in Int /\ x \in 0 .. Radix - 1
  BY <1>2, FrInt
<1>4. PICK u \in Int, v \in Int : u = a * R /\ v = b * R
  BY <1>3
<1>5. Congruent(x, u) /\ Congruent(y, v)
  BY <1>2, <1>4
<1>6. rawFromMontgomery(x) = a
  <2>1. rawFromMontgomery(x) = a % Prime
    BY <1>1, <1>2, <1>3, StandsFor
  <2>2. a % Prime = a
    BY FieldAssumption DEF Fr
  <2>3. QED
    BY <2>1, <2>2
<1>7. rawFromMontgomery(rawAdd(x, y)) = (a + b) % Prime
  <2>1. PICK s \in Fr : s = rawAdd(x, y) /\ Congruent(s, x + y)
    BY <1>2, rawAddCorrect
  <2>2. Congruent(x + y, u + v)
    BY <1>3, <1>5, CongruentAdd
  <2>3. s \in Int /\ x + y \in Int /\ u + v \in Int /\ a + b \in Int
    BY <1>3, FrInt
  <2>4. Congruent(s, u + v)
    BY <2>1, <2>2, <2>3, CongruentTrans
  <2>5. u + v = (a + b) * R
    BY <1>3, <1>4
  <2>6. Congruent(s, (a + b) * Radix)
    BY <1>1, <2>4, <2>5
  <2>7. QED
    BY <2>1, <2>3, <2>6, StandsFor
<1>8. rawFromMontgomery(rawSub(x, y)) = (a - b) % Prime
  <2>1. PICK s \in Fr : s = rawSub(x, y) /\ Congruent(s, x - y)
    BY <1>2, rawSubCorrect
  <2>2. Congruent(x - y, u - v)
    <3>1. Congruent(y * (-1), v * (-1))
      BY <1>3, <1>5, CongruentTimes
    <3>2. y * (-1) = -y /\ v * (-1) = -v /\ -y \in Int /\ -v \in Int
      BY <1>3
    <3>3. Congruent(x + (-y), u + (-v))
      BY <1>3, <1>5, <3>1, <3>2, CongruentAdd
    <3>4. x + (-y) = x - y /\ u + (-v) = u - v
      BY <1>3
    <3>5. QED
      BY <3>3, <3>4
  <2>3. s \in Int /\ x - y \in Int /\ u - v \in Int /\ a - b \in Int
    BY <1>3, FrInt
  <2>4. Congruent(s, u - v)
    BY <2>1, <2>2, <2>3, CongruentTrans
  <2>5. u - v = (a - b) * R
    BY <1>3, <1>4
  <2>6. Congruent(s, (a - b) * Radix)
    BY <1>1, <2>4, <2>5
  <2>7. QED
    BY <2>1, <2>3, <2>6, StandsFor
<1>9. rawFromMontgomery(rawNeg(x)) = (-a) % Prime
  <2>1. PICK s \in Fr : s = rawNeg(x) /\ Congruent(s, -x)
    BY <1>2, rawNegCorrect
  <2>2. Congruent(-x, -u)
    <3>1. Congruent(x * (-1), u * (-1))
      BY <1>3, <1>5, CongruentTimes
    <3>2. x * (-1) = -x /\ u * (-1) = -u
      BY <1>3
    <3>3. QED
      BY <3>1, <3>2
  <2>3. s \in Int /\ -x \in Int /\ -u \in Int /\ -a \in Int
    BY <1>3, FrInt
  <2>4. Congruent(s, -u)
    BY <2>1, <2>2, <2>3, CongruentTrans
  <2>5. -u = (-a) * R
    BY <1>3, <1>4
  <2>6. Congruent(s, (-a) * Radix)
    BY <1>1, <2>4, <2>5
  <2>7. QED
    BY <2>1, <2>3, <2>6, StandsFor
<1>10. rawFromMontgomery(rawMMul(x, y)) = (a * b) % Prime
  <2>1. PICK s \in Fr : s = rawMMul(x, y) /\ Congruent(s * R, x * y)
    BY <1>1, <1>2, <1>3, rawMMulCorrect
  <2>2. PICK p \in Int : p = a * b
    BY <1>3
  <2>3. Congruent(x * y, u * y) /\ Congruent(y * u, v * u)
    BY <1>3, <1>5, CongruentTimes
  <2>4. PICK xy \in Int, uy \in Int, uv \in Int : xy = x * y /\ uy = u * y /\ uv = v * u
    BY <1>3
  <2>5. u * y = y * u
    BY <1>3
  <2>6. Congruent(xy, uy) /\ Congruent(uy, uv)
    BY <2>3, <2>4, <2>5
  <2>7. PICK sR \in Int : sR = s * R /\ Congruent(sR, xy) /\ s \in Int
    BY <2>1, <2>4, FrInt
  <2>8. Congruent(sR, uv)
    <3>1. Congruent(sR, uy)
      BY <2>6, <2>7, CongruentTrans
    <3>2. QED
      BY <2>6, <3>1, CongruentTrans
  <2>9. uv = (p * R) * R
    BY <1>3, <1>4, <2>2, <2>4
  <2>10. PICK q \in Int : q = p * R
    OBVIOUS
  <2>11. Congruent(s * Radix, q * Radix)
    BY <1>1, <2>7, <2>8, <2>9, <2>10
  <2>12. Congruent(s, q)
    BY <2>7, <2>11, CancelRadix
  <2>13. Congruent(s, p * Radix)
    BY <1>1, <2>10, <2>12
  <2>14. QED
    BY <2>1, <2>2, <2>13, StandsFor
<1>11. QED
  BY <1>6, <1>7, <1>8, <1>9, <1>10

-----------------------------------------------------------------------------
(***************************************************************************)
(* The sum of x[n] over the indices n of coefficients that are in D.       *)
(***************************************************************************)

\* A recursion over the indices, in the order of the key.
SumOf(x, D) ==
    LET sum[n \in 0 .. nCoefs] == IF n = 0 THEN 0 ELSE sum[n - 1] + (IF n \in D THEN x[n] ELSE 0)
    IN  sum[nCoefs]

\* g[n] is the sum up to n.
Accumulates(g, x, D) ==
    /\ g[0] = 0
    /\ \A n \in 0 .. nCoefs - 1 :
           /\ n + 1 \in D => g[n + 1] = g[n] + x[n + 1]
           /\ n + 1 \notin D => g[n + 1] = g[n]

\* The recursion defines a function.
LEMMA SumEquations ==
    ASSUME NEW x \in [1 .. nCoefs -> Int], NEW D
    PROVE  \E g \in [0 .. nCoefs -> Int] : Accumulates(g, x, D) /\ SumOf(x, D) = g[nCoefs]
<1> DEFINE N == nCoefs
           step == [i \in 1 .. N |-> [v \in Int |-> v + (IF i \in D THEN x[i] ELSE 0)]]
           sum == CHOOSE g : g = [n \in 0 .. N |-> IF n = 0 THEN 0
                                                   ELSE g[n - 1] + (IF n \in D THEN x[n] ELSE 0)]
<1>1. N \in Nat /\ N >= 1
  BY CountTypes
<1>2. SumOf(x, D) = sum[N]
  BY Zenon DEF SumOf
<1> HIDE DEF N
<1>3. \A n \in 1 .. N : x[n] \in Int
  BY DEF N
<1>4. step \in [1 .. N -> [Int -> Int]]
  BY <1>3
<1>5. PICK g \in [0 .. N -> Int] : Recursive(g, 0, step, N)
  <2> HIDE DEF step
  <2>1. N \in Nat /\ 0 \in Int
    BY <1>1
  <2>2. QED
    BY <1>4, <2>1, RecursionExists
<1>6. g = [n \in 0 .. N |-> IF n = 0 THEN 0 ELSE g[n - 1] + (IF n \in D THEN x[n] ELSE 0)]
  <2>1. ASSUME NEW n \in 0 .. N
        PROVE  g[n] = IF n = 0 THEN 0 ELSE g[n - 1] + (IF n \in D THEN x[n] ELSE 0)
    <3>1. CASE n = 0
      BY <1>5, <3>1 DEF Recursive
    <3>2. CASE n # 0
      <4>1. n \in 1 .. N /\ n - 1 \in 0 .. N
        BY <1>1, <3>2
      <4>2. g[n - 1] \in Int
        BY <4>1
      <4>3. step[n][g[n - 1]] = g[n - 1] + (IF n \in D THEN x[n] ELSE 0)
        BY <4>1, <4>2
      <4>4. g[n] = step[n][g[n - 1]]
        BY <1>5, <3>2 DEF Recursive
      <4>5. QED
        BY <3>2, <4>3, <4>4
    <3>3. QED
      BY <3>1, <3>2
  <2>2. g = [n \in 0 .. N |-> g[n]]
    OBVIOUS
  <2>3. QED
    BY <2>1, <2>2
<1>7. sum = [n \in 0 .. N |-> IF n = 0 THEN 0 ELSE sum[n - 1] + (IF n \in D THEN x[n] ELSE 0)]
  BY <1>6
<1> HIDE DEF sum
<1>8. sum[0] = 0
  BY <1>1, <1>7
<1>9. ASSUME NEW n \in 0 .. N - 1
      PROVE  sum[n + 1] = sum[n] + (IF n + 1 \in D THEN x[n + 1] ELSE 0)
  <2>1. n + 1 \in 0 .. N /\ n + 1 # 0 /\ (n + 1) - 1 = n
    BY <1>1
  <2>2. QED
    BY <1>7, <2>1
<1>10. sum \in [0 .. N -> Int]
  <2> DEFINE S == {n \in 0 .. N : sum[n] \in Int}
  <2>1. 0 \in S
    BY <1>1, <1>8
  <2>2. ASSUME NEW n \in 0 .. N - 1, n \in S
        PROVE  n + 1 \in S
    <3>1. n + 1 \in 1 .. N /\ n + 1 \in 0 .. N
      BY <1>1
    <3>2. x[n + 1] \in Int
      BY <1>3, <3>1
    <3>3. QED
      BY <1>9, <2>2, <3>1, <3>2
  <2> HIDE DEF S
  <2>3. 0 .. N \subseteq S
    BY <1>1, <2>1, <2>2, IntervalInduction
  <2>4. \A n \in 0 .. N : sum[n] \in Int
    BY <2>3 DEF S
  <2>5. QED
    BY <1>7, <2>4
<1>11. Accumulates(sum, x, D)
  <2>1. ASSUME NEW n \in 0 .. N - 1
        PROVE  /\ n + 1 \in D => sum[n + 1] = sum[n] + x[n + 1]
               /\ n + 1 \notin D => sum[n + 1] = sum[n]
    <3>1. n \in 0 .. N
      BY <1>1
    <3>2. sum[n] \in Int
      BY <1>10, <3>1
    <3>3. QED
      BY <1>9, <3>2
  <2>2. QED
    BY <1>8, <2>1 DEF Accumulates, N
<1>12. QED
  BY <1>2, <1>10, <1>11 DEF N

LEMMA SumEmpty ==
    ASSUME NEW x \in [1 .. nCoefs -> Int], NEW D, \A n \in 1 .. nCoefs : n \notin D
    PROVE  SumOf(x, D) = 0
<1>1. PICK g \in [0 .. nCoefs -> Int] : Accumulates(g, x, D) /\ SumOf(x, D) = g[nCoefs]
  BY SumEquations
<1>2. nCoefs \in Nat
  BY CountTypes
<1> DEFINE S == {n \in 0 .. nCoefs : g[n] = 0}
<1>3. 0 \in S
  BY <1>1, <1>2 DEF Accumulates
<1>4. ASSUME NEW n \in 0 .. nCoefs - 1, n \in S
      PROVE  n + 1 \in S
  <2>1. n + 1 \in 0 .. nCoefs /\ n + 1 \in 1 .. nCoefs
    BY <1>2
  <2>2. QED
    BY <1>1, <1>4, <2>1 DEF Accumulates
<1> HIDE DEF S
<1>5. 0 .. nCoefs \subseteq S
  BY <1>2, <1>3, <1>4, IntervalInduction
<1>6. nCoefs \in 0 .. nCoefs
  BY <1>2
<1>7. QED
  BY <1>1, <1>5, <1>6 DEF S

\* One more index.
LEMMA SumAdd ==
    ASSUME NEW x \in [1 .. nCoefs -> Int], NEW D, NEW i \in 1 .. nCoefs, i \notin D,
           NEW E, \A n \in 1 .. nCoefs : n \in E <=> n \in D \/ n = i
    PROVE  SumOf(x, E) = SumOf(x, D) + x[i] /\ SumOf(x, D) \in Int
<1>1. PICK g \in [0 .. nCoefs -> Int] : Accumulates(g, x, D) /\ SumOf(x, D) = g[nCoefs]
  BY SumEquations
<1>2. PICK h \in [0 .. nCoefs -> Int] : Accumulates(h, x, E) /\ SumOf(x, E) = h[nCoefs]
  BY SumEquations
<1>3. nCoefs \in Nat /\ x[i] \in Int
  BY CountTypes
<1> DEFINE S == {n \in 0 .. nCoefs : h[n] = g[n] + (IF i <= n THEN x[i] ELSE 0)}
<1>4. 0 \in S
  BY <1>1, <1>2, <1>3 DEF Accumulates
<1>5. ASSUME NEW n \in 0 .. nCoefs - 1, n \in S
      PROVE  n + 1 \in S
  <2>1. n \in 0 .. nCoefs /\ n + 1 \in 0 .. nCoefs /\ n + 1 \in 1 .. nCoefs
    BY <1>3
  <2>2. g[n] \in Int /\ x[n + 1] \in Int /\ h[n] = g[n] + (IF i <= n THEN x[i] ELSE 0)
    BY <1>5, <2>1
  <2>3. CASE n + 1 = i
    <3>1. h[n] = g[n]
      BY <1>3, <2>2, <2>3
    <3>2. n + 1 \in E
      BY <2>1, <2>3
    <3>2a. h[n + 1] = h[n] + x[n + 1]
      BY <1>2, <3>2, Zenon DEF Accumulates
    <3>3. g[n + 1] = g[n]
      BY <1>1, <2>1, <2>3 DEF Accumulates
    <3>4. i <= n + 1 /\ x[n + 1] = x[i]
      BY <2>1, <2>3
    <3>5. QED
      BY <2>1, <3>1, <3>2a, <3>3, <3>4
  <2>4. CASE n + 1 # i
    <3>1. (n + 1 \in E <=> n + 1 \in D) /\ (i <= n + 1 <=> i <= n)
      BY <2>1, <2>4
    <3>2. CASE n + 1 \in D
      <4>1. h[n + 1] = h[n] + x[n + 1]
        BY <1>2, <3>1, <3>2, Zenon DEF Accumulates
      <4>2. g[n + 1] = g[n] + x[n + 1]
        BY <1>1, <3>2, Zenon DEF Accumulates
      <4>3. h[n + 1] = g[n + 1] + (IF i <= n + 1 THEN x[i] ELSE 0)
        <5>1. CASE i <= n
          BY <1>3, <2>2, <3>1, <4>1, <4>2, <5>1
        <5>2. CASE ~(i <= n)
          BY <1>3, <2>2, <3>1, <4>1, <4>2, <5>2
        <5>3. QED
          BY <5>1, <5>2
      <4>4. QED
        BY <2>1, <4>3
    <3>3. CASE n + 1 \notin D
      <4>1. h[n + 1] = h[n]
        BY <1>2, <3>1, <3>3 DEF Accumulates
      <4>2. g[n + 1] = g[n]
        BY <1>1, <3>3 DEF Accumulates
      <4>3. QED
        BY <1>3, <2>1, <2>2, <3>1, <4>1, <4>2
    <3>4. QED
      BY <3>2, <3>3
  <2>5. QED
    BY <2>3, <2>4
<1> HIDE DEF S
<1>6. 0 .. nCoefs \subseteq S
  BY <1>3, <1>4, <1>5, IntervalInduction
<1>7. nCoefs \in 0 .. nCoefs /\ i <= nCoefs
  BY <1>3
<1>8. QED
  BY <1>1, <1>2, <1>6, <1>7 DEF S

\* The sum of numbers in the form of Montgomery is the sum in that form.
LEMMA SumCongruent ==
    ASSUME NEW x \in [1 .. nCoefs -> Int], NEW y \in [1 .. nCoefs -> Int], NEW D,
           \A n \in 1 .. nCoefs : Congruent(x[n], y[n] * Radix)
    PROVE  Congruent(SumOf(x, D), SumOf(y, D) * Radix) /\ SumOf(x, D) \in Int /\ SumOf(y, D) \in Int
<1>1. PICK g \in [0 .. nCoefs -> Int] : Accumulates(g, x, D) /\ SumOf(x, D) = g[nCoefs]
  BY SumEquations
<1>2. PICK h \in [0 .. nCoefs -> Int] : Accumulates(h, y, D) /\ SumOf(y, D) = h[nCoefs]
  BY SumEquations
<1>3. nCoefs \in Nat
  BY CountTypes
<1>4. PICK R \in Int : R = Radix
  BY WordPowers
<1> DEFINE S == {n \in 0 .. nCoefs : Congruent(g[n], h[n] * R)}
<1>5. 0 \in S
  <2>1. g[0] = 0 /\ h[0] * R = 0 /\ 0 \in 0 .. nCoefs
    BY <1>1, <1>2, <1>3 DEF Accumulates
  <2>2. Congruent(0, 0)
    BY CongruentRefl
  <2>3. QED
    BY <2>1, <2>2
<1>6. ASSUME NEW n \in 0 .. nCoefs - 1, n \in S
      PROVE  n + 1 \in S
  <2>1. n \in 0 .. nCoefs /\ n + 1 \in 0 .. nCoefs /\ n + 1 \in 1 .. nCoefs
    BY <1>3
  <2>2. PICK a \in Int, b \in Int : a = g[n] /\ b = h[n]
    BY <2>1
  <2>3. PICK u \in Int, v \in Int : u = x[n + 1] /\ v = y[n + 1]
    BY <2>1
  <2>4. Congruent(a, b * R) /\ Congruent(u, v * R)
    BY <1>4, <1>6, <2>1, <2>2, <2>3
  <2>5. CASE n + 1 \in D
    <3>1. g[n + 1] = a + u /\ h[n + 1] = b + v
      BY <1>1, <1>2, <2>2, <2>3, <2>5, Zenon DEF Accumulates
    <3>2. b * R \in Int /\ v * R \in Int /\ (b + v) * R = b * R + v * R
      OBVIOUS
    <3>3. Congruent(a + u, b * R + v * R)
      BY <2>4, <3>2, CongruentAdd
    <3>4. QED
      BY <2>1, <3>1, <3>2, <3>3
  <2>6. CASE n + 1 \notin D
    <3>1. g[n + 1] = a /\ h[n + 1] = b
      BY <1>1, <1>2, <2>1, <2>2, <2>6 DEF Accumulates
    <3>2. QED
      BY <2>1, <2>4, <3>1
  <2>7. QED
    BY <2>5, <2>6
<1> HIDE DEF S
<1>7. 0 .. nCoefs \subseteq S
  BY <1>3, <1>5, <1>6, IntervalInduction
<1>8. nCoefs \in 0 .. nCoefs
  BY <1>3
<1>9. Congruent(g[nCoefs], h[nCoefs] * R)
  BY <1>7, <1>8 DEF S
<1>10. QED
  BY <1>1, <1>2, <1>4, <1>8, <1>9

-----------------------------------------------------------------------------
(***************************************************************************)
(* The sum that SumsComplete speaks of is one over the indices, since the  *)
(* proving key holds every entry once.                                     *)
(***************************************************************************)

\* The entries of A and B, what they contribute for the witness w, and where they are.
Entry == {e \in Matrix : e.m # 2}
Term(w, e) == e.coef * w[e.s]
Terms(w) == [i \in 1 .. nCoefs |-> Term(w, coefs[i])]
Indices(S) == {i \in 1 .. nCoefs : coefs[i] \in S}

\* The recursion of MapThenSumSet.
Sums(g, w, S) ==
    g = [T \in SUBSET S |-> IF T = {} THEN 0
                            ELSE Term(w, CHOOSE e \in T : TRUE) + g[T \ {CHOOSE e \in T : TRUE}]]

LEMMA SetSumIs ==
    ASSUME NEW w, NEW S
    PROVE  MapThenSumSet(LAMBDA e : e.coef * w[e.s], S) = (CHOOSE g : Sums(g, w, S))[S]
BY Zenon DEF MapThenSumSet, MapThenFoldSet, Sums, Term

LEMMA CoefType ==
    ASSUME NEW i \in 1 .. nCoefs
    PROVE  /\ coefs[i] \in Entry
           /\ coefs[i].m \in {0, 1} /\ coefs[i].c \in Row /\ coefs[i].s \in Signal /\ coefs[i].coef \in Fr
<1>1. coefs \in Seq({e \in Matrix : e.m # 2})
  BY ProverAssumption
<1>2. coefs[i] \in {e \in Matrix : e.m # 2}
  BY <1>1, ElementOfSeq DEF nCoefs
<1>3. coefs[i] \in [m : 0 .. 2, c : Row, s : Signal, coef : Fr] /\ coefs[i].m # 2
  BY <1>2, Groth16Assumption
<1>4. coefs[i].m \in 0 .. 2
  BY <1>3
<1>5. QED
  BY <1>2, <1>3, <1>4 DEF Entry

LEMMA TermsType ==
    ASSUME NEW w \in Witness
    PROVE  /\ Terms(w) \in [1 .. nCoefs -> Int]
           /\ \A i \in 1 .. nCoefs : w[coefs[i].s] \in Fr
<1>1. w \in [Signal -> Fr]
  BY ProverAssumption
<1>2. ASSUME NEW i \in 1 .. nCoefs
      PROVE  w[coefs[i].s] \in Fr /\ Term(w, coefs[i]) \in Int
  <2>1. coefs[i].s \in Signal /\ coefs[i].coef \in Fr
    BY CoefType
  <2>2. w[coefs[i].s] \in Fr
    BY <1>1, <2>1
  <2>3. coefs[i].coef \in Int /\ w[coefs[i].s] \in Int
    BY <2>1, <2>2, FrInt
  <2>4. QED
    BY <2>2, <2>3 DEF Term
<1>3. QED
  BY <1>2 DEF Terms

\* Taking an entry away takes its term away.
LEMMA SumRemove ==
    ASSUME NEW w \in Witness, NEW T \in SUBSET Entry, NEW e \in T
    PROVE  /\ SumOf(Terms(w), Indices(T)) = Term(w, e) + SumOf(Terms(w), Indices(T \ {e}))
           /\ IsFiniteSet(Indices(T)) /\ Cardinality(Indices(T)) \in Nat
           /\ Cardinality(Indices(T \ {e})) = Cardinality(Indices(T)) - 1
<1>1. PICK i \in 1 .. nCoefs : coefs[i] = e
  BY KeyAssumption DEF Entry
<1>2. \A n \in 1 .. nCoefs : coefs[n] = e => n = i
  BY <1>1, KeyAssumption
<1> DEFINE D == Indices(T \ {e})
           E == Indices(T)
<1>3. i \notin D /\ \A n \in 1 .. nCoefs : n \in E <=> n \in D \/ n = i
  BY <1>1, <1>2 DEF Indices
<1>4. D = E \ {i} /\ i \in E /\ E \subseteq 1 .. nCoefs
  BY <1>1, <1>2 DEF Indices
<1> HIDE DEF D, E
<1>5. Terms(w) \in [1 .. nCoefs -> Int]
  BY TermsType
<1>6. SumOf(Terms(w), E) = SumOf(Terms(w), D) + Terms(w)[i] /\ SumOf(Terms(w), D) \in Int
  BY <1>3, <1>5, SumAdd
<1>7. Terms(w)[i] = Term(w, e) /\ Terms(w)[i] \in Int
  <2>1. Terms(w)[i] \in Int
    BY <1>5
  <2>2. Terms(w)[i] = Term(w, coefs[i])
    BY DEF Terms
  <2>3. QED
    BY <1>1, <2>1, <2>2
<1>8. SumOf(Terms(w), E) = Term(w, e) + SumOf(Terms(w), D)
  BY <1>6, <1>7
<1>9. nCoefs \in Int /\ 1 \in Int
  BY CountTypes
<1>10. IsFiniteSet(1 .. nCoefs)
  BY <1>9, FS_Interval
<1>11. IsFiniteSet(E)
  BY <1>4, <1>10, FS_Subset
<1>12. Cardinality(E) \in Nat /\ Cardinality(E \ {i}) = Cardinality(E) - 1
  BY <1>4, <1>11, FS_RemoveElement, FS_CardinalityType
<1>13. QED
  BY <1>4, <1>8, <1>11, <1>12 DEF D, E

\* A sum over entries is the sum over their indices: the key holds every entry once.
LEMMA SetSum ==
    ASSUME NEW w \in Witness, NEW S \in SUBSET Entry
    PROVE  MapThenSumSet(LAMBDA e : e.coef * w[e.s], S) = SumOf(Terms(w), Indices(S))
<1> DEFINE Of(T) == SumOf(Terms(w), Indices(T))
           Some(T) == CHOOSE e \in T : TRUE
           g0 == [T \in SUBSET S |-> Of(T)]
           g == CHOOSE h : Sums(h, w, S)
<1>1. Of({}) = 0
  <2>1. \A n \in 1 .. nCoefs : n \notin Indices({})
    BY DEF Indices
  <2>2. QED
    BY <2>1, TermsType, SumEmpty
<1>2. ASSUME NEW T \in SUBSET S, T # {}
      PROVE  /\ Some(T) \in T
             /\ Of(T) = Term(w, Some(T)) + Of(T \ {Some(T)})
             /\ Cardinality(Indices(T)) \in Nat
             /\ Cardinality(Indices(T \ {Some(T)})) = Cardinality(Indices(T)) - 1
  <2>1. Some(T) \in T
    BY <1>2
  <2>2. T \in SUBSET Entry
    OBVIOUS
  <2> HIDE DEF Some
  <2>3. QED
    BY <2>1, <2>2, SumRemove
<1> HIDE DEF Of, Some
<1>3. Sums(g0, w, S)
  <2>1. ASSUME NEW T \in SUBSET S
        PROVE  g0[T] = IF T = {} THEN 0 ELSE Term(w, Some(T)) + g0[T \ {Some(T)}]
    <3>1. T \ {Some(T)} \in SUBSET S
      OBVIOUS
    <3>2. QED
      BY <1>1, <1>2, <3>1
  <2>2. g0 = [T \in SUBSET S |-> g0[T]]
    OBVIOUS
  <2> HIDE DEF g0
  <2>3. g0 = [T \in SUBSET S |-> IF T = {} THEN 0 ELSE Term(w, Some(T)) + g0[T \ {Some(T)}]]
    BY <2>1, <2>2, Zenon
  <2>4. QED
    BY <2>3, Zenon DEF Sums, Some
<1>4. Sums(g, w, S)
  BY <1>3
<1> HIDE DEF g, g0
<1>5. \A T \in SUBSET S : g[T] = IF T = {} THEN 0 ELSE Term(w, Some(T)) + g[T \ {Some(T)}]
  BY <1>4, Zenon DEF Sums, Some
<1> DEFINE Bad == {T \in SUBSET S : g[T] # Of(T)}
           Sizes == {Cardinality(Indices(T)) : T \in Bad}
<1>6. Bad = {}
  <2> SUFFICES ASSUME Bad # {} PROVE FALSE
    OBVIOUS
  <2>1. \A T \in Bad : T \in SUBSET S /\ T # {} /\ g[T] # Of(T)
    BY <1>1, <1>5
  <2>2. Sizes \subseteq Nat /\ Sizes # {}
    <3>1. \A T \in Bad : Cardinality(Indices(T)) \in Nat
      BY <1>2, <2>1
    <3> HIDE DEF Bad
    <3>2. Sizes \subseteq Nat
      BY <3>1
    <3>3. Sizes # {}
      BY Zenon
    <3>4. QED
      BY <3>2, <3>3
  <2>3. PICK n \in Sizes : \A k \in Sizes : n <= k
    <3> HIDE DEF Sizes
    <3>1. QED
      BY <2>2, NatMinimum
  <2>4. PICK T \in Bad : n = Cardinality(Indices(T))
    BY <2>3
  <2>5. T \in SUBSET S /\ T # {} /\ T \ {Some(T)} \in SUBSET S
    BY <2>1
  <2>6. Cardinality(Indices(T)) \in Nat /\ Cardinality(Indices(T \ {Some(T)})) = n - 1
    BY <1>2, <2>4, <2>5
  <2>7. n - 1 \notin Sizes
    BY <2>2, <2>3
  <2>8. T \ {Some(T)} \notin Bad
    BY <2>6, <2>7
  <2>9. g[T \ {Some(T)}] = Of(T \ {Some(T)})
    BY <2>5, <2>8
  <2>10. g[T] = Term(w, Some(T)) + g[T \ {Some(T)}]
    BY <1>5, <2>5
  <2>11. g[T] = Of(T)
    BY <1>2, <2>5, <2>9, <2>10
  <2>12. QED
    BY <2>1, <2>11
<1>7. g[S] = Of(S)
  BY <1>6
<1>8. QED
  BY <1>7, SetSumIs DEF g, Of

\* What E.fr.mul gives for a coefficient is its term, in the form of Montgomery.
LEMMA auxCorrect ==
    ASSUME NEW w \in Witness
    PROVE  /\ aux[w] \in [1 .. nCoefs -> Fr] /\ aux[w] \in [1 .. nCoefs -> Int]
           /\ \A i \in 1 .. nCoefs : Congruent(aux[w][i], Terms(w)[i] * Radix)
<1> DEFINE Of(i) == rawMMul(w[coefs[i].s], rawToMontgomery(rawToMontgomery(coefs[i].coef)))
<1>1. aux[w] = [i \in 1 .. nCoefs |-> Of(i)]
  BY Zenon DEF aux
<1>2. ASSUME NEW i \in 1 .. nCoefs
      PROVE  Of(i) \in Fr /\ Congruent(Of(i), Terms(w)[i] * Radix)
  <2>1. PICK v \in Fr : v = w[coefs[i].s]
    BY TermsType
  <2>2. PICK coef \in Fr : coef = coefs[i].coef
    BY CoefType
  <2>3. PICK p : p = rawMMul(v, rawToMontgomery(rawToMontgomery(coef)))
    OBVIOUS
  <2>4. p \in Fr /\ Congruent(p, (coef * v) * Radix)
    BY <2>3, ProductCorrect
  <2>5. Of(i) = p
    BY <2>1, <2>2, <2>3
  <2>6. Terms(w)[i] = coef * v
    BY <2>1, <2>2 DEF Terms, Term
  <2> HIDE DEF Of
  <2>7. QED
    BY <2>4, <2>5, <2>6
<1> HIDE DEF Of
<1>3. aux[w] \in [1 .. nCoefs -> Fr] /\ \A i \in 1 .. nCoefs : aux[w][i] = Of(i)
  BY <1>1, <1>2
<1>4. aux[w] \in [1 .. nCoefs -> Int]
  BY <1>3, FrInt
<1>5. QED
  BY <1>2, <1>3, <1>4

\* The value of row c of matrix m for the witness w.
Value(w, m, c) == Total(LAMBDA e : e.coef * w[e.s], {e \in Matrix : e.m = m /\ e.c = c})

\* An element that holds the sum of all its terms holds the value of the matrix.
LEMMA SumIsTotal ==
    ASSUME NEW w \in Witness, NEW m \in {0, 1}, NEW c \in Row, NEW v \in Fr,
           Congruent(v, SumOf(aux[w], {i \in 1 .. nCoefs : coefs[i].m = m /\ coefs[i].c = c}))
    PROVE  rawFromMontgomery(v) = Value(w, m, c)
<1> DEFINE S == {e \in Matrix : e.m = m /\ e.c = c}
<1>1. {i \in 1 .. nCoefs : coefs[i].m = m /\ coefs[i].c = c} = Indices(S)
  BY CoefType DEF Indices, Entry
<1>2. S \in SUBSET Entry
  BY DEF Entry
<1>3. Total(LAMBDA e : e.coef * w[e.s], S) = SumOf(Terms(w), Indices(S)) % Prime
  <2>1. MapThenSumSet(LAMBDA e : e.coef * w[e.s], S) = SumOf(Terms(w), Indices(S))
    <3> HIDE DEF S
    <3>1. QED
      BY <1>2, SetSum
  <2>2. QED
    BY <2>1, Zenon DEF Total
<1> HIDE DEF S
<1>4. /\ Congruent(SumOf(aux[w], Indices(S)), SumOf(Terms(w), Indices(S)) * Radix)
      /\ SumOf(aux[w], Indices(S)) \in Int /\ SumOf(Terms(w), Indices(S)) \in Int
  BY TermsType, auxCorrect, SumCongruent
<1>5. PICK x \in Int : x = SumOf(aux[w], Indices(S))
  BY <1>4
<1>6. PICK y \in Int : y = SumOf(Terms(w), Indices(S))
  BY <1>4
<1>7. PICK z \in Int : z = y * Radix
  BY WordPowers
<1>8. Congruent(v, x) /\ Congruent(x, z) /\ v \in Int
  BY <1>1, <1>4, <1>5, <1>6, <1>7, FrInt
<1>9. Congruent(v, z)
  BY <1>8, CongruentTrans
<1>10. rawFromMontgomery(v) = y % Prime
  BY <1>7, <1>9, StandsFor
<1>11. Value(w, m, c) = Total(LAMBDA e : e.coef * w[e.s], S)
  BY Zenon DEF Value, S
<1>12. QED
  BY <1>3, <1>6, <1>10, <1>11

-----------------------------------------------------------------------------
(***************************************************************************)
(* Each element of a loop is taken once.  Until a thread is done with it,  *)
(* an element is at one place: in a job that the caller has not given      *)
(* away, in the queue, in the job of a worker that has not begun it or in  *)
(* what a thread has before it.                                            *)
(***************************************************************************)

\* The jobs that the caller has yet to push or to submit.
Unassigned(s) ==
    {n \in 1 .. Len(s.jobs) :
        \/ s.at = "push" /\ (n <= s.threadCount \/ s.k <= n)
        \/ s.at = "submit" /\ s.k < n /\ n <= s.threadCount
        \/ s.at = "notify" /\ s.k + 1 < n /\ n <= s.threadCount}

\* What the caller, the queue, a worker's job and a thread hold, and the places by name.
Span(j) == j.begin .. j.end

CallHolds(n) ==
    IF poolMutex # None /\ n \in Unassigned(call[poolMutex]) THEN Span(call[poolMutex].jobs[n]) ELSE {}
QueueHolds(n) == IF n \in 1 .. Len(queue) THEN Span(queue[n]) ELSE {}
JobHolds(w) == IF job[w] # None /\ worker[w] # "run" THEN Span(job[w]) ELSE {}
RunHolds(t) == IF running[t] # Finished THEN running[t].i .. running[t].end ELSE {}

Index == Nat \ {0}
AtCall(n) == <<"call", n>>
AtQueue(n) == <<"queue", n>>
AtJob(w) == <<"job", w>>
AtRun(t) == <<"run", t>>
Place == ({"call", "queue"} \X Index) \cup ({"job"} \X Worker) \cup ({"run"} \X Thread)
Held == [p \in Place |-> IF p[1] = "call" THEN CallHolds(p[2])
                         ELSE IF p[1] = "queue" THEN QueueHolds(p[2])
                         ELSE IF p[1] = "job" THEN JobHolds(p[2]) ELSE RunHolds(p[2])]

\* No element is at two places; the elements at all of them.
Apart(H) == \A p, q \in Place : p # q => H[p] \cap H[q] = {}
All(H) == UNION {H[p] : p \in Place}

LEMMA Places ==
    /\ \A n \in Index : AtCall(n) \in Place /\ AtQueue(n) \in Place
    /\ \A w \in Worker : AtJob(w) \in Place
    /\ \A t \in Thread : AtRun(t) \in Place
    /\ \A p \in Place : \/ \E n \in Index : p = AtCall(n) \/ p = AtQueue(n)
                        \/ \E w \in Worker : p = AtJob(w)
                        \/ \E t \in Thread : p = AtRun(t)
<1>1. \A n \in Index : AtCall(n) \in Place /\ AtQueue(n) \in Place
  BY DEF AtCall, AtQueue, Place
<1>2. (\A w \in Worker : AtJob(w) \in Place) /\ (\A t \in Thread : AtRun(t) \in Place)
  BY DEF AtJob, AtRun, Place
<1>3. ASSUME NEW p \in Place
      PROVE  \/ \E n \in Index : p = AtCall(n) \/ p = AtQueue(n)
             \/ \E w \in Worker : p = AtJob(w)
             \/ \E t \in Thread : p = AtRun(t)
  BY DEF AtCall, AtQueue, AtJob, AtRun, Place
<1>4. QED
  BY <1>1, <1>2, <1>3

LEMMA PlacesDiffer ==
    /\ \A n, k : AtCall(n) = AtCall(k) => n = k
    /\ \A n, k : AtQueue(n) = AtQueue(k) => n = k
    /\ \A n, k : AtJob(n) = AtJob(k) => n = k
    /\ \A n, k : AtRun(n) = AtRun(k) => n = k
    /\ \A n, k : /\ AtCall(n) # AtQueue(k) /\ AtCall(n) # AtJob(k) /\ AtCall(n) # AtRun(k)
                 /\ AtQueue(n) # AtJob(k) /\ AtQueue(n) # AtRun(k) /\ AtJob(n) # AtRun(k)
<1>1. \A n, k : /\ AtCall(n) # AtQueue(k) /\ AtCall(n) # AtJob(k) /\ AtCall(n) # AtRun(k)
                /\ AtQueue(n) # AtJob(k) /\ AtQueue(n) # AtRun(k) /\ AtJob(n) # AtRun(k)
  BY DEF AtCall, AtQueue, AtJob, AtRun
<1>2. QED
  BY <1>1 DEF AtCall, AtQueue, AtJob, AtRun

\* What is held where, before and after a step.
LEMMA HeldIs ==
    /\ \A n \in Index : Held[AtCall(n)] = CallHolds(n) /\ Held[AtQueue(n)] = QueueHolds(n)
    /\ \A w \in Worker : Held[AtJob(w)] = JobHolds(w)
    /\ \A t \in Thread : Held[AtRun(t)] = RunHolds(t)
<1>1. \A n \in Index : Held[AtCall(n)] = CallHolds(n) /\ Held[AtQueue(n)] = QueueHolds(n)
  BY DEF Held, AtCall, AtQueue, Place
<1>2. \A w \in Worker : Held[AtJob(w)] = JobHolds(w)
  BY DEF Held, AtJob, Place
<1>3. \A t \in Thread : Held[AtRun(t)] = RunHolds(t)
  BY DEF Held, AtRun, Place
<1>4. QED
  BY <1>1, <1>2, <1>3

LEMMA HeldIsNext ==
    /\ \A n \in Index : Held'[AtCall(n)] = CallHolds(n)' /\ Held'[AtQueue(n)] = QueueHolds(n)'
    /\ \A w \in Worker : Held'[AtJob(w)] = JobHolds(w)'
    /\ \A t \in Thread : Held'[AtRun(t)] = RunHolds(t)'
<1>1. \A n \in Index : Held'[AtCall(n)] = CallHolds(n)' /\ Held'[AtQueue(n)] = QueueHolds(n)'
  BY DEF Held, AtCall, AtQueue, Place
<1>2. \A w \in Worker : Held'[AtJob(w)] = JobHolds(w)'
  BY DEF Held, AtJob, Place
<1>3. \A t \in Thread : Held'[AtRun(t)] = RunHolds(t)'
  BY DEF Held, AtRun, Place
<1>4. QED
  BY <1>1, <1>2, <1>3

\* An element moves with its range,
LEMMA MoveHeld ==
    ASSUME NEW H, NEW H2, Apart(H), NEW a \in Place, NEW b \in Place, a # b,
           H[b] = {}, H2[b] = H[a], H2[a] = {},
           \A p \in Place : p # a /\ p # b => H2[p] = H[p]
    PROVE  Apart(H2) /\ All(H2) = All(H)
<1>1. Apart(H2)
  BY DEF Apart
<1>2. ASSUME NEW x, x \in All(H)
      PROVE  x \in All(H2)
  BY <1>2 DEF All
<1>3. ASSUME NEW x, x \in All(H2)
      PROVE  x \in All(H)
  BY <1>3 DEF All
<1>4. QED
  BY <1>1, <1>2, <1>3

\* moves up in the queue and out of it,
LEMMA PopHeld ==
    ASSUME NEW H, NEW H2, Apart(H), NEW b \in Place, \A n \in Index : b # AtQueue(n),
           H[b] = {}, H2[b] = H[AtQueue(1)],
           \A n \in Index : H2[AtQueue(n)] = H[AtQueue(n + 1)],
           \A p \in Place : p # b /\ (\A n \in Index : p # AtQueue(n)) => H2[p] = H[p]
    PROVE  Apart(H2) /\ All(H2) = All(H)
<1> DEFINE From(p, q) == H2[p] = H[q] /\ q # b
<1>1. ASSUME NEW p \in Place
      PROVE  \E q \in Place : From(p, q) /\ (p = b => q = AtQueue(1))
               /\ (\A n \in Index : p = AtQueue(n) => q = AtQueue(n + 1))
               /\ (p # b /\ (\A n \in Index : p # AtQueue(n)) => q = p)
  <2>1. CASE p = b
    <3>1. 1 \in Index /\ AtQueue(1) \in Place
      BY Places DEF Index
    <3>2. QED
      BY <2>1, <3>1
  <2>2. CASE \E n \in Index : p = AtQueue(n)
    <3>1. PICK n \in Index : p = AtQueue(n)
      BY <2>2
    <3>2. n + 1 \in Index
      BY DEF Index
    <3>3. \A k \in Index : p = AtQueue(k) => k = n
      BY <3>1, PlacesDiffer
    <3>4. QED
      BY <3>1, <3>2, <3>3, Places
  <2>3. CASE p # b /\ \A n \in Index : p # AtQueue(n)
    BY <2>3
  <2>4. QED
    BY <2>1, <2>2, <2>3
<1>2. Apart(H2)
  <2> SUFFICES ASSUME NEW p \in Place, NEW q \in Place, p # q
               PROVE  H2[p] \cap H2[q] = {}
    BY DEF Apart
  <2>1. PICK r \in Place : From(p, r) /\ (p = b => r = AtQueue(1))
               /\ (\A n \in Index : p = AtQueue(n) => r = AtQueue(n + 1))
               /\ (p # b /\ (\A n \in Index : p # AtQueue(n)) => r = p)
    BY <1>1
  <2>2. PICK s \in Place : From(q, s) /\ (q = b => s = AtQueue(1))
               /\ (\A n \in Index : q = AtQueue(n) => s = AtQueue(n + 1))
               /\ (q # b /\ (\A n \in Index : q # AtQueue(n)) => s = q)
    BY <1>1
  <2>3. /\ 1 \in Index
        /\ \A n, k \in Index : /\ AtQueue(n + 1) = AtQueue(k + 1) => n = k
                              /\ AtQueue(n + 1) # AtQueue(1)
                              /\ n + 1 \in Index
    BY PlacesDiffer DEF Index
  <2>4. r # s
    <3>1. CASE p = b
      <4>1. r = AtQueue(1) /\ q # b
        BY <2>1, <3>1
      <4>2. QED
        <5>1. CASE \E k \in Index : q = AtQueue(k)
          <6>1. PICK k \in Index : q = AtQueue(k) /\ s = AtQueue(k + 1)
            BY <2>2, <5>1
          <6>2. QED
            BY <2>3, <4>1, <6>1
        <5>2. CASE \A k \in Index : q # AtQueue(k)
          BY <2>2, <2>3, <4>1, <5>2
        <5>3. QED
          BY <5>1, <5>2
    <3>2. CASE q = b
      <4>1. s = AtQueue(1) /\ p # b
        BY <2>2, <3>2
      <4>2. QED
        <5>1. CASE \E k \in Index : p = AtQueue(k)
          <6>1. PICK k \in Index : p = AtQueue(k) /\ r = AtQueue(k + 1)
            BY <2>1, <5>1
          <6>2. QED
            BY <2>3, <4>1, <6>1
        <5>2. CASE \A k \in Index : p # AtQueue(k)
          BY <2>1, <2>3, <4>1, <5>2
        <5>3. QED
          BY <5>1, <5>2
    <3>3. CASE p # b /\ q # b /\ \E n \in Index : p = AtQueue(n)
      <4>1. PICK n \in Index : p = AtQueue(n) /\ r = AtQueue(n + 1)
        BY <2>1, <3>3
      <4>2. CASE \E k \in Index : q = AtQueue(k)
        <5>1. PICK k \in Index : q = AtQueue(k) /\ s = AtQueue(k + 1)
          BY <2>2, <4>2
        <5>2. QED
          BY <2>3, <4>1, <5>1
      <4>3. CASE \A k \in Index : q # AtQueue(k)
        <5>1. s = q
          BY <2>2, <3>3, <4>3
        <5>2. QED
          BY <2>3, <4>1, <4>3, <5>1
      <4>4. QED
        BY <4>2, <4>3
    <3>4. CASE p # b /\ q # b /\ \A n \in Index : p # AtQueue(n)
      <4>1. r = p
        BY <2>1, <3>4
      <4>2. CASE \E k \in Index : q = AtQueue(k)
        <5>1. PICK k \in Index : q = AtQueue(k) /\ s = AtQueue(k + 1)
          BY <2>2, <4>2
        <5>2. QED
          BY <2>3, <3>4, <4>1, <5>1
      <4>3. CASE \A k \in Index : q # AtQueue(k)
        BY <2>2, <3>4, <4>1, <4>3
      <4>4. QED
        BY <4>2, <4>3
    <3>5. QED
      BY <3>1, <3>2, <3>3, <3>4
  <2>5. QED
    BY <2>1, <2>2, <2>4 DEF Apart
<1>3. ASSUME NEW x, x \in All(H)
      PROVE  x \in All(H2)
  <2>1. PICK q \in Place : x \in H[q]
    BY <1>3 DEF All
  <2>2. \E p \in Place : H2[p] = H[q]
    <3>1. CASE \E n \in Index : q = AtQueue(n)
      <4>1. PICK n \in Index : q = AtQueue(n)
        BY <3>1
      <4>2. CASE n = 1
        BY <4>1, <4>2
      <4>3. CASE n # 1
        <5>1. n - 1 \in Index /\ (n - 1) + 1 = n
          BY <4>3 DEF Index
        <5>2. H2[AtQueue(n - 1)] = H[AtQueue((n - 1) + 1)]
          BY <5>1
        <5>3. QED
          BY <4>1, <5>1, <5>2, Places
      <4>4. QED
        BY <4>2, <4>3
    <3>2. CASE \A n \in Index : q # AtQueue(n)
      <4>1. q # b
        BY <2>1
      <4>2. QED
        BY <3>2, <4>1
    <3>3. QED
      BY <3>1, <3>2
  <2>3. QED
    BY <2>1, <2>2 DEF All
<1>4. ASSUME NEW x, x \in All(H2)
      PROVE  x \in All(H)
  <2>1. PICK p \in Place : x \in H2[p]
    BY <1>4 DEF All
  <2>2. PICK q \in Place : H2[p] = H[q]
    BY <1>1
  <2>3. QED
    BY <2>1, <2>2 DEF All
<1>5. QED
  BY <1>2, <1>3, <1>4

\* and is gone when a thread is done with it.
LEMMA DropHeld ==
    ASSUME NEW H, NEW H2, Apart(H), NEW a \in Place, NEW i \in H[a], H2[a] = H[a] \ {i},
           \A p \in Place : p # a => H2[p] = H[p]
    PROVE  Apart(H2) /\ All(H2) = All(H) \ {i} /\ i \in All(H)
<1>1. Apart(H2)
  BY DEF Apart
<1>2. i \in All(H)
  BY DEF All
<1>3. ASSUME NEW x, x \in All(H), x # i
      PROVE  x \in All(H2)
  <2>1. PICK p \in Place : x \in H[p]
    BY <1>3 DEF All
  <2>2. x \in H2[p]
    BY <1>3, <2>1
  <2>3. QED
    BY <2>2 DEF All
<1>4. ASSUME NEW x, x \in All(H2)
      PROVE  x \in All(H) /\ x # i
  <2>1. PICK p \in Place : x \in H2[p]
    BY <1>4 DEF All
  <2>2. x \in H[p]
    BY <2>1
  <2>3. x # i
    BY <2>1, <2>2 DEF Apart
  <2>4. QED
    BY <2>2, <2>3 DEF All
<1>5. QED
  BY <1>1, <1>2, <1>3, <1>4

\* divideWork's ranges follow one another, from the first element to the last.
LEMMA RangeEnds ==
    ASSUME NEW n \in Nat \ {0}
    PROVE  /\ chunkCount(n) \in Nat \ {0}
           /\ RangeEnd(0, n) = 0 /\ RangeEnd(chunkCount(n), n) = n
           /\ \A i \in 0 .. chunkCount(n) : RangeEnd(i, n) \in Nat
           /\ \A i, k \in 0 .. chunkCount(n) : i <= k => RangeEnd(i, n) <= RangeEnd(k, n)
<1> DEFINE q == minJobSize(n)
           rest == elementRest(n)
           count == chunkCount(n)
           End(i) == RangeEnd(i, n)
<1>1. count \in Nat \ {0}
  BY DivideWorkRanges
<1>2. q \in Nat /\ rest \in 0 .. count - 1 /\ n = count * q + rest
  <2>1. \A d \in Nat \ {0} : n \div d \in Nat /\ n % d \in 0 .. d - 1 /\ n = d * (n \div d) + (n % d)
    OBVIOUS
  <2>2. QED
    BY <1>1, <2>1, Zenon DEF minJobSize, elementRest
<1>3. \A i : End(i) = i * q + (IF i < rest THEN i ELSE rest)
  BY DEF RangeEnd
<1> HIDE DEF q, rest, count, End
<1>4. End(0) = 0
  <2>1. 0 * q = 0
    BY <1>2
  <2>2. QED
    BY <1>1, <1>2, <1>3, <2>1
<1>5. End(count) = n
  <2>1. ~(count < rest)
    BY <1>1, <1>2
  <2>2. QED
    BY <1>1, <1>2, <1>3, <2>1
<1>6. ASSUME NEW i \in 0 .. count, NEW k \in 0 .. count, i <= k
      PROVE  End(i) \in Nat /\ End(i) <= End(k)
  <2>1. i \in Nat /\ k \in Nat
    BY <1>1
  <2>2. i * q \in Nat /\ i * q <= k * q /\ k * q \in Int
    <3>1. i * q \in Nat /\ i * q <= k * q
      BY <1>2, <1>6, <2>1, TimesMonotone
    <3>2. k * q \in Int
      BY <1>2, <2>1
    <3>3. QED
      BY <3>1, <3>2
  <2>3. PICK x \in Nat : x = i * q
    BY <2>2
  <2>4. PICK y \in Int : y = k * q
    BY <2>2
  <2>5. End(i) = x + (IF i < rest THEN i ELSE rest) /\ End(k) = y + (IF k < rest THEN k ELSE rest)
    BY <1>3, <2>3, <2>4
  <2>6. x <= y /\ rest \in Nat
    BY <1>1, <1>2, <2>2, <2>3, <2>4
  <2>7. QED
    BY <1>6, <2>1, <2>5, <2>6
<1>7. \A i \in 0 .. count : End(i) \in Nat
  <2>1. \A i \in 0 .. count : i <= i
    BY <1>1
  <2>2. QED
    BY <1>6, <2>1
<1>8. QED
  BY <1>1, <1>4, <1>5, <1>6, <1>7 DEF count, End

\* Every element is in one range.
LEMMA DivideWorkPartition ==
    ASSUME NEW f, NEW n \in Nat \ {0}
    PROVE  /\ \A i, k \in 1 .. chunkCount(n) : i # k =>
                Span(divideWork(f, n)[i]) \cap Span(divideWork(f, n)[k]) = {}
           /\ \A x : x \in 1 .. n <=> \E i \in 1 .. chunkCount(n) : x \in Span(divideWork(f, n)[i])
<1> DEFINE count == chunkCount(n)
           End(i) == RangeEnd(i, n)
           jobs == divideWork(f, n)
<1>1. /\ count \in Nat \ {0} /\ End(0) = 0 /\ End(count) = n
      /\ \A i \in 0 .. count : End(i) \in Nat
      /\ \A i, k \in 0 .. count : i <= k => End(i) <= End(k)
  BY RangeEnds
<1>2. \A i \in 1 .. count : Span(jobs[i]) = End(i - 1) + 1 .. End(i)
  <2>1. \A i \in 1 .. count : jobs[i] = [of |-> f, begin |-> End(i - 1) + 1, end |-> End(i)]
    BY DivideWorkRanges
  <2> HIDE DEF count, End, jobs
  <2>2. ASSUME NEW i \in 1 .. count
        PROVE  Span(jobs[i]) = End(i - 1) + 1 .. End(i)
    <3>1. PICK begin : begin = End(i - 1) + 1
      OBVIOUS
    <3>2. PICK end : end = End(i)
      OBVIOUS
    <3>3. jobs[i] = [of |-> f, begin |-> begin, end |-> end]
      BY <2>1, <3>1, <3>2, Zenon
    <3>4. jobs[i].begin = begin /\ jobs[i].end = end
      BY <3>3
    <3>5. QED
      BY <3>1, <3>2, <3>4, Zenon DEF Span
  <2>3. QED
    BY <2>2
<1> HIDE DEF count, End, jobs
<1>3. ASSUME NEW i \in 1 .. count, NEW k \in 1 .. count, i < k
      PROVE  Span(jobs[i]) \cap Span(jobs[k]) = {}
  <2>1. i \in 0 .. count /\ k - 1 \in 0 .. count /\ k \in 0 .. count /\ i - 1 \in 0 .. count /\ i <= k - 1
    BY <1>1, <1>3
  <2>2. End(i) <= End(k - 1) /\ End(i) \in Nat /\ End(k - 1) \in Nat /\ End(k) \in Nat /\ End(i - 1) \in Nat
    BY <1>1, <2>1
  <2>3. QED
    BY <1>2, <2>2
<1>4. ASSUME NEW i \in 1 .. count, NEW k \in 1 .. count, i # k
      PROVE  Span(jobs[i]) \cap Span(jobs[k]) = {}
  <2>1. i < k \/ k < i
    BY <1>1, <1>4
  <2>2. QED
    BY <1>3, <2>1
<1>5. ASSUME NEW x \in 1 .. n
      PROVE  \E i \in 1 .. count : x \in Span(jobs[i])
  <2> DEFINE T == {i \in 1 .. count : x <= End(i)}
  <2>1. count \in T /\ T \subseteq Nat
    BY <1>1
  <2>2. PICK i \in T : \A k \in T : i <= k
    <3> HIDE DEF T
    <3>1. QED
      BY <2>1, NatMinimum
  <2>3. i \in 1 .. count /\ x <= End(i) /\ i \in 0 .. count /\ i - 1 \in 0 .. count
    BY <1>1, <2>2
  <2>4. i - 1 \notin T
    BY <2>2, <2>3
  <2>5. End(i - 1) < x
    <3>1. CASE i = 1
      BY <1>1, <3>1
    <3>2. CASE i # 1
      <4>1. i - 1 \in 1 .. count
        BY <1>1, <2>3, <3>2
      <4>2. ~(x <= End(i - 1)) /\ End(i - 1) \in Nat
        BY <1>1, <2>3, <2>4, <4>1
      <4>3. QED
        BY <4>2
    <3>3. QED
      BY <3>1, <3>2
  <2>6. End(i) \in Nat /\ End(i - 1) \in Nat
    BY <1>1, <2>3
  <2>7. x \in Span(jobs[i])
    BY <1>2, <2>3, <2>5, <2>6
  <2>8. QED
    BY <2>3, <2>7
<1>6. ASSUME NEW i \in 1 .. count, NEW x \in Span(jobs[i])
      PROVE  x \in 1 .. n
  <2>1. i \in 0 .. count /\ i - 1 \in 0 .. count /\ count \in 0 .. count /\ i <= count
    BY <1>1
  <2>2. End(i - 1) \in Nat /\ End(i) \in Nat /\ End(i) <= n
    BY <1>1, <2>1
  <2>3. x \in End(i - 1) + 1 .. End(i)
    BY <1>2, <1>6
  <2>4. QED
    BY <2>2, <2>3
<1>7. QED
  BY <1>4, <1>5, <1>6 DEF count, jobs

-----------------------------------------------------------------------------
(***************************************************************************)
(* What the steps of the pool do to the places.                            *)
(***************************************************************************)

\* There is a worker for every job that is submitted, and unsafePush takes the others.
CallCounts ==
    \A c \in Caller : call[c].at # "outside" =>
        /\ call[c].threadCount <= nThreads
        /\ call[c].at = "push" => call[c].k > call[c].threadCount

\* A step of the pool: every element keeps a place of its own, every call its function,
\* and no thread comes to be between the read and the write of E.fr.add.
Keeps ==
    /\ Apart(Held') /\ All(Held') = All(Held)
    /\ CallCounts'
    /\ \A d \in Caller : call'[d].at # "outside" => call[d].at # "outside" /\ call'[d].f = call[d].f
    /\ \A t \in Thread : running'[t].at = "store" => running'[t] = running[t]

LEMMA SameHeld ==
    ASSUME \A n \in Index : CallHolds(n)' = CallHolds(n) /\ QueueHolds(n)' = QueueHolds(n),
           \A w \in Worker : JobHolds(w)' = JobHolds(w),
           \A t \in Thread : RunHolds(t)' = RunHolds(t)
    PROVE  Held' = Held
<1>1. \A p \in Place : Held'[p] = Held[p]
  <2> SUFFICES ASSUME NEW p \in Place PROVE Held'[p] = Held[p]
    OBVIOUS
  <2>1. CASE \E n \in Index : p = AtCall(n) \/ p = AtQueue(n)
    BY <2>1, HeldIs, HeldIsNext
  <2>2. CASE \E w \in Worker : p = AtJob(w)
    BY <2>2, HeldIs, HeldIsNext
  <2>3. CASE \E t \in Thread : p = AtRun(t)
    BY <2>3, HeldIs, HeldIsNext
  <2>4. QED
    BY <2>1, <2>2, <2>3, Places
<1>2. Held = [p \in Place |-> Held[p]] /\ Held' = [p \in Place |-> Held'[p]]
  BY DEF Held
<1>3. QED
  BY <1>1, <1>2

\* What the caller c that is in parallelFor holds.
LEMMA CallHoldsIs ==
    ASSUME NEW c \in Caller
    PROVE  /\ poolMutex = c => \A n \in Index :
                CallHolds(n) = IF n \in Unassigned(call[c]) THEN Span(call[c].jobs[n]) ELSE {}
           /\ poolMutex' = c => \A n \in Index :
                CallHolds(n)' = IF n \in Unassigned(call'[c]) THEN Span(call'[c].jobs[n]) ELSE {}
<1>1. c # None
  BY ThreadTypes
<1>2. QED
  BY <1>1 DEF CallHolds

\* Who moves on in parallelFor without giving a job away.
LEMMA CallSame ==
    ASSUME IndInv, NEW c \in Caller, call[c].at # "outside", poolMutex' = poolMutex,
           call'[c].jobs = call[c].jobs, Unassigned(call'[c]) = Unassigned(call[c]),
           UNCHANGED <<queue, job, running>>,
           \A w \in Worker : worker'[w] = "run" <=> worker[w] = "run"
    PROVE  Held' = Held
<1>1. poolMutex = c /\ poolMutex' = c
  BY Owner
<1>2. \A n \in Index : CallHolds(n)' = CallHolds(n)
  BY <1>1, CallHoldsIs
<1>3. \A n \in Index : QueueHolds(n)' = QueueHolds(n)
  BY DEF QueueHolds
<1>4. \A w \in Worker : JobHolds(w)' = JobHolds(w)
  BY DEF JobHolds
<1>5. \A t \in Thread : RunHolds(t)' = RunHolds(t)
  BY DEF RunHolds
<1>6. QED
  BY <1>2, <1>3, <1>4, <1>5, SameHeld

\* The range at place a goes to place b.
LEMMA RangeMoves ==
    ASSUME Apart(Held), NEW a \in Place, NEW b \in Place, a # b,
           Held[b] = {}, Held'[b] = Held[a], Held'[a] = {},
           \A n \in Index : AtCall(n) # a => CallHolds(n)' = CallHolds(n),
           \A n \in Index : AtQueue(n) # b => QueueHolds(n)' = QueueHolds(n),
           \A w \in Worker : AtJob(w) # a /\ AtJob(w) # b => JobHolds(w)' = JobHolds(w),
           \A t \in Thread : AtRun(t) # b => RunHolds(t)' = RunHolds(t)
    PROVE  Apart(Held') /\ All(Held') = All(Held)
<1>1. ASSUME NEW p \in Place, p # a, p # b
      PROVE  Held'[p] = Held[p]
  <2>1. CASE \E n \in Index : p = AtCall(n) \/ p = AtQueue(n)
    BY <1>1, <2>1, HeldIs, HeldIsNext
  <2>2. CASE \E w \in Worker : p = AtJob(w)
    BY <1>1, <2>2, HeldIs, HeldIsNext
  <2>3. CASE \E t \in Thread : p = AtRun(t)
    BY <1>1, <2>3, HeldIs, HeldIsNext
  <2>4. QED
    BY <2>1, <2>2, <2>3, Places
<1>2. QED
  BY <1>1, MoveHeld

\* A range goes from the caller to the queue.
LEMMA unsafePushHeld ==
    ASSUME IndInv, CallCounts, Apart(Held), NEW c \in Caller, unsafePush(c)
    PROVE  Keeps
<1>1. call[c].at = "push" /\ UNCHANGED <<poolMutex, mutex, job, worker, stop, running>>
  BY DEF unsafePush
<1>2. poolMutex = c /\ poolMutex' = c /\ InCall(call[c]) /\ \A d \in Caller : d # c => call[d].at = "outside"
  BY <1>1, Owner
<1> DEFINE s == call[c]
           u == call'[c]
<1>3. s.k \in Nat /\ s.k >= 1 /\ s.threadCount \in 1 .. Len(s.jobs) /\ Len(s.jobs) \in Nat
        /\ s.k > s.threadCount
  BY <1>1, <1>2, LenProperties DEF InCall, CallCounts
<1>4. CASE s.k <= Len(s.jobs)
  <2>1. queue' = Append(queue, s.jobs[s.k]) /\ To(c, "push", s.k + 1)
    BY <1>4 DEF unsafePush
  <2>2. /\ u.at = "push" /\ u.k = s.k + 1 /\ u.jobs = s.jobs /\ u.threadCount = s.threadCount
        /\ \A d \in Caller : d # c => call'[d] = call[d]
    BY <1>2, <1>3, <2>1, Moved DEF IndInv, Inside
  <2>2a. u.f = s.f
    BY <1>2, <1>3, <2>1, Moved DEF IndInv, Inside
  <2>3. Len(queue) \in Nat /\ queue \in Seq(AnyJob)
    BY LenProperties DEF IndInv, QueueOK
  <2>4. PICK k \in Index : k = s.k
    BY <1>3 DEF Index
  <2>4a. PICK l \in Index : l = Len(queue) + 1
    BY <2>3 DEF Index
  <2>5. k \in Unassigned(s) /\ k \notin Unassigned(u)
          /\ \A n \in Index : n # k => (n \in Unassigned(u) <=> n \in Unassigned(s))
    BY <1>1, <1>3, <1>4, <2>2, <2>4 DEF Unassigned, Index
  <2> HIDE DEF s, u
  <2>6. CallHolds(k) = Span(s.jobs[k]) /\ CallHolds(k)' = {}
          /\ \A n \in Index : n # k => CallHolds(n)' = CallHolds(n)
    BY <1>2, <2>2, <2>5, CallHoldsIs DEF s, u
  <2>7. QueueHolds(l) = {} /\ QueueHolds(l)' = Span(s.jobs[k])
          /\ \A n \in Index : n # l => QueueHolds(n)' = QueueHolds(n)
    <3>1. PICK j : j = s.jobs[k]
      OBVIOUS
    <3>2. j \in AnyJob /\ queue' = Append(queue, j)
      <4>1. s.jobs[k] \in AnyJob
        BY <1>2, <1>3, <1>4, <2>4 DEF InCall, s
      <4>2. QED
        BY <2>1, <2>4, <3>1, <4>1 DEF s
    <3>3. Len(queue') = l /\ queue'[l] = j /\ \A n \in 1 .. Len(queue) : queue'[n] = queue[n]
      BY <2>3, <2>4a, <3>2
    <3>4. \A n \in Index : n \in 1 .. Len(queue') <=> n \in 1 .. Len(queue) \/ n = l
      BY <2>3, <2>4a, <3>3 DEF Index
    <3>5. l \notin 1 .. Len(queue)
      BY <2>3, <2>4a
    <3>6. QED
      BY <3>1, <3>3, <3>4, <3>5 DEF QueueHolds
  <2>8. \A w \in Worker : JobHolds(w)' = JobHolds(w)
    BY <1>1 DEF JobHolds
  <2>9. \A t \in Thread : RunHolds(t)' = RunHolds(t)
    BY <1>1 DEF RunHolds
  <2> DEFINE a == AtCall(k)
             b == AtQueue(l)
  <2>10. a \in Place /\ b \in Place /\ a # b
    BY Places, PlacesDiffer
  <2>11. Held[b] = {} /\ Held'[b] = Held[a] /\ Held'[a] = {}
    BY <2>6, <2>7, HeldIs, HeldIsNext
  <2>12. /\ \A n \in Index : AtCall(n) # a => CallHolds(n)' = CallHolds(n)
         /\ \A n \in Index : AtQueue(n) # b => QueueHolds(n)' = QueueHolds(n)
    BY <2>6, <2>7
  <2> HIDE DEF a, b
  <2>13. Apart(Held') /\ All(Held') = All(Held)
    BY <2>8, <2>9, <2>10, <2>11, <2>12, RangeMoves
  <2>14. CallCounts'
    BY <1>1, <1>2, <1>3, <2>2 DEF CallCounts, s, u
  <2>15. QED
    BY <1>1, <2>2, <2>2a, <2>13, <2>14 DEF Keeps, s, u
<1>5. CASE ~(s.k <= Len(s.jobs))
  <2>1. queue' = queue /\ To(c, "submit", 0)
    BY <1>5 DEF unsafePush
  <2>2. /\ u.at = "submit" /\ u.k = 0 /\ u.jobs = s.jobs /\ u.threadCount = s.threadCount
        /\ \A d \in Caller : d # c => call'[d] = call[d]
    BY <1>2, <1>3, <2>1, Moved DEF IndInv, Inside
  <2>2a. u.f = s.f
    BY <1>2, <1>3, <2>1, Moved DEF IndInv, Inside
  <2>3. Unassigned(u) = Unassigned(s)
    BY <1>1, <1>3, <1>5, <2>2 DEF Unassigned
  <2>4. Held' = Held
    BY <1>1, <1>2, <2>1, <2>2, <2>3, CallSame
  <2>5. CallCounts'
    BY <1>1, <1>2, <2>2 DEF CallCounts
  <2>6. QED
    BY <1>1, <2>2, <2>2a, <2>4, <2>5 DEF Keeps
<1>6. QED
  BY <1>4, <1>5

LEMMA JobNotNone ==
    ASSUME NEW f \in Func, NEW j \in Job(f)
    PROVE  j # None
<1>1. j \in AnyJob
  BY CountTypes DEF AnyJob
<1>2. QED
  BY <1>1, ProverAssumption DEF AnyJob, Func

LEMMA submitHeld ==
    ASSUME IndInv, CallCounts, Apart(Held), NEW c \in Caller, submit(c)
    PROVE  Keeps
<1>1. call[c].at = "submit" /\ UNCHANGED <<poolMutex, queue, mutex, worker, stop>>
  BY DEF submit
<1>2. poolMutex = c /\ poolMutex' = c /\ InCall(call[c]) /\ \A d \in Caller : d # c => call[d].at = "outside"
  BY <1>1, Owner
<1> DEFINE s == call[c]
           u == call'[c]
<1>3. s.k \in Nat /\ s.threadCount \in 1 .. Len(s.jobs) /\ Len(s.jobs) \in Nat /\ s.k <= s.threadCount - 1
  BY <1>1, <1>2, LenProperties DEF InCall
<1>4. PICK k \in Nat : k = s.k
  BY <1>3
<1>5. PICK n \in Index : n = k + 1
  BY <1>4 DEF Index
<1>6. n \in Unassigned(s) /\ n \in 1 .. Len(s.jobs)
  <2>1. n \in 1 .. Len(s.jobs) /\ s.k < n /\ n <= s.threadCount
    BY <1>3, <1>4, <1>5
  <2>2. QED
    BY <1>1, <2>1 DEF Unassigned
<1>7. PICK j \in Job(s.f) : j = s.jobs[n]
  BY <1>2, <1>6 DEF InCall
<1>7a. s.f \in Func
  BY <1>2 DEF InCall
<1>8. \A m \in Index : QueueHolds(m)' = QueueHolds(m)
  BY <1>1 DEF QueueHolds
<1>9. CASE s.k < s.threadCount - 1
  <2>1. job' = [job EXCEPT ![k] = j] /\ To(c, "notify", s.k) /\ running' = running
    BY <1>4, <1>5, <1>7, <1>9 DEF submit
  <2>2. /\ u.at = "notify" /\ u.k = s.k /\ u.jobs = s.jobs /\ u.threadCount = s.threadCount
        /\ \A d \in Caller : d # c => call'[d] = call[d]
    BY <1>2, <1>3, <1>9, <2>1, Moved DEF IndInv, Inside
  <2>2a. u.f = s.f
    BY <1>2, <1>3, <1>9, <2>1, Moved DEF IndInv, Inside
  <2>3. n \notin Unassigned(u) /\ \A m \in Index : m # n => (m \in Unassigned(u) <=> m \in Unassigned(s))
    BY <1>1, <1>3, <1>4, <1>5, <2>2 DEF Unassigned, Index
  <2>4. CallHolds(n) = Span(j) /\ CallHolds(n)' = {} /\ \A m \in Index : m # n => CallHolds(m)' = CallHolds(m)
    BY <1>2, <1>6, <1>7, <2>2, <2>3, CallHoldsIs
  <2>5. k \in Worker
    <3>1. k < nThreads - 1
      <4>1. s.threadCount <= nThreads
        BY <1>1 DEF CallCounts
      <4>2. QED
        BY <1>3, <1>4, <1>9, <4>1, PoolAssumption
    <3>2. QED
      BY <3>1, PoolAssumption DEF Worker
  <2>6. job[k] = None /\ worker[k] # "run"
    <3>1. job[k] = None
      BY <1>1, <1>2, <1>3, <1>4, <2>5 DEF IndInv, JobsOK, Awaits
    <3>2. QED
      BY <2>5, <3>1 DEF IndInv, JobsOK
  <2>7. \A w \in Worker : job'[w] = IF w = k THEN j ELSE job[w]
    BY <2>1 DEF IndInv, JobsOK
  <2>8. j # None
    BY <1>7a, JobNotNone
  <2>9. JobHolds(k) = {} /\ JobHolds(k)' = Span(j) /\ \A w \in Worker : w # k => JobHolds(w)' = JobHolds(w)
    BY <1>1, <2>5, <2>6, <2>7, <2>8 DEF JobHolds
  <2>10. \A t \in Thread : RunHolds(t)' = RunHolds(t)
    BY <2>1 DEF RunHolds
  <2> DEFINE a == AtCall(n)
             b == AtJob(k)
  <2>11. a \in Place /\ b \in Place /\ a # b
    BY <2>5, Places, PlacesDiffer
  <2>12. Held[b] = {} /\ Held'[b] = Held[a] /\ Held'[a] = {}
    BY <2>4, <2>5, <2>9, HeldIs, HeldIsNext
  <2>13. /\ \A m \in Index : AtCall(m) # a => CallHolds(m)' = CallHolds(m)
         /\ \A w \in Worker : AtJob(w) # b => JobHolds(w)' = JobHolds(w)
    BY <2>4, <2>9
  <2> HIDE DEF a, b
  <2>14. Apart(Held') /\ All(Held') = All(Held)
    BY <1>8, <2>10, <2>11, <2>12, <2>13, RangeMoves
  <2>15. CallCounts'
    BY <1>1, <1>2, <2>2 DEF CallCounts
  <2>16. QED
    BY <1>1, <2>1, <2>2, <2>2a, <2>14, <2>15 DEF Keeps
<1>10. CASE ~(s.k < s.threadCount - 1)
  <2>1. running' = [running EXCEPT ![c] = Starting(j)] /\ To(c, "run", 0) /\ job' = job
    BY <1>4, <1>5, <1>7, <1>10 DEF submit
  <2>2. /\ u.at = "run" /\ u.jobs = s.jobs /\ u.threadCount = s.threadCount
        /\ \A d \in Caller : d # c => call'[d] = call[d]
    BY <1>2, <1>3, <2>1, Moved DEF IndInv, Inside
  <2>2a. u.f = s.f
    BY <1>2, <1>3, <2>1, Moved DEF IndInv, Inside
  <2>3. n \notin Unassigned(u) /\ \A m \in Index : m # n => (m \in Unassigned(u) <=> m \in Unassigned(s))
    BY <1>1, <1>3, <1>4, <1>5, <1>10, <2>2 DEF Unassigned, Index
  <2>4. CallHolds(n) = Span(j) /\ CallHolds(n)' = {} /\ \A m \in Index : m # n => CallHolds(m)' = CallHolds(m)
    BY <1>2, <1>6, <1>7, <2>2, <2>3, CallHoldsIs
  <2>5. running[c] = Finished /\ c \in Thread
    BY <1>1, ThreadTypes DEF IndInv, RunningOK
  <2>6. \A t \in Thread : running'[t] = IF t = c THEN Starting(j) ELSE running[t]
    BY <2>1 DEF IndInv, RunningOK
  <2>7. RunHolds(c) = {} /\ RunHolds(c)' = Span(j) /\ \A t \in Thread : t # c => RunHolds(t)' = RunHolds(t)
    <3>1. Starting(j) # Finished
      BY StartingInRange
    <3>2. Starting(j).i = j.begin /\ Starting(j).end = j.end
      BY DEF Starting
    <3>3. QED
      BY <2>5, <2>6, <3>1, <3>2 DEF RunHolds, Span
  <2>8. \A w \in Worker : JobHolds(w)' = JobHolds(w)
    BY <1>1, <2>1 DEF JobHolds
  <2> DEFINE a == AtCall(n)
             b == AtRun(c)
  <2>9. a \in Place /\ b \in Place /\ a # b
    BY <2>5, Places, PlacesDiffer
  <2>10. Held[b] = {} /\ Held'[b] = Held[a] /\ Held'[a] = {}
    BY <2>4, <2>5, <2>7, HeldIs, HeldIsNext
  <2>11. /\ \A m \in Index : AtCall(m) # a => CallHolds(m)' = CallHolds(m)
         /\ \A t \in Thread : AtRun(t) # b => RunHolds(t)' = RunHolds(t)
    BY <2>4, <2>7
  <2> HIDE DEF a, b
  <2>12. Apart(Held') /\ All(Held') = All(Held)
    BY <1>8, <2>8, <2>9, <2>10, <2>11, RangeMoves
  <2>13. CallCounts'
    BY <1>1, <1>2, <2>2 DEF CallCounts
  <2>14. Starting(j).at = "start"
    BY DEF Starting
  <2>15. QED
    BY <1>1, <2>2, <2>2a, <2>6, <2>12, <2>13, <2>14 DEF Keeps
<1>11. QED
  BY <1>9, <1>10

LEMMA notifyOccupiedHeld ==
    ASSUME IndInv, CallCounts, Apart(Held), NEW c \in Caller, notifyOccupied(c)
    PROVE  Keeps
<1> DEFINE s == call[c]
           u == call'[c]
<1>1. s.at = "notify" /\ To(c, "submit", s.k + 1) /\ UNCHANGED <<poolMutex, queue, job, running>>
  BY DEF notifyOccupied
<1>2. poolMutex = c /\ InCall(s) /\ \A d \in Caller : d # c => call[d].at = "outside"
  BY <1>1, Owner
<1>3. s.k \in Nat /\ s.threadCount \in Nat /\ s.k + 1 <= s.threadCount - 1
  BY <1>1, <1>2 DEF InCall
<1>4. /\ u.at = "submit" /\ u.k = s.k + 1 /\ u.f = s.f /\ u.jobs = s.jobs /\ u.threadCount = s.threadCount
      /\ \A d \in Caller : d # c => call'[d] = call[d]
  BY <1>1, <1>2, <1>3, Moved DEF IndInv, Inside
<1>5. \A w \in Worker : worker'[w] = "run" <=> worker[w] = "run"
  BY DEF notifyOccupied, Notified, IndInv, JobsOK
<1>6. Unassigned(u) = Unassigned(s)
  BY <1>1, <1>3, <1>4 DEF Unassigned
<1>7. Held' = Held
  BY <1>1, <1>4, <1>5, <1>6, CallSame
<1>8. CallCounts'
  BY <1>1, <1>2, <1>4 DEF CallCounts
<1>9. QED
  BY <1>1, <1>4, <1>7, <1>8 DEF Keeps

\* From where the caller runs its own job on, it has given all jobs away.
LEMMA GivenAway ==
    ASSUME IndInv, CallCounts, Apart(Held), NEW c \in Caller, call[c].at \in {"run", "wait", "sleep"},
           NEW at \in {"run", "wait", "sleep"}, NEW k \in Nat, To(c, at, k),
           UNCHANGED <<poolMutex, queue, job, running>>,
           \A w \in Worker : worker'[w] = "run" <=> worker[w] = "run"
    PROVE  Keeps
<1> DEFINE s == call[c]
           u == call'[c]
<1>1. poolMutex = c /\ InCall(s) /\ \A d \in Caller : d # c => call[d].at = "outside"
  BY Owner
<1>2. /\ u.at = at /\ u.f = s.f /\ u.jobs = s.jobs /\ u.threadCount = s.threadCount
      /\ \A d \in Caller : d # c => call'[d] = call[d]
  BY <1>1, Moved DEF IndInv, Inside
<1>3. Unassigned(u) = {} /\ Unassigned(s) = {}
  BY <1>2 DEF Unassigned
<1>4. Held' = Held
  BY <1>2, <1>3, CallSame
<1>5. CallCounts'
  BY <1>1, <1>2 DEF CallCounts
<1>6. QED
  BY <1>2, <1>4, <1>5 DEF Keeps

\* The first job of the queue is taken by thread t.
LEMMA PoppedHeld ==
    ASSUME IndInv, CallCounts, Apart(Held), NEW t \in Thread, running[t] = Finished, queue # <<>>,
           running' = [running EXCEPT ![t] = Starting(Head(queue))], queue' = Tail(queue),
           UNCHANGED <<poolMutex, call, job, worker>>
    PROVE  Keeps
<1>1. queue \in Seq(AnyJob) /\ Len(queue) \in Nat /\ Len(queue) >= 1
  BY LenProperties, EmptySeq DEF IndInv, QueueOK
<1>2. PICK j : j = queue[1] /\ j = Head(queue)
  BY <1>1
<1>3. j \in Job(call[poolMutex].f)
  BY <1>2, Popped DEF IndInv
<1>4. Len(queue') = Len(queue) - 1 /\ \A n \in 1 .. Len(queue') : queue'[n] = queue[n + 1]
  BY <1>1
<1>5. \A n \in Index : n + 1 \in Index /\ (n \in 1 .. Len(queue') <=> n + 1 \in 1 .. Len(queue))
  BY <1>1, <1>4 DEF Index
<1>6. \A n \in Index : QueueHolds(n)' = QueueHolds(n + 1)
  BY <1>4, <1>5 DEF QueueHolds
<1>7. 1 \in Index /\ QueueHolds(1) = Span(j)
  <2>1. 1 \in 1 .. Len(queue)
    BY <1>1
  <2>2. QED
    BY <1>2, <2>1 DEF QueueHolds, Index
<1>8. \A v \in Thread : running'[v] = IF v = t THEN Starting(j) ELSE running[v]
  BY <1>2 DEF IndInv, RunningOK
<1>9. Starting(j) # Finished /\ Starting(j).at = "start"
  BY <1>3, StartingInRange
<1>10. Starting(j).i = j.begin /\ Starting(j).end = j.end
  BY DEF Starting
<1>11. RunHolds(t) = {} /\ RunHolds(t)' = Span(j) /\ \A v \in Thread : v # t => RunHolds(v)' = RunHolds(v)
  BY <1>8, <1>9, <1>10 DEF RunHolds, Span
<1>12. \A n \in Index : CallHolds(n)' = CallHolds(n)
  BY DEF CallHolds
<1>13. \A w \in Worker : JobHolds(w)' = JobHolds(w)
  BY DEF JobHolds
<1> DEFINE b == AtRun(t)
<1>14. b \in Place /\ \A n \in Index : b # AtQueue(n)
  BY Places, PlacesDiffer
<1>15. Held[b] = {} /\ Held'[b] = Held[AtQueue(1)]
  BY <1>7, <1>11, HeldIs, HeldIsNext
<1>16. \A n \in Index : Held'[AtQueue(n)] = Held[AtQueue(n + 1)]
  BY <1>5, <1>6, HeldIs, HeldIsNext
<1>17. ASSUME NEW p \in Place, p # b, \A n \in Index : p # AtQueue(n)
       PROVE  Held'[p] = Held[p]
  <2>1. CASE \E n \in Index : p = AtCall(n)
    BY <1>12, <2>1, HeldIs, HeldIsNext
  <2>2. CASE \E w \in Worker : p = AtJob(w)
    BY <1>13, <2>2, HeldIs, HeldIsNext
  <2>3. CASE \E v \in Thread : p = AtRun(v)
    BY <1>11, <1>17, <2>3, HeldIs, HeldIsNext
  <2>4. QED
    BY <1>17, <2>1, <2>2, <2>3, Places
<1> HIDE DEF b
<1>18. Apart(Held') /\ All(Held') = All(Held)
  BY <1>14, <1>15, <1>16, <1>17, PopHeld
<1>19. QED
  BY <1>8, <1>9, <1>18 DEF Keeps, CallCounts

LEMMA callerTryPopHeld ==
    ASSUME IndInv, CallCounts, Apart(Held), NEW c \in Caller, callerTryPop(c)
    PROVE  Keeps
<1>1. call[c].at = "run" /\ running[c] = Finished /\ UNCHANGED <<poolMutex, job, worker>> /\ c \in Thread
  BY ThreadTypes DEF callerTryPop
<1>2. CASE queue # <<>>
  BY <1>1, <1>2, PoppedHeld DEF callerTryPop
<1>3. CASE queue = <<>>
  <2>1. To(c, "wait", 0) /\ UNCHANGED <<queue, running>> /\ 0 \in Nat
    BY <1>3 DEF callerTryPop
  <2>2. QED
    BY <1>1, <2>1, GivenAway
<1>4. QED
  BY <1>2, <1>3

LEMMA wakeCallerHeld ==
    ASSUME IndInv, CallCounts, Apart(Held), NEW c \in Caller, wakeCaller(c)
    PROVE  Keeps
<1>1. call[c].at = "sleep" /\ To(c, "wait", call[c].k) /\ UNCHANGED <<poolMutex, queue, job, running, worker>>
  BY DEF wakeCaller
<1>2. InCall(call[c])
  BY <1>1, Owner
<1>3. call[c].k \in Nat
  BY <1>2 DEF InCall
<1>4. QED
  BY <1>1, <1>3, GivenAway

\* The caller waits for another worker, or parallelFor returns and nothing is left.
LEMMA waitWorkerHeld ==
    ASSUME IndInv, CallCounts, Apart(Held), NEW c \in Caller, waitWorker(c)
    PROVE  /\ Keeps
           /\ poolMutex' = poolMutex \/ (poolMutex = c /\ poolMutex' = None /\ All(Held) = {})
<1>1. call[c].at = "wait" /\ UNCHANGED <<queue, mutex, job, worker, stop, running>>
  BY DEF waitWorker
<1>2. poolMutex = c /\ InCall(call[c]) /\ \A d \in Caller : d # c => call[d].at = "outside"
  BY <1>1, Owner
<1>3. call[c].k \in Nat /\ call[c].threadCount \in Nat
  BY <1>2 DEF InCall
<1>4. CASE call[c].k < call[c].threadCount - 1
  <2>1. PICK at \in {"run", "wait", "sleep"}, k \in Nat : To(c, at, k)
    BY <1>3, <1>4 DEF waitWorker
  <2>2. poolMutex' = poolMutex
    BY <1>4 DEF waitWorker
  <2>3. QED
    BY <1>1, <2>1, <2>2, GivenAway
<1>5. CASE ~(call[c].k < call[c].threadCount - 1)
  <2>1. call' = [call EXCEPT ![c] = Outside] /\ poolMutex' = None
    BY <1>5 DEF waitWorker
  <2>2. \A d \in Caller : call'[d] = IF d = c THEN Outside ELSE call[d]
    BY <2>1 DEF IndInv, CallsOK
  <2>3. queue = <<>>
    BY <1>1, <1>2, ThreadTypes DEF IndInv, QueueOK
  <2>4. \A w \in Worker : job[w] = None
    BY <1>1, <1>2, <1>3, <1>5, ThreadTypes DEF IndInv, JobsOK, Awaits
  <2>5. \A t \in Thread : running[t] = Finished
    BY <1>1, <1>2, <2>4, ThreadTypes DEF IndInv, JobsOK, RunningOK
  <2>6. \A n \in Index : CallHolds(n) = {}
    <3>1. Unassigned(call[c]) = {}
      BY <1>1 DEF Unassigned
    <3>2. QED
      BY <1>2, <3>1, CallHoldsIs
  <2>7. \A n \in Index : CallHolds(n)' = {}
    BY <2>1 DEF CallHolds
  <2>8. \A n \in Index : QueueHolds(n) = {} /\ QueueHolds(n)' = QueueHolds(n)
    BY <1>1, <2>3 DEF QueueHolds
  <2>9. \A w \in Worker : JobHolds(w) = {} /\ JobHolds(w)' = JobHolds(w)
    BY <1>1, <2>4 DEF JobHolds
  <2>10. \A t \in Thread : RunHolds(t) = {} /\ RunHolds(t)' = RunHolds(t)
    BY <1>1, <2>5 DEF RunHolds
  <2>11. Held' = Held
    BY <2>6, <2>7, <2>8, <2>9, <2>10, SameHeld
  <2>12. All(Held) = {}
    <3>1. \A p \in Place : Held[p] = {}
      BY <2>6, <2>8, <2>9, <2>10, HeldIs, Places
    <3>2. QED
      BY <3>1 DEF All
  <2>13. CallCounts'
    BY <2>2 DEF CallCounts, Outside
  <2>14. QED
    BY <1>1, <1>2, <2>1, <2>2, <2>11, <2>12, <2>13 DEF Keeps, Outside
<1>6. QED
  BY <1>4, <1>5

\* The steps of a worker that start no job.
LEMMA WorkerOnlyHeld ==
    ASSUME IndInv, CallCounts, Apart(Held), UNCHANGED <<poolMutex, queue, running>>,
           \A c \in Caller : call'[c] = call[c],
           \A w \in Worker : JobHolds(w)' = JobHolds(w)
    PROVE  Keeps
<1>1. \A n \in Index : CallHolds(n)' = CallHolds(n)
  BY DEF CallHolds, IndInv, Exclusive
<1>2. \A n \in Index : QueueHolds(n)' = QueueHolds(n)
  BY DEF QueueHolds
<1>3. \A t \in Thread : RunHolds(t)' = RunHolds(t)
  BY DEF RunHolds
<1>4. Held' = Held
  BY <1>1, <1>2, <1>3, SameHeld
<1>5. QED
  BY <1>4 DEF Keeps, CallCounts

LEMMA WorkerMovesHeld ==
    ASSUME IndInv, CallCounts, Apart(Held), NEW w \in Worker,
           lockMutex(w) \/ waitOccupied(w) \/ wakeWorker(w) \/ destroyWorker(w)
    PROVE  Keeps
<1>1. UNCHANGED <<poolMutex, queue, call, job, running>>
  BY DEF lockMutex, waitOccupied, wakeWorker, destroyWorker
<1>2. \A v \in Worker : worker'[v] = "run" <=> worker[v] = "run"
  BY DEF lockMutex, waitOccupied, wakeWorker, destroyWorker, Notified, IndInv, JobsOK
<1>3. \A v \in Worker : JobHolds(v)' = JobHolds(v)
  BY <1>1, <1>2 DEF JobHolds
<1>4. QED
  BY <1>1, <1>3, WorkerOnlyHeld

LEMMA checkOccupiedHeld ==
    ASSUME IndInv, CallCounts, Apart(Held), NEW w \in Worker, checkOccupied(w)
    PROVE  Keeps
<1>1. worker[w] = "check" /\ UNCHANGED <<poolMutex, queue, call, job>> /\ w \in Thread
  BY ThreadTypes DEF checkOccupied
<1>2. CASE running' = running /\ \E at \in {"wait", "returned"} : worker' = [worker EXCEPT ![w] = at]
  <2>1. \A v \in Worker : worker'[v] = "run" <=> worker[v] = "run"
    BY <1>1, <1>2 DEF IndInv, JobsOK
  <2>2. \A v \in Worker : JobHolds(v)' = JobHolds(v)
    BY <1>1, <2>1 DEF JobHolds
  <2>3. QED
    BY <1>1, <1>2, <2>2, WorkerOnlyHeld
<1>3. CASE /\ job[w] # None /\ worker' = [worker EXCEPT ![w] = "run"]
           /\ running' = [running EXCEPT ![w] = Starting(job[w])]
  <2>1. PICK j : j = job[w]
    OBVIOUS
  <2>2. j \in Job(call[poolMutex].f)
    BY <1>3, <2>1 DEF IndInv, JobsOK
  <2>3. \A v \in Worker : worker'[v] = IF v = w THEN "run" ELSE worker[v]
    BY <1>3 DEF IndInv, JobsOK
  <2>4. JobHolds(w) = Span(j) /\ JobHolds(w)' = {} /\ \A v \in Worker : v # w => JobHolds(v)' = JobHolds(v)
    BY <1>1, <1>3, <2>1, <2>3 DEF JobHolds
  <2>5. running[w] = Finished
    BY <1>1 DEF IndInv, JobsOK
  <2>6. \A v \in Thread : running'[v] = IF v = w THEN Starting(j) ELSE running[v]
    BY <1>3, <2>1 DEF IndInv, RunningOK
  <2>7. Starting(j) # Finished /\ Starting(j).at = "start"
    BY <2>2, StartingInRange
  <2>8. Starting(j).i = j.begin /\ Starting(j).end = j.end
    BY DEF Starting
  <2>9. RunHolds(w) = {} /\ RunHolds(w)' = Span(j) /\ \A v \in Thread : v # w => RunHolds(v)' = RunHolds(v)
    BY <1>1, <2>5, <2>6, <2>7, <2>8 DEF RunHolds, Span
  <2>10. \A n \in Index : CallHolds(n)' = CallHolds(n)
    BY <1>1 DEF CallHolds
  <2>11. \A n \in Index : QueueHolds(n)' = QueueHolds(n)
    BY <1>1 DEF QueueHolds
  <2> DEFINE a == AtJob(w)
             b == AtRun(w)
  <2>12. a \in Place /\ b \in Place /\ a # b
    BY <1>1, Places, PlacesDiffer
  <2>13. Held[b] = {} /\ Held'[b] = Held[a] /\ Held'[a] = {}
    BY <1>1, <2>4, <2>9, HeldIs, HeldIsNext
  <2>14. /\ \A v \in Worker : AtJob(v) # a => JobHolds(v)' = JobHolds(v)
         /\ \A v \in Thread : AtRun(v) # b => RunHolds(v)' = RunHolds(v)
    BY <2>4, <2>9
  <2> HIDE DEF a, b
  <2>15. Apart(Held') /\ All(Held') = All(Held)
    BY <2>10, <2>11, <2>12, <2>13, <2>14, RangeMoves
  <2>16. QED
    BY <1>1, <2>6, <2>7, <2>15 DEF Keeps, CallCounts
<1>4. QED
  BY <1>2, <1>3 DEF checkOccupied

LEMMA workerTryPopHeld ==
    ASSUME IndInv, CallCounts, Apart(Held), NEW w \in Worker, workerTryPop(w)
    PROVE  Keeps
<1>1. worker[w] = "run" /\ running[w] = Finished /\ UNCHANGED <<poolMutex, call>> /\ w \in Thread
  BY ThreadTypes DEF workerTryPop
<1>2. CASE queue # <<>>
  BY <1>1, <1>2, PoppedHeld DEF workerTryPop
<1>3. CASE queue = <<>>
  <2>1. /\ job' = [job EXCEPT ![w] = None] /\ worker' = [worker EXCEPT ![w] = "notify"]
        /\ UNCHANGED <<queue, running>>
    BY <1>3 DEF workerTryPop
  <2>2. \A v \in Worker : /\ job'[v] = IF v = w THEN None ELSE job[v]
                          /\ worker'[v] = IF v = w THEN "notify" ELSE worker[v]
    BY <2>1 DEF IndInv, JobsOK
  <2>3. \A v \in Worker : JobHolds(v)' = JobHolds(v)
    BY <1>1, <2>2 DEF JobHolds
  <2>4. QED
    BY <1>1, <2>1, <2>3, WorkerOnlyHeld
<1>4. QED
  BY <1>2, <1>3

LEMMA notifyFinishedHeld ==
    ASSUME IndInv, CallCounts, Apart(Held), NEW w \in Worker, notifyFinished(w)
    PROVE  Keeps
<1>1. /\ worker[w] = "notify" /\ worker' = [worker EXCEPT ![w] = "lock"]
      /\ UNCHANGED <<poolMutex, queue, job, running>>
  BY DEF notifyFinished
<1>2. \A v \in Worker : worker'[v] = "run" <=> worker[v] = "run"
  BY <1>1 DEF IndInv, JobsOK
<1>3. CASE \E c \in Caller : call[c].at = "sleep" /\ call[c].k = w
  <2>1. PICK c \in Caller : call[c].at = "sleep" /\ call[c].k = w
    BY <1>3
  <2>2. poolMutex = c /\ InCall(call[c]) /\ \A d \in Caller : d # c => call[d].at = "outside"
    BY <2>1, Owner
  <2>3. To(c, "wait", w)
    <3>1. call' = [d \in Caller |-> IF d = c THEN [call[c] EXCEPT !.at = "wait"] ELSE call[d]]
      BY <2>1, <2>2 DEF notifyFinished
    <3>2. [call[c] EXCEPT !.at = "wait"] = [call[c] EXCEPT !.at = "wait", !.k = w]
      BY <2>1, <2>2 DEF InCall
    <3>3. QED
      BY <3>1, <3>2 DEF To, IndInv, CallsOK
  <2>4. w \in Nat
    BY PoolAssumption DEF Worker
  <2>5. QED
    BY <1>1, <1>2, <2>1, <2>3, <2>4, GivenAway
<1>4. CASE ~\E c \in Caller : call[c].at = "sleep" /\ call[c].k = w
  <2>1. call' = [c \in Caller |-> call[c]]
    BY <1>4 DEF notifyFinished
  <2>2. \A c \in Caller : call'[c] = call[c]
    BY <2>1
  <2>3. \A v \in Worker : JobHolds(v)' = JobHolds(v)
    BY <1>1, <1>2 DEF JobHolds
  <2>4. QED
    BY <1>1, <2>2, <2>3, WorkerOnlyHeld
<1>5. QED
  BY <1>3, <1>4

\* A loop begins with all of its elements at places of their own.
LEMMA parallelForHeld ==
    ASSUME IndInv, CallCounts, NEW c \in Caller, NEW f \in Func, parallelFor(c, f, Elements(f))
    PROVE  /\ Apart(Held') /\ All(Held') = 1 .. Elements(f)
           /\ CallCounts'
           /\ poolMutex = None /\ poolMutex' = c /\ running' = running
           /\ call[c].at = "outside" /\ call'[c].at # "outside" /\ call'[c].f = f
           /\ \A d \in Caller : call[d].at = "outside" /\ (d # c => call'[d].at = "outside")
<1>1. PICK n \in Nat \ {0} : n = Elements(f)
  BY CountTypes
<1>2. PICK jobs : jobs = divideWork(f, n)
  OBVIOUS
<1>3. PICK count \in Nat \ {0} : count = chunkCount(n) /\ Len(jobs) = count
  BY <1>2, DivideWorkRanges
<1>4. /\ \A i, k \in 1 .. count : i # k => Span(jobs[i]) \cap Span(jobs[k]) = {}
      /\ \A x : x \in 1 .. n <=> \E i \in 1 .. count : x \in Span(jobs[i])
  BY <1>2, <1>3, DivideWorkPartition
<1>5. PICK threadCount \in 1 .. count : /\ threadCount = IF nThreads < Len(jobs) THEN nThreads ELSE Len(jobs)
                                        /\ threadCount <= nThreads
  BY <1>3, PoolAssumption
<1> DEFINE s == [at |-> "push", f |-> f, jobs |-> jobs, threadCount |-> threadCount, k |-> threadCount + 1]
<1>6. /\ call[c].at = "outside" /\ poolMutex = None /\ poolMutex' = c
      /\ call' = [call EXCEPT ![c] = s]
      /\ UNCHANGED <<queue, mutex, job, worker, stop, running>>
  BY <1>1, <1>2, <1>5 DEF parallelFor
<1>7. \A d \in Caller : call'[d] = IF d = c THEN s ELSE call[d]
  BY <1>6 DEF IndInv, CallsOK
<1>8. \A d \in Caller : call[d].at = "outside"
  BY <1>6, ThreadTypes DEF IndInv, Exclusive
<1>9. \A i \in Index : i \in Unassigned(s) <=> i \in 1 .. count
  BY <1>3, <1>5 DEF Unassigned, Index
<1>10. \A i \in Index : CallHolds(i)' = IF i \in 1 .. count THEN Span(jobs[i]) ELSE {}
  <2>1. call'[c] = s /\ s.jobs = jobs
    BY <1>7
  <2> HIDE DEF s
  <2>2. QED
    BY <1>6, <1>9, <2>1, CallHoldsIs
<1>11. \A i \in Index : QueueHolds(i)' = {}
  <2>1. queue' = <<>>
    BY <1>6 DEF IndInv, QueueOK
  <2>2. QED
    BY <2>1 DEF QueueHolds
<1>12. \A w \in Worker : JobHolds(w)' = {}
  BY <1>6 DEF JobHolds, IndInv, JobsOK
<1>13. \A t \in Thread : RunHolds(t)' = {}
  BY <1>6 DEF RunHolds, IndInv, RunningOK
<1>14. ASSUME NEW p \in Place
       PROVE  Held'[p] = {} \/ \E i \in 1 .. count : p = AtCall(i) /\ Held'[p] = Span(jobs[i])
  BY <1>10, <1>11, <1>12, <1>13, HeldIsNext, Places
<1>15. Apart(Held')
  <2> SUFFICES ASSUME NEW p \in Place, NEW q \in Place, p # q
               PROVE  Held'[p] \cap Held'[q] = {}
    BY DEF Apart
  <2>1. QED
    BY <1>4, <1>14
<1>16. ASSUME NEW x \in 1 .. n
       PROVE  x \in All(Held')
  <2>1. PICK i \in 1 .. count : x \in Span(jobs[i])
    BY <1>4
  <2>2. i \in Index
    BY <1>3 DEF Index
  <2>3. AtCall(i) \in Place /\ Held'[AtCall(i)] = Span(jobs[i])
    BY <1>10, <2>2, HeldIsNext, Places
  <2>4. QED
    BY <2>1, <2>3 DEF All
<1>17. ASSUME NEW x \in All(Held')
       PROVE  x \in 1 .. n
  <2>1. PICK p \in Place : x \in Held'[p]
    BY <1>17 DEF All
  <2>2. QED
    BY <1>4, <1>14, <2>1
<1>18. CallCounts'
  <2>1. s.at = "push" /\ s.k = threadCount + 1 /\ s.threadCount = threadCount
    OBVIOUS
  <2>2. s.k > s.threadCount /\ s.threadCount <= nThreads
    BY <1>3, <1>5, <2>1
  <2> HIDE DEF s
  <2>3. QED
    BY <1>7, <1>8, <2>2 DEF CallCounts
<1>19. All(Held') = 1 .. Elements(f)
  BY <1>1, <1>16, <1>17
<1>20. call'[c].at # "outside" /\ call'[c].f = f /\ \A d \in Caller : d # c => call'[d] = call[d]
  <2>1. s.at = "push" /\ s.f = f
    OBVIOUS
  <2> HIDE DEF s
  <2>2. QED
    BY <1>7, <2>1
<1> HIDE DEF s
<1>21. QED
  BY <1>6, <1>8, <1>15, <1>18, <1>19, <1>20

-----------------------------------------------------------------------------
(***************************************************************************)
(* What prove has in a and b while its two loops run.                      *)
(***************************************************************************)

\* The elements that the loop of prove in progress has yet to do.
Pending == IF poolMutex = Prover THEN All(Held) ELSE {}

\* Whose function is run, and where prove is meanwhile.
PhaseOK ==
    /\ \A c \in Rival : call[c].at # "outside" => call[c].f = c
    /\ call[Prover].at # "outside" =>
           \/ pc = "initializing" /\ call[Prover].f = "initialize"
           \/ pc = "summing" /\ call[Prover].f = "processing coefs"

\* a and b are arrays of domainSize elements until they are transformed.
ShapeOK ==
    /\ wtns \in Witness
    /\ pc \in {"multiexp", "initialize", "initializing", "processing coefs", "summing"} =>
           DOMAIN ab = 0 .. 2 /\ \A m \in 0 .. 2 : DOMAIN ab[m] = Row

\* The entries of row c of matrix m that prove has added.
Added(m, c) == {i \in 1 .. nCoefs : i \notin Pending /\ coefs[i].m = m /\ coefs[i].c = c}

\* The rows that the first loop is done with are clear.
Cleared ==
    /\ pc = "initializing" => \A m \in {0, 1}, c \in Row : c + 1 \notin Pending => ab[m][c] = 0
    /\ pc = "processing coefs" => \A m \in {0, 1}, c \in Row : ab[m][c] = 0

\* A row holds the sum of the products that the second loop is done with.
Summed ==
    pc \in {"summing", "shift"} =>
        \A m \in {0, 1}, c \in Row :
            ab[m][c] \in Fr /\ Congruent(ab[m][c], SumOf(aux[wtns], Added(m, c)))

\* What a thread is about to write is what it read and its product, still.
SumRight ==
    \A t \in Thread : running[t].at = "store" =>
        running[t].sum = rawAdd(ab[coefs[running[t].i].m][coefs[running[t].i].c], aux[wtns][running[t].i])

SumInv == PhaseOK /\ CallCounts /\ ShapeOK /\ Apart(Held) /\ Cleared /\ Summed /\ SumRight

\* A thread runs the loop that prove is in, or one of another caller.
LEMMA RunOf ==
    ASSUME IndInv, PhaseOK, NEW t \in Thread, running[t] # Finished
    PROVE  /\ InRange(running[t], running[t].of)
           /\ running[t].of = "initialize" => poolMutex = Prover /\ pc = "initializing"
           /\ running[t].of = "processing coefs" => poolMutex = Prover /\ pc = "summing"
           /\ running[t].of \in Rival => poolMutex # Prover
           /\ running[t].at \in {"load", "store"} => running[t].of = "processing coefs"
<1>1. poolMutex # None /\ InRange(running[t], call[poolMutex].f) /\ running[t].of = call[poolMutex].f
  BY DEF IndInv, RunningOK, InRange
<1>2. PICK p \in Caller : p = poolMutex /\ call[p].at # "outside"
  BY <1>1 DEF IndInv, Exclusive
<1>3. "initialize" \notin Caller /\ "processing coefs" \notin Caller /\ Prover \in Caller
  BY ProverAssumption
<1>4. p # Prover => call[p].f = p
  BY <1>2 DEF PhaseOK, Rival
<1>5. p = Prover => \/ pc = "initializing" /\ call[p].f = "initialize"
                    \/ pc = "summing" /\ call[p].f = "processing coefs"
  BY <1>2 DEF PhaseOK
<1>6. running[t].at \in {"load", "store"} => running[t].of = "processing coefs"
  BY <1>1 DEF InRange
<1>7. QED
  BY <1>1, <1>2, <1>3, <1>4, <1>5, <1>6 DEF Rival

\* A thread at the write is in the second loop of prove, at a coefficient.
LEMMA StoreOf ==
    ASSUME IndInv, PhaseOK, NEW t \in Thread, running[t].at \in {"load", "store"}
    PROVE  /\ running[t] # Finished /\ running[t].of = "processing coefs"
           /\ poolMutex = Prover /\ pc = "summing" /\ running[t].i \in 1 .. nCoefs
<1>1. running[t] # Finished
  BY DEF Finished
<1>2. running[t].of = "processing coefs" /\ InRange(running[t], "processing coefs")
  BY <1>1, RunOf
<1>3. Elements("processing coefs") = nCoefs
  BY DEF Elements
<1>4. QED
  BY <1>1, <1>2, <1>3, RunOf DEF InRange

\* Prove waits for its loop or is in none.
LEMMA NothingPending ==
    ASSUME IndInv, call[Prover].at = "outside"
    PROVE  poolMutex # Prover /\ Pending = {}
BY ProverAssumption, ThreadTypes DEF Pending, IndInv, Exclusive

\* A step of the pool leaves the sums as they are.
LEMMA PoolKeeps ==
    ASSUME IndInv, SumInv, Keeps, Pending' = Pending, OfPool
    PROVE  SumInv'
<1>1. /\ UNCHANGED <<pc, wtns, ab>>
      /\ \A m, c : Added(m, c)' = Added(m, c)
  BY DEF OfPool, proveVars, Added
<1>2. PhaseOK'
  BY <1>1, ProverAssumption DEF SumInv, PhaseOK, Keeps, Rival
<1>3. ShapeOK' /\ Cleared'
  BY <1>1 DEF SumInv, ShapeOK, Cleared
<1>4. Summed'
  BY <1>1 DEF SumInv, Summed
<1>5. SumRight'
  <2>1. \A t \in Thread : running'[t].at = "store" => running[t].at = "store" /\ running'[t] = running[t]
    BY DEF Keeps
  <2>2. QED
    BY <1>1, <2>1 DEF SumInv, SumRight
<1>6. QED
  BY <1>2, <1>3, <1>4, <1>5 DEF SumInv, Keeps

LEMMA PoolStepSum ==
    ASSUME IndInv, SumInv, OfPool,
           \/ \E c \in Caller : \/ unsafePush(c) \/ submit(c) \/ notifyOccupied(c) \/ callerTryPop(c)
                                \/ waitWorker(c) \/ wakeCaller(c)
           \/ \E w \in Worker : \/ lockMutex(w) \/ checkOccupied(w) \/ waitOccupied(w) \/ workerTryPop(w)
                                \/ notifyFinished(w) \/ wakeWorker(w) \/ destroyWorker(w)
    PROVE  SumInv'
<1>1. CallCounts /\ Apart(Held)
  BY DEF SumInv
<1>2. ASSUME Keeps, poolMutex' = poolMutex
      PROVE  SumInv'
  <2>1. Pending' = Pending
    BY <1>2 DEF Pending, Keeps
  <2>2. QED
    BY <1>2, <2>1, PoolKeeps
<1>3. ASSUME NEW c \in Caller, unsafePush(c) \/ submit(c) \/ notifyOccupied(c)
      PROVE  SumInv'
  <2>1. Keeps
    BY <1>1, <1>3, unsafePushHeld, submitHeld, notifyOccupiedHeld
  <2>2. poolMutex' = poolMutex
    BY <1>3 DEF unsafePush, submit, notifyOccupied
  <2>3. QED
    BY <1>2, <2>1, <2>2
<1>4. ASSUME NEW c \in Caller, callerTryPop(c) \/ wakeCaller(c)
      PROVE  SumInv'
  <2>1. Keeps
    BY <1>1, <1>4, callerTryPopHeld, wakeCallerHeld
  <2>2. poolMutex' = poolMutex
    BY <1>4 DEF callerTryPop, wakeCaller
  <2>3. QED
    BY <1>2, <2>1, <2>2
<1>5. ASSUME NEW c \in Caller, waitWorker(c)
      PROVE  SumInv'
  <2>1. Keeps /\ (poolMutex' = poolMutex \/ (poolMutex = c /\ poolMutex' = None /\ All(Held) = {}))
    BY <1>1, <1>5, waitWorkerHeld
  <2>2. CASE poolMutex' = None /\ All(Held) = {}
    <3>1. Pending' = Pending
      BY <2>2, ProverAssumption, ThreadTypes DEF Pending
    <3>2. QED
      BY <2>1, <3>1, PoolKeeps
  <2>3. QED
    BY <1>2, <2>1, <2>2
<1>6. ASSUME NEW w \in Worker, lockMutex(w) \/ waitOccupied(w) \/ wakeWorker(w) \/ destroyWorker(w)
      PROVE  SumInv'
  <2>1. Keeps
    BY <1>1, <1>6, WorkerMovesHeld
  <2>2. poolMutex' = poolMutex
    BY <1>6 DEF lockMutex, waitOccupied, wakeWorker, destroyWorker
  <2>3. QED
    BY <1>2, <2>1, <2>2
<1>7. ASSUME NEW w \in Worker, checkOccupied(w) \/ workerTryPop(w) \/ notifyFinished(w)
      PROVE  SumInv'
  <2>1. Keeps
    BY <1>1, <1>7, checkOccupiedHeld, workerTryPopHeld, notifyFinishedHeld
  <2>2. poolMutex' = poolMutex
    BY <1>7 DEF checkOccupied, workerTryPop, notifyFinished
  <2>3. QED
    BY <1>2, <2>1, <2>2
<1>8. QED
  BY <1>3, <1>4, <1>5, <1>6, <1>7

\* A thread moves in its range: what the others hold stays where it is.
LEMMA RunHeld ==
    ASSUME NEW t \in Thread, PoolIdle, \A v \in Thread : v # t => running'[v] = running[v]
    PROVE  /\ \A p \in Place : p # AtRun(t) => Held'[p] = Held[p]
           /\ Held'[AtRun(t)] = RunHolds(t)' /\ Held[AtRun(t)] = RunHolds(t)
<1>1. /\ \A n \in Index : CallHolds(n)' = CallHolds(n) /\ QueueHolds(n)' = QueueHolds(n)
      /\ \A w \in Worker : JobHolds(w)' = JobHolds(w)
  BY DEF PoolIdle, CallHolds, QueueHolds, JobHolds
<1>2. \A v \in Thread : v # t => RunHolds(v)' = RunHolds(v)
  BY DEF RunHolds
<1>3. ASSUME NEW p \in Place, p # AtRun(t)
      PROVE  Held'[p] = Held[p]
  <2>1. CASE \E n \in Index : p = AtCall(n) \/ p = AtQueue(n)
    BY <1>1, <2>1, HeldIs, HeldIsNext
  <2>2. CASE \E w \in Worker : p = AtJob(w)
    BY <1>1, <2>2, HeldIs, HeldIsNext
  <2>3. CASE \E v \in Thread : p = AtRun(v)
    BY <1>2, <1>3, <2>3, HeldIs, HeldIsNext
  <2>4. QED
    BY <2>1, <2>2, <2>3, Places
<1>4. QED
  BY <1>3, HeldIs, HeldIsNext

\* A thread is done with an element of its range.
LEMMA AdvancedHeld ==
    ASSUME IndInv, Apart(Held), NEW t \in Thread, running[t] # Finished, PoolIdle,
           running' = [running EXCEPT ![t] = Advanced(t)]
    PROVE  /\ Apart(Held') /\ All(Held') = All(Held) \ {running[t].i} /\ running[t].i \in All(Held)
           /\ \A v \in Thread : running'[v].at = "store" => v # t /\ running'[v] = running[v]
<1>1. InRange(running[t], running[t].of)
  BY DEF IndInv, RunningOK, InRange
<1>2. PICK r : r = Advanced(t)
  OBVIOUS
<1>3. PICK i \in Nat, end \in Nat : i = running[t].i /\ end = running[t].end /\ i <= end
  <2>1. PICK n \in Nat : n = Elements(running[t].of)
    BY CountTypes
  <2>2. running[t].i \in 1 .. n /\ running[t].end \in 1 .. n /\ running[t].i <= running[t].end
    BY <1>1, <2>1 DEF InRange
  <2>3. running[t].i \in Nat /\ running[t].end \in Nat
    BY <2>2
  <2>4. QED
    BY <2>2, <2>3
<1>4. r.at \in {"finished", "start"}
  BY <1>1, <1>2, AdvancedInRange
<1>5. (IF r # Finished THEN r.i .. r.end ELSE {}) = (i .. end) \ {i}
  <2>1. CASE i = end
    BY <1>2, <1>3, <2>1 DEF Advanced
  <2>2. CASE i # end
    <3>1. r = [at |-> "start", of |-> running[t].of, i |-> i + 1, end |-> end]
      BY <1>2, <1>3, <2>2 DEF Advanced
    <3>2. r # Finished /\ r.i = i + 1 /\ r.end = end
      BY <3>1 DEF Finished
    <3>3. (i + 1) .. end = (i .. end) \ {i}
      BY <1>3
    <3>4. QED
      BY <3>2, <3>3
  <2>3. QED
    BY <2>1, <2>2
<1>6. /\ \A p \in Place : p # AtRun(t) => Held'[p] = Held[p]
      /\ Held'[AtRun(t)] = (IF r # Finished THEN r.i .. r.end ELSE {})
      /\ Held[AtRun(t)] = i .. end
      /\ \A v \in Thread : running'[v] = IF v = t THEN r ELSE running[v]
  <2>1. \A v \in Thread : running'[v] = IF v = t THEN r ELSE running[v]
    BY <1>2 DEF IndInv, RunningOK
  <2>2. /\ \A p \in Place : p # AtRun(t) => Held'[p] = Held[p]
        /\ Held'[AtRun(t)] = RunHolds(t)' /\ Held[AtRun(t)] = RunHolds(t)
    BY <2>1, RunHeld
  <2>3. RunHolds(t)' = (IF r # Finished THEN r.i .. r.end ELSE {}) /\ RunHolds(t) = i .. end
    BY <1>3, <2>1 DEF RunHolds
  <2>4. QED
    BY <2>1, <2>2, <2>3
<1>7. i \in Held[AtRun(t)] /\ Held'[AtRun(t)] = Held[AtRun(t)] \ {i} /\ AtRun(t) \in Place
  BY <1>3, <1>5, <1>6, Places
<1>8. Apart(Held') /\ All(Held') = All(Held) \ {i} /\ i \in All(Held)
  <2>1. \A p \in Place : p # AtRun(t) => Held'[p] = Held[p]
    BY <1>6
  <2>2. QED
    BY <1>7, <2>1, DropHeld
<1>9. \A v \in Thread : running'[v].at = "store" => v # t /\ running'[v] = running[v]
  BY <1>4, <1>6
<1>10. QED
  BY <1>3, <1>8, <1>9

\* What a step of a loop does not touch.
LEMMA BodyKeeps ==
    ASSUME SumInv, PoolIdle, UNCHANGED <<pc, wtns>>
    PROVE  PhaseOK' /\ CallCounts' /\ wtns' \in Witness
BY DEF SumInv, PhaseOK, CallCounts, ShapeOK, PoolIdle

\* Another caller's thread goes on: prove has no loop in progress.
LEMMA rivalBodySum ==
    ASSUME IndInv, SumInv, NEW t \in Thread, rivalBody(t)
    PROVE  SumInv'
<1>1. /\ running[t].at = "start" /\ running[t].of \in Rival /\ running' = [running EXCEPT ![t] = Advanced(t)]
      /\ PoolIdle /\ UNCHANGED <<pc, wtns, ab>>
  BY DEF rivalBody, To1, proveVars
<1>2. running[t] # Finished /\ PhaseOK /\ Apart(Held)
  BY <1>1 DEF Finished, SumInv
<1>3. poolMutex # Prover /\ poolMutex' = poolMutex
  BY <1>1, <1>2, RunOf DEF PoolIdle
<1>4. Pending = {} /\ Pending' = {}
  BY <1>3 DEF Pending
<1>5. /\ Apart(Held')
      /\ \A v \in Thread : running'[v].at = "store" => v # t /\ running'[v] = running[v]
  BY <1>1, <1>2, AdvancedHeld
<1>6. PhaseOK' /\ CallCounts'
  BY <1>1, BodyKeeps
<1>7. \A m, c : Added(m, c)' = Added(m, c)
  BY <1>4 DEF Added
<1>8. ShapeOK' /\ Cleared'
  BY <1>1, <1>4 DEF SumInv, ShapeOK, Cleared
<1>9. Summed'
  BY <1>1, <1>7 DEF SumInv, Summed
<1>10. SumRight'
  BY <1>1, <1>5 DEF SumInv, SumRight
<1>11. QED
  BY <1>5, <1>6, <1>8, <1>9, <1>10 DEF SumInv

\* A row is cleared.
LEMMA clearSum ==
    ASSUME IndInv, SumInv, NEW t \in Thread, clear(t)
    PROVE  SumInv'
<1>1. /\ running[t].at = "start" /\ running[t].of = "initialize"
      /\ running' = [running EXCEPT ![t] = Advanced(t)]
      /\ PoolIdle /\ UNCHANGED <<pc, wtns>>
  BY DEF clear, To1, proveVars
<1>2. running[t] # Finished /\ PhaseOK /\ Apart(Held)
  BY <1>1 DEF Finished, SumInv
<1>3. InRange(running[t], "initialize") /\ poolMutex = Prover /\ pc = "initializing" /\ poolMutex' = Prover
  BY <1>1, <1>2, RunOf DEF PoolIdle
<1>4. PICK i \in 1 .. domainSize : i = running[t].i
  BY <1>3 DEF InRange, Elements
<1>5. PICK k \in Row : k = i - 1 /\ \A c \in Row : c + 1 = i => c = k
  <2>1. i - 1 \in Row
    BY Groth16Assumption DEF Row
  <2>2. \A c \in Row : c + 1 = i => c = i - 1
    BY Groth16Assumption DEF Row
  <2>3. QED
    BY <2>1, <2>2
<1>6. ab' = [ab EXCEPT ![0][k] = 0, ![1][k] = 0]
  BY <1>4, <1>5 DEF clear
<1>7. DOMAIN ab = 0 .. 2 /\ \A m \in 0 .. 2 : DOMAIN ab[m] = Row
  BY <1>3 DEF SumInv, ShapeOK
<1>8. /\ DOMAIN ab' = 0 .. 2 /\ \A m \in 0 .. 2 : DOMAIN ab'[m] = Row
      /\ \A m \in {0, 1}, c \in Row : ab'[m][c] = IF c = k THEN 0 ELSE ab[m][c]
  BY <1>6, <1>7
<1>9. /\ Apart(Held') /\ All(Held') = All(Held) \ {i}
      /\ \A v \in Thread : running'[v].at = "store" => v # t /\ running'[v] = running[v]
  BY <1>1, <1>2, <1>4, AdvancedHeld
<1>10. Pending' = Pending \ {i}
  BY <1>3, <1>9 DEF Pending
<1>11. PhaseOK' /\ CallCounts' /\ wtns' \in Witness
  BY <1>1, BodyKeeps
<1>12. ShapeOK'
  BY <1>8, <1>11 DEF ShapeOK
<1>13. Cleared'
  <2>1. \A m \in {0, 1}, c \in Row : c + 1 \notin Pending => ab[m][c] = 0
    BY <1>3 DEF SumInv, Cleared
  <2>2. ASSUME NEW m \in {0, 1}, NEW c \in Row, c + 1 \notin Pending'
        PROVE  ab'[m][c] = 0
    <3>1. CASE c = k
      BY <1>8, <3>1
    <3>2. CASE c # k
      BY <1>5, <1>8, <1>10, <2>1, <2>2, <3>2
    <3>3. QED
      BY <3>1, <3>2
  <2>3. QED
    BY <1>1, <1>3, <2>2 DEF Cleared
<1>14. Summed'
  BY <1>1, <1>3 DEF Summed
<1>15. SumRight'
  <2>1. ASSUME NEW v \in Thread, running'[v].at = "store"
        PROVE  FALSE
    <3>1. running[v].at = "store"
      BY <1>9, <2>1
    <3>2. QED
      BY <1>2, <1>3, <3>1, StoreOf
  <2>2. QED
    BY <2>1 DEF SumRight
<1>16. QED
  BY <1>9, <1>11, <1>12, <1>13, <1>14, <1>15 DEF SumInv

\* A thread takes the mutex of a row or reads the row: it holds what it held.
LEMMA lockOrLoadHeld ==
    ASSUME IndInv, NEW t \in Thread, NEW r, running[t] # Finished, PoolIdle,
           running' = [running EXCEPT ![t] = r],
           r # Finished, r.i = running[t].i, r.end = running[t].end
    PROVE  Held' = Held
<1>1. \A v \in Thread : running'[v] = IF v = t THEN r ELSE running[v]
  BY DEF IndInv, RunningOK
<1>2. \A v \in Thread : RunHolds(v)' = RunHolds(v)
  BY <1>1 DEF RunHolds
<1>3. /\ \A n \in Index : CallHolds(n)' = CallHolds(n) /\ QueueHolds(n)' = QueueHolds(n)
      /\ \A w \in Worker : JobHolds(w)' = JobHolds(w)
  BY DEF PoolIdle, CallHolds, QueueHolds, JobHolds
<1>4. QED
  BY <1>2, <1>3, SameHeld

LEMMA lockSum ==
    ASSUME IndInv, SumInv, NEW t \in Thread, lock(t)
    PROVE  SumInv'
<1> DEFINE r == [at |-> "load", of |-> running[t].of, i |-> running[t].i, end |-> running[t].end]
<1>1. /\ running[t].at = "start" /\ running' = [running EXCEPT ![t] = r]
      /\ PoolIdle /\ UNCHANGED <<pc, wtns, ab>>
  BY DEF lock, To1, proveVars
<1>2. running[t] # Finished
  BY <1>1 DEF Finished
<1>3. r # Finished /\ r.i = running[t].i /\ r.end = running[t].end /\ r.at = "load"
  BY DEF Finished
<1> HIDE DEF r
<1>4. Held' = Held
  BY <1>1, <1>2, <1>3, lockOrLoadHeld
<1>5. \A v \in Thread : running'[v].at = "store" => running'[v] = running[v]
  BY <1>1, <1>3 DEF IndInv, RunningOK
<1>6. PhaseOK' /\ CallCounts'
  BY <1>1, BodyKeeps
<1>7. Pending' = Pending
  BY <1>1, <1>4 DEF Pending, PoolIdle
<1>8. \A m, c : Added(m, c)' = Added(m, c)
  BY <1>7 DEF Added
<1>9. ShapeOK' /\ Cleared'
  BY <1>1, <1>7 DEF SumInv, ShapeOK, Cleared
<1>10. Summed'
  BY <1>1, <1>8 DEF SumInv, Summed
<1>11. SumRight'
  BY <1>1, <1>5 DEF SumInv, SumRight
<1>12. Apart(Held')
  BY <1>4 DEF SumInv
<1>13. QED
  BY <1>6, <1>9, <1>10, <1>11, <1>12 DEF SumInv

\* A thread reads what the row holds now.
LEMMA loadSum ==
    ASSUME IndInv, SumInv, NEW t \in Thread, load(t)
    PROVE  SumInv'
<1>1. PICK sum : sum = rawAdd(ab[coefs[running[t].i].m][coefs[running[t].i].c], aux[wtns][running[t].i])
  OBVIOUS
<1> DEFINE r == [at |-> "store", of |-> running[t].of, i |-> running[t].i, end |-> running[t].end, sum |-> sum]
<1>2. /\ running[t].at = "load" /\ running' = [running EXCEPT ![t] = r]
      /\ PoolIdle /\ UNCHANGED <<pc, wtns, ab>>
  BY <1>1 DEF load, To1, proveVars
<1>3. running[t] # Finished
  BY <1>2 DEF Finished
<1>4. r # Finished /\ r.i = running[t].i /\ r.end = running[t].end /\ r.sum = sum
  BY DEF Finished
<1> HIDE DEF r
<1>5. Held' = Held
  BY <1>2, <1>3, <1>4, lockOrLoadHeld
<1>6. \A v \in Thread : running'[v] = IF v = t THEN r ELSE running[v]
  BY <1>2 DEF IndInv, RunningOK
<1>7. PhaseOK' /\ CallCounts'
  BY <1>2, BodyKeeps
<1>8. Pending' = Pending
  BY <1>2, <1>5 DEF Pending, PoolIdle
<1>9. \A m, c : Added(m, c)' = Added(m, c)
  BY <1>8 DEF Added
<1>10. ShapeOK' /\ Cleared'
  BY <1>2, <1>8 DEF SumInv, ShapeOK, Cleared
<1>11. Summed'
  BY <1>2, <1>9 DEF SumInv, Summed
<1>12. SumRight'
  BY <1>1, <1>2, <1>4, <1>6 DEF SumInv, SumRight
<1>13. Apart(Held')
  BY <1>5 DEF SumInv
<1>14. QED
  BY <1>7, <1>10, <1>11, <1>12, <1>13 DEF SumInv

\* One product is added to its row: the sum that is written is of what the row holds now,
\* for nobody else is between the read and the write of this row.
LEMMA storeSum ==
    ASSUME IndInv, SumInv, NEW t \in Thread, store(t)
    PROVE  SumInv'
<1>1. /\ running[t].at = "store" /\ running' = [running EXCEPT ![t] = Advanced(t)]
      /\ PoolIdle /\ UNCHANGED <<pc, wtns>>
  BY DEF store, To1, proveVars
<1>2. PhaseOK /\ Apart(Held) /\ wtns \in Witness
  BY DEF SumInv, ShapeOK
<1>3. running[t] # Finished /\ poolMutex = Prover /\ pc = "summing" /\ poolMutex' = Prover
  BY <1>1, <1>2, StoreOf DEF PoolIdle
<1>4. PICK i \in 1 .. nCoefs : i = running[t].i
  BY <1>1, <1>2, StoreOf
<1>5. PICK m \in {0, 1}, c \in Row : m = coefs[i].m /\ c = coefs[i].c
  BY CoefType
<1>6. PICK sum : sum = running[t].sum
  OBVIOUS
<1>7. ab' = [ab EXCEPT ![m][c] = sum]
  BY <1>4, <1>5, <1>6 DEF store
<1>8. sum = rawAdd(ab[m][c], aux[wtns][i])
  BY <1>1, <1>4, <1>5, <1>6 DEF SumInv, SumRight
<1>9. DOMAIN ab = 0 .. 2 /\ \A n \in 0 .. 2 : DOMAIN ab[n] = Row
  BY <1>3 DEF SumInv, ShapeOK
<1>10. /\ DOMAIN ab' = 0 .. 2 /\ \A n \in 0 .. 2 : DOMAIN ab'[n] = Row
       /\ \A n \in {0, 1}, d \in Row : ab'[n][d] = IF n = m /\ d = c THEN sum ELSE ab[n][d]
  BY <1>7, <1>9
<1>11. /\ Apart(Held') /\ All(Held') = All(Held) \ {i} /\ i \in All(Held)
       /\ \A v \in Thread : running'[v].at = "store" => v # t /\ running'[v] = running[v]
  BY <1>1, <1>2, <1>3, <1>4, AdvancedHeld
<1>12. Pending' = Pending \ {i} /\ i \in Pending
  BY <1>3, <1>11 DEF Pending
<1>13. PhaseOK' /\ CallCounts' /\ wtns' \in Witness
  BY <1>1, BodyKeeps
<1>14. ShapeOK'
  BY <1>10, <1>13 DEF ShapeOK
<1>15. Cleared'
  BY <1>1, <1>3 DEF Cleared
<1>16. PICK x : x = aux[wtns] /\ x \in [1 .. nCoefs -> Int] /\ x \in [1 .. nCoefs -> Fr]
  BY <1>2, auxCorrect
<1>17. \A n \in {0, 1}, d \in Row : ab[n][d] \in Fr /\ Congruent(ab[n][d], SumOf(x, Added(n, d)))
  BY <1>3, <1>16 DEF SumInv, Summed
<1>18. sum \in Fr /\ Congruent(sum, SumOf(x, Added(m, c)'))
  <2>1. PICK D : D = Added(m, c)
    OBVIOUS
  <2>2. PICK E : E = Added(m, c)'
    OBVIOUS
  <2>3. i \notin D /\ \A n \in 1 .. nCoefs : n \in E <=> n \in D \/ n = i
    BY <1>5, <1>12, <2>1, <2>2 DEF Added
  <2>4. SumOf(x, E) = SumOf(x, D) + x[i] /\ SumOf(x, D) \in Int
    BY <1>16, <2>3, SumAdd
  <2>5. PICK a \in Fr : a = ab[m][c] /\ Congruent(a, SumOf(x, D))
    BY <1>17, <2>1
  <2>6. PICK b \in Fr : b = x[i]
    BY <1>16
  <2>7. PICK y \in Int : y = SumOf(x, D)
    BY <2>4
  <2>8. a \in Int /\ b \in Int
    BY FrInt
  <2>9. sum = rawAdd(a, b)
    BY <1>8, <1>16, <2>5, <2>6
  <2>10. sum \in Fr /\ Congruent(sum, a + b)
    BY <2>9, rawAddCorrect
  <2>11. Congruent(a + b, y + b)
    <3>1. Congruent(a, y) /\ Congruent(b, b)
      BY <2>5, <2>7, <2>8, CongruentRefl
    <3>2. QED
      BY <2>8, <3>1, CongruentAdd
  <2>12. sum \in Int /\ a + b \in Int /\ y + b \in Int
    BY <2>8, <2>10, FrInt
  <2>13. Congruent(sum, y + b)
    BY <2>10, <2>11, <2>12, CongruentTrans
  <2>14. SumOf(x, E) = y + b
    BY <2>4, <2>6, <2>7
  <2>15. QED
    BY <2>2, <2>10, <2>13, <2>14
<1>19. Summed'
  <2>1. ASSUME NEW n \in {0, 1}, NEW d \in Row
        PROVE  ab'[n][d] \in Fr /\ Congruent(ab'[n][d], SumOf(x, Added(n, d)'))
    <3>1. CASE n = m /\ d = c
      BY <1>10, <1>18, <3>1
    <3>2. CASE ~(n = m /\ d = c)
      <4>1. ab'[n][d] = ab[n][d]
        BY <1>10, <3>2
      <4>2. Added(n, d)' = Added(n, d)
        BY <1>5, <1>12, <3>2 DEF Added
      <4>3. QED
        BY <1>17, <4>1, <4>2
    <3>3. QED
      BY <3>1, <3>2
  <2>2. aux[wtns]' = x
    BY <1>1, <1>16 DEF aux
  <2>3. QED
    BY <2>1, <2>2 DEF Summed
<1>20. SumRight'
  <2>1. ASSUME NEW v \in Thread, running'[v].at = "store"
        PROVE  running'[v].sum = rawAdd(ab'[coefs[running'[v].i].m][coefs[running'[v].i].c], aux[wtns'][running'[v].i])
    <3>1. v # t /\ running'[v] = running[v] /\ running[v].at = "store"
      BY <1>11, <2>1
    <3>2. PICK j \in 1 .. nCoefs : j = running[v].i
      BY <1>2, <3>1, StoreOf
    <3>3. PICK n \in {0, 1}, d \in Row : n = coefs[j].m /\ d = coefs[j].c
      BY CoefType
    <3>4. ~(n = m /\ d = c)
      <4>1. locks[LockOf(coefs[i])] = t /\ locks[LockOf(coefs[j])] = v
        BY <1>1, <1>4, <3>1, <3>2 DEF IndInv, LocksHeld
      <4>2. QED
        BY <1>5, <3>1, <3>3, <4>1 DEF LockOf
    <3>5. ab'[n][d] = ab[n][d]
      BY <1>10, <3>4
    <3>6. running[v].sum = rawAdd(ab[n][d], aux[wtns][j])
      BY <3>1, <3>2, <3>3 DEF SumInv, SumRight
    <3>7. QED
      BY <1>1, <3>1, <3>2, <3>3, <3>5, <3>6
  <2>2. QED
    BY <2>1 DEF SumRight
<1>21. QED
  BY <1>11, <1>13, <1>14, <1>15, <1>19, <1>20 DEF SumInv

LEMMA BodySum ==
    ASSUME IndInv, SumInv, NEW t \in Thread, Body(t)
    PROVE  SumInv'
BY clearSum, lockSum, loadSum, storeSum, rivalBodySum DEF Body

\* A loop of another caller.
LEMMA rivalCallSum ==
    ASSUME IndInv, SumInv, NEW c \in Rival, rivalCall(c)
    PROVE  SumInv'
<1>1. c \in Caller /\ c # Prover /\ c \in Func /\ Elements(c) = rivalCount /\ Prover \in Caller
  BY ProverAssumption DEF Rival, Func, Elements
<1>2. parallelFor(c, c, Elements(c)) /\ UNCHANGED <<pc, wtns, ab>>
  BY <1>1 DEF rivalCall, proveVars
<1>3. CallCounts
  BY DEF SumInv
<1>4. /\ Apart(Held') /\ CallCounts'
      /\ poolMutex = None /\ poolMutex' = c /\ running' = running
      /\ call'[c].f = c
      /\ \A d \in Caller : d # c => call'[d].at = "outside"
  BY <1>1, <1>2, <1>3, parallelForHeld
<1>5. Pending = {} /\ Pending' = {}
  BY <1>1, <1>4, ThreadTypes DEF Pending
<1>6. PhaseOK'
  BY <1>1, <1>4 DEF PhaseOK, Rival
<1>7. \A m, d : Added(m, d)' = Added(m, d)
  BY <1>5 DEF Added
<1>8. ShapeOK' /\ Cleared'
  BY <1>2, <1>5 DEF SumInv, ShapeOK, Cleared
<1>9. Summed'
  BY <1>2, <1>7 DEF SumInv, Summed
<1>10. SumRight'
  BY <1>2, <1>4 DEF SumInv, SumRight
<1>11. QED
  BY <1>4, <1>6, <1>8, <1>9, <1>10 DEF SumInv

\* A loop of prove begins.
LEMMA LoopHeld ==
    ASSUME IndInv, SumInv, NEW name \in {"initialize", "processing coefs"}, NEW inside,
           Loop(name, inside, Elements(name))
    PROVE  /\ pc = name /\ pc' = inside /\ UNCHANGED <<wtns, ab>>
           /\ Apart(Held') /\ CallCounts' /\ SumRight' /\ Pending' = 1 .. Elements(name)
           /\ call'[Prover].f = name
           /\ \A c \in Rival : call'[c].at = "outside"
<1>1. Prover \in Caller /\ name \in Func
  BY ProverAssumption DEF Func
<1>2. pc = name /\ pc' = inside /\ parallelFor(Prover, name, Elements(name)) /\ UNCHANGED <<wtns, ab>>
  BY DEF Loop
<1>3. CallCounts
  BY DEF SumInv
<1>4. /\ Apart(Held') /\ All(Held') = 1 .. Elements(name) /\ CallCounts'
      /\ poolMutex' = Prover /\ running' = running
      /\ call'[Prover].f = name
      /\ \A d \in Caller : d # Prover => call'[d].at = "outside"
  BY <1>1, <1>2, <1>3, parallelForHeld
<1>5. Pending' = 1 .. Elements(name)
  BY <1>4 DEF Pending
<1>6. SumRight'
  BY <1>2, <1>4 DEF SumInv, SumRight
<1>7. QED
  BY <1>2, <1>4, <1>5, <1>6 DEF Rival

\* The rest of prove leaves the pool alone.
LEMMA OutOfLoop ==
    ASSUME IndInv, SumInv, call[Prover].at = "outside", UNCHANGED <<poolVars, wtns>>
    PROVE  /\ PhaseOK' /\ CallCounts' /\ Apart(Held') /\ wtns' \in Witness
           /\ Pending = {} /\ Pending' = {}
           /\ SumRight'
<1>1. PhaseOK'
  BY DEF SumInv, PhaseOK, poolVars, Rival
<1>2. CallCounts' /\ wtns' \in Witness
  BY DEF SumInv, CallCounts, ShapeOK, poolVars
<1>3. Held' = Held
  <2>1. /\ \A n \in Index : CallHolds(n)' = CallHolds(n) /\ QueueHolds(n)' = QueueHolds(n)
        /\ \A w \in Worker : JobHolds(w)' = JobHolds(w)
        /\ \A t \in Thread : RunHolds(t)' = RunHolds(t)
    BY DEF poolVars, CallHolds, QueueHolds, JobHolds, RunHolds
  <2>2. QED
    BY <2>1, SameHeld
<1>4. Apart(Held')
  BY <1>3 DEF SumInv
<1>5. poolMutex # Prover /\ Pending = {} /\ Pending' = {}
  BY NothingPending DEF Pending, poolVars
<1>6. SumRight'
  <2>1. ASSUME NEW t \in Thread, running'[t].at = "store"
        PROVE  FALSE
    <3>1. running[t].at = "store" /\ PhaseOK
      BY <2>1 DEF poolVars, SumInv
    <3>2. QED
      BY <1>5, <3>1, StoreOf
  <2>2. QED
    BY <2>1 DEF SumRight
<1>7. QED
  BY <1>1, <1>2, <1>4, <1>5, <1>6

LEMMA ProveSum ==
    ASSUME IndInv, SumInv, Prove
    PROVE  SumInv'
<1>1. CASE Loop("initialize", "initializing", domainSize)
  <2>1. Elements("initialize") = domainSize
    BY DEF Elements
  <2>2. /\ pc = "initialize" /\ pc' = "initializing" /\ UNCHANGED <<wtns, ab>>
        /\ Apart(Held') /\ CallCounts' /\ SumRight' /\ Pending' = 1 .. domainSize
        /\ call'[Prover].f = "initialize"
        /\ \A c \in Rival : call'[c].at = "outside"
    BY <1>1, <2>1, LoopHeld
  <2>3. PhaseOK'
    BY <2>2 DEF PhaseOK
  <2>4. ShapeOK'
    BY <2>2 DEF SumInv, ShapeOK
  <2>5. Cleared' /\ Summed'
    <3>1. \A c \in Row : c + 1 \in 1 .. domainSize
      BY Groth16Assumption DEF Row
    <3>2. QED
      BY <2>2, <3>1 DEF Cleared, Summed
  <2>6. QED
    BY <2>2, <2>3, <2>4, <2>5 DEF SumInv
<1>2. CASE LoopDone("initializing", "processing coefs")
  <2>1. /\ pc = "initializing" /\ pc' = "processing coefs" /\ call[Prover].at = "outside"
        /\ UNCHANGED <<poolVars, wtns, ab>>
    BY <1>2 DEF LoopDone
  <2>2. /\ PhaseOK' /\ CallCounts' /\ Apart(Held') /\ wtns' \in Witness /\ SumRight' /\ Pending = {}
    BY <2>1, OutOfLoop
  <2>3. ShapeOK' /\ Summed'
    BY <2>1 DEF SumInv, ShapeOK, Summed
  <2>4. Cleared'
    BY <2>1, <2>2 DEF SumInv, Cleared
  <2>5. QED
    BY <2>2, <2>3, <2>4 DEF SumInv
<1>3. CASE Loop("processing coefs", "summing", nCoefs)
  <2>1. Elements("processing coefs") = nCoefs
    BY DEF Elements
  <2>2. /\ pc = "processing coefs" /\ pc' = "summing" /\ UNCHANGED <<wtns, ab>>
        /\ Apart(Held') /\ CallCounts' /\ SumRight' /\ Pending' = 1 .. nCoefs
        /\ call'[Prover].f = "processing coefs"
        /\ \A c \in Rival : call'[c].at = "outside"
    BY <1>3, <2>1, LoopHeld
  <2>3. PhaseOK'
    BY <2>2 DEF PhaseOK
  <2>4. ShapeOK' /\ Cleared' /\ wtns \in Witness
    BY <2>2 DEF SumInv, ShapeOK, Cleared
  <2>5. Summed'
    <3>1. PICK x \in [1 .. nCoefs -> Int] : x = aux[wtns]
      BY <2>4, auxCorrect
    <3>2. ASSUME NEW m \in {0, 1}, NEW c \in Row
          PROVE  ab'[m][c] \in Fr /\ Congruent(ab'[m][c], SumOf(aux[wtns'], Added(m, c)'))
      <4>1. \A i \in 1 .. nCoefs : i \notin Added(m, c)'
        BY <2>2 DEF Added
      <4>2. SumOf(x, Added(m, c)') = 0
        BY <4>1, SumEmpty
      <4>3. 0 \in Fr /\ Congruent(0, 0)
        BY FieldAssumption, CongruentRefl DEF Fr
      <4>4. ab'[m][c] = 0
        BY <2>2 DEF SumInv, Cleared
      <4>5. QED
        BY <2>2, <3>1, <4>2, <4>3, <4>4
    <3>3. QED
      BY <3>2 DEF Summed
  <2>6. QED
    BY <2>2, <2>3, <2>4, <2>5 DEF SumInv
<1>4. CASE LoopDone("summing", "shift")
  <2>1. /\ pc = "summing" /\ pc' = "shift" /\ call[Prover].at = "outside"
        /\ UNCHANGED <<poolVars, wtns, ab>>
    BY <1>4 DEF LoopDone
  <2>2. /\ PhaseOK' /\ CallCounts' /\ Apart(Held') /\ wtns' \in Witness /\ SumRight'
        /\ Pending = {} /\ Pending' = {}
    BY <2>1, OutOfLoop
  <2>3. ShapeOK' /\ Cleared'
    BY <2>1, <2>2 DEF ShapeOK, Cleared
  <2>4. \A m, c : Added(m, c)' = Added(m, c)
    BY <2>2 DEF Added
  <2>5. Summed'
    BY <2>1, <2>4 DEF SumInv, Summed
  <2>6. QED
    BY <2>2, <2>3, <2>5 DEF SumInv
<1>5. ASSUME pc \notin {"initializing", "summing"}, UNCHANGED <<poolVars, wtns>>,
             pc' \notin {"initializing", "processing coefs", "summing", "shift"},
             pc' \in {"multiexp", "initialize"} => pc = "multiexp" /\ ab' = ab
      PROVE  SumInv'
  <2>1. call[Prover].at = "outside"
    BY <1>5 DEF SumInv, PhaseOK
  <2>2. PhaseOK' /\ CallCounts' /\ Apart(Held') /\ wtns' \in Witness /\ SumRight'
    BY <1>5, <2>1, OutOfLoop
  <2>3. ShapeOK' /\ Cleared' /\ Summed'
    BY <1>5, <2>2 DEF SumInv, ShapeOK, Cleared, Summed
  <2>4. QED
    BY <2>2, <2>3 DEF SumInv
<1>6. CASE multiexp
  BY <1>5, <1>6 DEF multiexp
<1>7. CASE shift
  BY <1>5, <1>7 DEF shift
<1>8. CASE transform
  BY <1>5, <1>8 DEF transform
<1>9. CASE \E r, s \in Random : assemble(r, s)
  BY <1>5, <1>9 DEF assemble
<1>10. CASE verify
  BY <1>5, <1>10 DEF verify
<1>11. CASE pairingCheck
  BY <1>5, <1>11 DEF pairingCheck
<1>12. QED
  BY <1>1, <1>2, <1>3, <1>4, <1>6, <1>7, <1>8, <1>9, <1>10, <1>11 DEF Prove

LEMMA InitSum == Init => SumInv
<1> SUFFICES ASSUME Init PROVE SumInv
  OBVIOUS
<1>1. /\ pc = "multiexp" /\ wtns \in Witness /\ poolMutex = None
      /\ ab = [m \in 0 .. 2 |-> [c \in Row |-> Stale]]
      /\ \A c \in Caller : call[c].at = "outside"
      /\ \A t \in Thread : running[t] = Finished
      /\ \A w \in Worker : job[w] = None
      /\ queue = <<>>
  BY DEF Init, PoolInit, Outside
<1>2. PhaseOK /\ CallCounts
  BY <1>1, ProverAssumption DEF PhaseOK, CallCounts, Rival
<1>3. ShapeOK /\ Cleared /\ Summed
  BY <1>1 DEF ShapeOK, Cleared, Summed
<1>4. SumRight
  BY <1>1 DEF SumRight, Finished
<1>5. Apart(Held)
  <2>1. /\ \A n \in Index : CallHolds(n) = {} /\ QueueHolds(n) = {}
        /\ \A w \in Worker : JobHolds(w) = {}
        /\ \A t \in Thread : RunHolds(t) = {}
    BY <1>1 DEF CallHolds, QueueHolds, JobHolds, RunHolds
  <2>2. \A p \in Place : Held[p] = {}
    BY <2>1, HeldIs, Places
  <2>3. QED
    BY <2>2 DEF Apart
<1>6. QED
  BY <1>2, <1>3, <1>4, <1>5 DEF SumInv

LEMMA NextSum == IndInv /\ SumInv /\ [Next]_vars => SumInv'
<1> SUFFICES ASSUME IndInv, SumInv, [Next]_vars PROVE SumInv'
  OBVIOUS
<1>1. CASE Prove
  BY <1>1, ProveSum
<1>2. CASE \E c \in Rival : rivalCall(c)
  BY <1>2, rivalCallSum
<1>3. CASE \E t \in Thread : Body(t)
  BY <1>3, BodySum
<1>4. ASSUME OfPool,
             \/ \E c \in Caller : \/ unsafePush(c) \/ submit(c) \/ notifyOccupied(c) \/ callerTryPop(c)
                                  \/ waitWorker(c) \/ wakeCaller(c)
             \/ \E w \in Worker : \/ lockMutex(w) \/ checkOccupied(w) \/ waitOccupied(w) \/ workerTryPop(w)
                                  \/ notifyFinished(w) \/ wakeWorker(w) \/ destroyWorker(w)
      PROVE  SumInv'
  BY <1>4, PoolStepSum
<1>5. CASE \E c \in Caller : CallerStep(c) \/ (wakeCaller(c) /\ OfPool)
  BY <1>3, <1>4, <1>5, ThreadTypes DEF CallerStep
<1>6. CASE \E w \in Worker : WorkerStep(w) \/ (wakeWorker(w) /\ OfPool) \/ (destroyWorker(w) /\ OfPool)
  BY <1>3, <1>4, <1>6, ThreadTypes DEF WorkerStep
<1>7. CASE UNCHANGED vars
  <2>1. UNCHANGED <<poolVars, pc, wtns, ab>>
    BY <1>7 DEF vars, proveVars
  <2>2. /\ \A n \in Index : CallHolds(n)' = CallHolds(n) /\ QueueHolds(n)' = QueueHolds(n)
        /\ \A w \in Worker : JobHolds(w)' = JobHolds(w)
        /\ \A t \in Thread : RunHolds(t)' = RunHolds(t)
    BY <2>1 DEF poolVars, CallHolds, QueueHolds, JobHolds, RunHolds
  <2>3. Held' = Held
    BY <2>2, SameHeld
  <2>4. CallCounts'
    BY <2>1 DEF poolVars, SumInv, CallCounts
  <2>5. Keeps
    BY <2>1, <2>3, <2>4 DEF poolVars, SumInv, Keeps
  <2>6. Pending' = Pending /\ OfPool
    BY <1>7, <2>1, <2>3 DEF poolVars, vars, OfPool, Pending
  <2>7. QED
    BY <2>5, <2>6, PoolKeeps
<1>8. QED
  BY <1>1, <1>2, <1>5, <1>6, <1>7 DEF Next

\* When the loop of line 100 of groth16.cpp returns, every row of a and b holds the sum
\* of the products of its coefficients and their signals modulo the prime, in the
\* form of Montgomery: for every number of threads, chunks, mutexes and other callers,
\* every order of their steps, every key, every witness and every field whose
\* elements leave one bit of their limbs free.
THEOREM SumsCompleteCorrect == Spec => []SumsComplete
<1>1. Init => IndInv /\ SumInv
  BY InitInd, InitSum
<1>2. IndInv /\ SumInv /\ [Next]_vars => (IndInv /\ SumInv)'
  BY NextInd, NextSum
<1>3. IndInv /\ SumInv => SumsComplete
  <2> SUFFICES ASSUME IndInv, SumInv, pc = "shift", NEW m \in {0, 1}, NEW c \in Row
               PROVE  rawFromMontgomery(ab[m][c]) =
                          Total(LAMBDA e : e.coef * wtns[e.s], {e \in Matrix : e.m = m /\ e.c = c})
    BY DEF SumsComplete
  <2>1. call[Prover].at = "outside" /\ wtns \in Witness
    BY DEF SumInv, PhaseOK, ShapeOK
  <2>2. Pending = {}
    BY <2>1, NothingPending
  <2>3. Added(m, c) = {i \in 1 .. nCoefs : coefs[i].m = m /\ coefs[i].c = c}
    BY <2>2 DEF Added
  <2>4. ab[m][c] \in Fr /\ Congruent(ab[m][c], SumOf(aux[wtns], Added(m, c)))
    BY DEF SumInv, Summed
  <2>5. rawFromMontgomery(ab[m][c]) = Value(wtns, m, c)
    BY <2>1, <2>3, <2>4, SumIsTotal
  <2>6. QED
    BY <2>5, Zenon DEF Value
<1>4. QED
  BY <1>1, <1>2, <1>3, PTL DEF Spec

=============================================================================
