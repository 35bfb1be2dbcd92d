------------------------------ MODULE ThreadPool ----------------------------
(***************************************************************************)
(* The thread pool of ffiasm, misc.hpp: parallelFor divides a loop into    *)
(* jobs, gives one to each worker thread, runs one itself, and lets        *)
(* whoever is done take more from a queue.                                 *)
(*                                                                         *)
(* A worker waits for its job on a condition variable and holds its mutex  *)
(* while it runs it; the queue has a mutex of its own, which unsafePush    *)
(* does not take.  A job holds a reference to the function of the call it  *)
(* is for, and that function lives until parallelFor returns.              *)
(*                                                                         *)
(* What a job does with an element is the business of the module that uses *)
(* the pool: it moves running[t] on, to Finished in the end.               *)
(***************************************************************************)
EXTENDS Integers, Sequences

CONSTANTS
    nThreads,
    chunksPerThread,
    Caller,         \* the threads that call parallelFor
    None

Worker == 0 .. nThreads - 2
Thread == Worker \cup Caller

ASSUME PoolAssumption ==
    /\ nThreads \in Nat \ {0} /\ chunksPerThread \in Nat \ {0}
    /\ Caller \cap Int = {} /\ None \notin Thread

VARIABLES
    poolMutex,  \* the caller that holds it, or None
    queue,      \* the jobs nobody has taken
    call,       \* for each caller, where it is in parallelFor
    mutex,      \* for each worker, the thread that holds its mutex, or None
    job,        \* for each worker, the job it was given, or None
    worker,     \* for each worker, where it is in its loop
    stop,       \* for each worker, whether its destructor has been called
    running     \* for each thread, where it is in the job that it runs

poolVars == <<poolMutex, queue, call, mutex, job, worker, stop, running>>

-----------------------------------------------------------------------------

Outside == [at |-> "outside"]
Finished == [at |-> "finished"]

PoolInit ==
    /\ poolMutex = None
    /\ queue = <<>>
    /\ call = [c \in Caller |-> Outside]
    /\ mutex = [w \in Worker |-> None]
    /\ job = [w \in Worker |-> None]
    /\ worker = [w \in Worker |-> "lock"]
    /\ stop = [w \in Worker |-> FALSE]
    /\ running = [t \in Thread |-> Finished]

\* divideWork, for the elements 1 to n: chunksPerThread ranges for every thread, or
\* as many as there are elements, whose sizes differ by one at most, the longer
\* ones first.
chunkCount(n) == IF nThreads * chunksPerThread < n THEN nThreads * chunksPerThread ELSE n
minJobSize(n) == n \div chunkCount(n)
elementRest(n) == n % chunkCount(n)
RangeEnd(i, n) == i * minJobSize(n) + (IF i < elementRest(n) THEN i ELSE elementRest(n))
divideWork(f, n) ==
    [i \in 1 .. chunkCount(n) |-> [of |-> f, begin |-> RangeEnd(i - 1, n) + 1, end |-> RangeEnd(i, n)]]

Starting(j) == [at |-> "start", of |-> j.of, i |-> j.begin, end |-> j.end]

-----------------------------------------------------------------------------
(***************************************************************************)
(* parallelFor, called by c with the function f for n elements.  The code  *)
(* takes begin and end as ints: n is below 2^31, and the 64-bit counts of  *)
(* its callers would be narrowed above that.                               *)
(***************************************************************************)

\* The pool is taken and the work divided.  A loop without elements returns before
\* that.
parallelForMutant(c, f, n) ==
    /\ call[c].at = "outside"
    /\ n > 0
    /\ poolMutex' = c
    /\ LET jobs == divideWork(f, n)
           threadCount == IF nThreads < Len(jobs) THEN nThreads ELSE Len(jobs)
       IN  call' = [call EXCEPT ![c] = [at |-> "push", f |-> f, jobs |-> jobs,
                                        threadCount |-> threadCount, k |-> threadCount + 1]]
    /\ UNCHANGED <<queue, mutex, job, worker, stop, running>>
parallelFor(c, f, n) ==
    /\ call[c].at = "outside"
    /\ n > 0
    /\ poolMutex = None /\ poolMutex' = c
    /\ LET jobs == divideWork(f, n)
           threadCount == IF nThreads < Len(jobs) THEN nThreads ELSE Len(jobs)
       IN  call' = [call EXCEPT ![c] = [at |-> "push", f |-> f, jobs |-> jobs,
                                        threadCount |-> threadCount, k |-> threadCount + 1]]
    /\ UNCHANGED <<queue, mutex, job, worker, stop, running>>

To(c, at, k) == call' = [call EXCEPT ![c] = [@ EXCEPT !.at = at, !.k = k]]

\* The jobs that are left over go into the queue, which is not locked.
unsafePush(c) ==
    /\ call[c].at = "push"
    /\ IF call[c].k <= Len(call[c].jobs)
       THEN /\ queue' = Append(queue, call[c].jobs[call[c].k])
            /\ To(c, "push", call[c].k + 1)
       ELSE To(c, "submit", 0) /\ UNCHANGED queue
    /\ UNCHANGED <<poolMutex, mutex, job, worker, stop, running>>

\* submit waits for the worker's mutex, which is given back before the notify; job
\* k + 1 is worker k's.
submit(c) ==
    /\ call[c].at = "submit"
    /\ IF call[c].k < call[c].threadCount - 1
       THEN /\ mutex[call[c].k] = None
            /\ job' = [job EXCEPT ![call[c].k] = call[c].jobs[call[c].k + 1]]
            /\ To(c, "notify", call[c].k)
            /\ UNCHANGED running
       ELSE /\ running' = [running EXCEPT ![c] = Starting(call[c].jobs[call[c].k + 1])]
            /\ To(c, "run", 0)
            /\ UNCHANGED job
    /\ UNCHANGED <<poolMutex, queue, mutex, worker, stop>>

\* occupied.notify_one, in submit: it wakes the worker if that waits.
Notified(w) ==
    IF worker[w] = "waiting" THEN worker' = [worker EXCEPT ![w] = "lock"] ELSE UNCHANGED worker

notifyOccupied(c) ==
    /\ call[c].at = "notify"
    /\ Notified(call[c].k)
    /\ To(c, "submit", call[c].k + 1)
    /\ UNCHANGED <<poolMutex, queue, mutex, job, stop, running>>

\* The caller has run its own job, and takes jobs from the queue while there are any.
callerTryPop(c) ==
    /\ call[c].at = "run"
    /\ running[c] = Finished
    /\ IF queue # <<>>
       THEN /\ running' = [running EXCEPT ![c] = Starting(Head(queue))]
            /\ queue' = Tail(queue)
            /\ UNCHANGED call
       ELSE To(c, "wait", 0) /\ UNCHANGED <<queue, running>>
    /\ UNCHANGED <<poolMutex, mutex, job, worker, stop>>

\* ThreadWorker::wait, one worker after the other; then parallelFor returns.
waitWorkerMutant(c) ==
    /\ call[c].at = "wait"
    /\ call' = [call EXCEPT ![c] = Outside] /\ poolMutex' = None
    /\ UNCHANGED <<queue, mutex, job, worker, stop, running>>
waitWorker(c) ==
    /\ call[c].at = "wait"
    /\ IF call[c].k < call[c].threadCount - 1
       THEN /\ mutex[call[c].k] = None
            /\ IF job[call[c].k] = None THEN To(c, "wait", call[c].k + 1)
                                        ELSE To(c, "sleep", call[c].k)
            /\ UNCHANGED poolMutex
       ELSE call' = [call EXCEPT ![c] = Outside] /\ poolMutex' = None
    /\ UNCHANGED <<queue, mutex, job, worker, stop, running>>

\* A wait on a condition variable may end without a notify.
wakeCaller(c) ==
    /\ call[c].at = "sleep"
    /\ To(c, "wait", call[c].k)
    /\ UNCHANGED <<poolMutex, queue, mutex, job, worker, stop, running>>

-----------------------------------------------------------------------------
(***************************************************************************)
(* ThreadWorker::worker.                                                   *)
(***************************************************************************)

lockMutex(w) ==
    /\ worker[w] = "lock" /\ mutex[w] = None
    /\ mutex' = [mutex EXCEPT ![w] = w]
    /\ worker' = [worker EXCEPT ![w] = "check"]
    /\ UNCHANGED <<poolMutex, queue, call, job, stop, running>>

\* The predicate of occupied.wait, and what follows if it holds.
checkOccupied(w) ==
    /\ worker[w] = "check"
    /\ \/ /\ job[w] = None /\ ~stop[w]
          /\ worker' = [worker EXCEPT ![w] = "wait"]
          /\ UNCHANGED <<mutex, running>>
       \/ /\ stop[w]
          /\ worker' = [worker EXCEPT ![w] = "returned"]
          /\ mutex' = [mutex EXCEPT ![w] = None]
          /\ UNCHANGED running
       \/ /\ job[w] # None /\ ~stop[w]
          /\ worker' = [worker EXCEPT ![w] = "run"]
          /\ running' = [running EXCEPT ![w] = Starting(job[w])]
          /\ UNCHANGED mutex
    /\ UNCHANGED <<poolMutex, queue, call, job, stop>>

\* occupied.wait gives the mutex back and waits, in one step.
waitOccupied(w) ==
    /\ worker[w] = "wait"
    /\ worker' = [worker EXCEPT ![w] = "waiting"]
    /\ mutex' = [mutex EXCEPT ![w] = None]
    /\ UNCHANGED <<poolMutex, queue, call, job, stop, running>>

wakeWorker(w) ==
    /\ worker[w] = "waiting"
    /\ worker' = [worker EXCEPT ![w] = "lock"]
    /\ UNCHANGED <<poolMutex, queue, call, mutex, job, stop, running>>

\* The worker has run a job.  When the queue is empty it gives up its own job and
\* then its mutex.
workerTryPop(w) ==
    /\ worker[w] = "run"
    /\ running[w] = Finished
    /\ IF queue # <<>>
       THEN /\ running' = [running EXCEPT ![w] = Starting(Head(queue))]
            /\ queue' = Tail(queue)
            /\ UNCHANGED <<mutex, job, worker>>
       ELSE /\ job' = [job EXCEPT ![w] = None]
            /\ mutex' = [mutex EXCEPT ![w] = None]
            /\ worker' = [worker EXCEPT ![w] = "notify"]
            /\ UNCHANGED <<queue, running>>
    /\ UNCHANGED <<poolMutex, call, stop>>

notifyFinishedMutant(w) ==
    /\ worker[w] = "notify"
    /\ worker' = [worker EXCEPT ![w] = "lock"]
    /\ UNCHANGED <<poolMutex, queue, call, mutex, job, stop, running>>
notifyFinished(w) ==
    /\ worker[w] = "notify"
    /\ worker' = [worker EXCEPT ![w] = "lock"]
    /\ call' = [c \in Caller |-> IF call[c].at = "sleep" /\ call[c].k = w
                                 THEN [call[c] EXCEPT !.at = "wait"] ELSE call[c]]
    /\ UNCHANGED <<poolMutex, queue, mutex, job, stop, running>>

-----------------------------------------------------------------------------
(***************************************************************************)
(* ~ThreadPool, when the process ends: the workers' destructors, in order. *)
(* stop is set without the mutex, so the notify may come between the       *)
(* predicate and the wait; the join then waits for ever.                   *)
(***************************************************************************)

destroyWorker(w) ==
    /\ \A c \in Caller : call[c].at = "outside"
    /\ ~stop[w] /\ \A v \in 0 .. w - 1 : worker[v] = "returned"
    /\ stop' = [stop EXCEPT ![w] = TRUE]
    /\ Notified(w)
    /\ UNCHANGED <<poolMutex, queue, call, mutex, job, running>>

-----------------------------------------------------------------------------
(***************************************************************************)
(* Properties.                                                             *)
(***************************************************************************)

\* f is the function of a call of parallelFor that has not returned.
Alive(f) == \E c \in Caller : call[c].at # "outside" /\ call[c].f = f

\* Nobody holds, runs or has queued a job whose function is gone: every job is of
\* a call of parallelFor that has not returned.
NoJobOutlivesItsCall ==
    /\ \A i \in 1 .. Len(queue) : Alive(queue[i].of)
    /\ \A w \in Worker : job[w] # None => Alive(job[w].of)
    /\ \A t \in Thread : running[t] # Finished => Alive(running[t].of)

\* While unsafePush changes the queue without its mutex, no other thread is where it
\* pops from it.
PushedAlone ==
    \A c \in Caller : call[c].at = "push" =>
        /\ \A w \in Worker : worker[w] # "run"
        /\ \A d \in Caller \ {c} : call[d].at # "run"

=============================================================================
