--------------------------- MODULE ZkProverProofs ---------------------------
(***************************************************************************)
(* Proofs about ZkProver for any number of threads, inputs and times.      *)
(* What is in a file was asked for by a call with the file's time.  A call *)
(* that overlaps no other one of its time is the only one to write under   *)
(* its names, and writes anew what it reads.                               *)
(***************************************************************************)
EXTENDS ZkProver, TLAPS

Fields == {"at", "input", "timestamp", "loaded", "proof", "public", "alone", "written"}

\* A call whose record is kept: it is running or has succeeded.
Kept(p) == call[p].at \notin {"idle", "Err"}

\* The shape of the record of a call.
RecordOK(p) ==
    /\ "at" \in DOMAIN call[p]
    /\ Kept(p) => /\ DOMAIN call[p] = Fields
                  /\ call[p].timestamp \in Time
                  /\ call[p].input \in asked[call[p].timestamp]
                  /\ call[p].written \subseteq {"proof", "public"}

\* The shape of the state.
ShapeOK ==
    /\ DOMAIN file = Time /\ \A t \in Time : DOMAIN file[t] = Kind
    /\ DOMAIN call = Caller /\ DOMAIN asked = Time
    /\ \A t \in Time : asked[t] \subseteq Input
    /\ \A p \in Caller : RecordOK(p)

\* What may be in a file: what was asked for, and behind node only what has a witness.
Content(t, k) == {None} \cup (IF k = "input" THEN asked[t] ELSE asked[t] \ BadInput)
FilesOK == \A t \in Time, k \in Kind : file[t][k] \in Content(t, k)

\* A call that has read all it needs.
Done == {"remove_input", "remove_witness", "remove_proof", "remove_public", "Ok"}

\* What a call has read was asked for and has a witness.
ReadOK(p) ==
    LET provable == asked[call[p].timestamp] \ BadInput
    IN  /\ call[p].at \in {"node_write", "write_proof", "write_public"} =>
               call[p].loaded \in provable
        /\ call[p].at \in {"read_public"} \cup Done => call[p].proof \in provable
        /\ call[p].at \in Done => call[p].public \in provable

\* What a call that overlaps no other one of its time has written and read is its own.
OwnFile(p, k) == k \in call[p].written => Of(p, k) \in {call[p].input, None}
OwnRead(p, k) == k \in call[p].written => call[p][k] = call[p].input
AloneOK(p) ==
    Kept(p) /\ call[p].alone =>
        /\ call[p].at = "write" => call[p].written = {}
        /\ call[p].at = "node" => Of(p, "input") = call[p].input /\ call[p].written = {}
        /\ call[p].at = "node_write" => call[p].loaded = call[p].input /\ call[p].written = {}
        /\ call[p].at = "rapidsnark" => Of(p, "witness") = call[p].input /\ call[p].written = {}
        /\ call[p].at = "write_proof" => call[p].loaded = call[p].input /\ call[p].written = {}
        /\ call[p].at = "write_public" => /\ call[p].loaded = call[p].input
                                          /\ OwnFile(p, "proof")
                                          /\ "public" \notin call[p].written
        /\ call[p].at = "read_proof" => OwnFile(p, "proof") /\ OwnFile(p, "public")
        /\ call[p].at = "read_public" => OwnRead(p, "proof") /\ OwnFile(p, "public")
        /\ call[p].at \in Done => OwnRead(p, "proof") /\ OwnRead(p, "public")

\* Of two calls in progress with the same time neither is alone.
RivalsOK ==
    \A p, q \in Caller :
        p # q /\ Running(p) /\ Running(q) /\ call[p].timestamp = call[q].timestamp =>
            ~call[p].alone

\* The inductive invariant.
CallsInv ==
    /\ ShapeOK
    /\ FilesOK
    /\ \A p \in Caller : ReadOK(p) /\ AloneOK(p)
    /\ RivalsOK

-----------------------------------------------------------------------------
(***************************************************************************)
(* Steps of one call.                                                      *)
(***************************************************************************)

\* A step of p may change files of its own time, and leaves the others alone.
OwnStep(p) ==
    LET t == call[p].timestamp
    IN  /\ DOMAIN file' = Time /\ \A u \in Time : DOMAIN file'[u] = Kind
        /\ \A u \in Time : u # t => file'[u] = file[u]
        /\ \A k \in Kind : file'[t][k] \in Content(t, k)

\* What is known of a call in progress.
LEMMA Progress ==
    ASSUME CallsInv, NEW p \in Caller, Running(p)
    PROVE  /\ Kept(p) /\ DOMAIN call[p] = Fields /\ DOMAIN call = Caller
           /\ call[p].timestamp \in Time /\ call[p].input \in asked[call[p].timestamp]
           /\ call[p].written \subseteq {"proof", "public"}
           /\ ReadOK(p) /\ AloneOK(p)
<1>1. Kept(p)
    BY DEF Running, Kept
<1>2. QED BY <1>1 DEF CallsInv, ShapeOK, RecordOK

\* So the invariant has to be shown for p only.
LEMMA LocalStep ==
    ASSUME CallsInv, NEW p \in Caller, Running(p), OwnStep(p), UNCHANGED asked,
           DOMAIN call' = Caller, \A q \in Caller : q # p => call'[q] = call[q],
           RecordOK(p)', ReadOK(p)', AloneOK(p)',
           Running(p)' => /\ call'[p].timestamp = call[p].timestamp
                          /\ call'[p].alone = call[p].alone
    PROVE  CallsInv'
<1> DEFINE t == call[p].timestamp
<1>1. t \in Time
    BY Progress
<1>2. ShapeOK'
  <2>1. ASSUME NEW q \in Caller PROVE RecordOK(q)'
      BY DEF CallsInv, ShapeOK, RecordOK, Kept
  <2>2. QED BY <2>1 DEF CallsInv, ShapeOK, OwnStep
<1>3. FilesOK'
  <2> SUFFICES ASSUME NEW u \in Time, NEW k \in Kind PROVE file'[u][k] \in Content(u, k)
      BY DEF FilesOK, Content
  <2>1. CASE u = t
      BY <2>1 DEF OwnStep
  <2>2. CASE u # t
      BY <2>2 DEF OwnStep, CallsInv, FilesOK
  <2>3. QED BY <2>1, <2>2
<1>4. ASSUME NEW q \in Caller PROVE ReadOK(q)' /\ AloneOK(q)'
  <2>1. CASE q = p
      BY <2>1
  <2>2. CASE q # p
    <3>1. call'[q] = call[q] /\ ReadOK(q) /\ AloneOK(q)
        BY <2>2 DEF CallsInv
    <3>2. ReadOK(q)'
        BY <3>1 DEF ReadOK, Done
    <3>3. CASE Running(q) /\ call[q].alone
      <4>1. Running(q) /\ call[q].timestamp \in Time
          BY <3>3, Progress
      <4>2. call[q].timestamp # t
          BY <2>2, <3>3 DEF CallsInv, RivalsOK
      <4>3. file'[call[q].timestamp] = file[call[q].timestamp]
          BY <4>1, <4>2 DEF OwnStep
      <4>4. \A k \in Kind : Of(q, k)' = Of(q, k)
          BY <3>1, <4>3 DEF Of, Path
      <4>5. QED BY <3>1, <3>2, <4>4 DEF AloneOK, Kept, OwnFile, OwnRead, Kind, Done
    <3>4. CASE ~(Running(q) /\ call[q].alone)
      <4>1. CASE ~call[q].alone
          BY <3>1, <3>2, <4>1 DEF AloneOK, Done
      <4>2. CASE ~Running(q)
          BY <3>1, <3>2, <4>2 DEF AloneOK, Running, Kept, OwnRead, Done
      <4>3. QED BY <3>4, <4>1, <4>2
    <3>5. QED BY <3>3, <3>4
  <2>3. QED BY <2>1, <2>2
<1>5. RivalsOK'
  <2> SUFFICES ASSUME NEW q \in Caller, NEW r \in Caller, q # r, Running(q)', Running(r)',
                      call'[q].timestamp = call'[r].timestamp
               PROVE  ~call'[q].alone
      BY DEF RivalsOK
  <2>1. /\ Running(q) /\ call'[q].timestamp = call[q].timestamp /\ call'[q].alone = call[q].alone
        /\ Running(r) /\ call'[r].timestamp = call[r].timestamp
      BY DEF Running
  <2>2. QED BY <2>1 DEF CallsInv, RivalsOK
<1>6. QED BY <1>2, <1>3, <1>4, <1>5 DEF CallsInv

\* A step that leaves the files, or puts into one of them what may be there.
LEMMA PutOwn ==
    ASSUME CallsInv, NEW p \in Caller, Running(p), NEW k \in Kind, NEW content,
           content \in Content(call[p].timestamp, k), Put(p, k, content)
    PROVE  /\ OwnStep(p)
           /\ file'[call[p].timestamp][k] = content
           /\ \A j \in Kind : j # k => file'[call[p].timestamp][j] = file[call[p].timestamp][j]
<1> DEFINE t == call[p].timestamp
<1>1. t \in Time /\ DOMAIN file = Time /\ \A u \in Time : DOMAIN file[u] = Kind
    BY Progress DEF CallsInv, ShapeOK
<1>2. file' = [file EXCEPT ![t][k] = content]
    BY DEF Put, Path
<1>3. file' = [file EXCEPT ![t] = [file[t] EXCEPT ![k] = content]]
    BY <1>2
<1>4. DOMAIN file' = Time /\ file'[t] = [file[t] EXCEPT ![k] = content]
    BY <1>1, <1>3
<1>5. \A u \in Time : u # t => file'[u] = file[u]
    BY <1>1, <1>3
<1>6. DOMAIN file'[t] = Kind /\ file'[t][k] = content
    BY <1>1, <1>4
<1>7. \A j \in Kind : j # k => file'[t][j] = file[t][j]
    BY <1>1, <1>4
<1>8. \A j \in Kind : file'[t][j] \in Content(t, j)
    BY <1>1, <1>6, <1>7 DEF CallsInv, FilesOK
<1>9. \A u \in Time : DOMAIN file'[u] = Kind
    BY <1>1, <1>5, <1>6
<1> HIDE DEF t
<1>10. QED BY <1>4, <1>5, <1>6, <1>7, <1>8, <1>9 DEF OwnStep, t

LEMMA SameFiles ==
    ASSUME CallsInv, NEW p \in Caller, Running(p), UNCHANGED file
    PROVE  OwnStep(p)
<1>1. call[p].timestamp \in Time
    BY Progress
<1>2. QED BY <1>1 DEF OwnStep, CallsInv, ShapeOK, FilesOK

\* A file that cannot be read is always possible.
LEMMA Unwritten ==
    ASSUME CallsInv, NEW p \in Caller, Running(p), NEW k \in Kind,
           UNCHANGED file \/ Put(p, k, None)
    PROVE  OwnStep(p)
<1>1. None \in Content(call[p].timestamp, k)
    BY DEF Content
<1>2. CASE UNCHANGED file
    BY <1>2, SameFiles
<1>3. CASE Put(p, k, None)
    BY <1>1, <1>3, PutOwn
<1>4. QED BY <1>2, <1>3

\* The call returns an error.
LEMMA ErrStep ==
    ASSUME CallsInv, NEW p \in Caller, Running(p), OwnStep(p), Err(p), UNCHANGED asked
    PROVE  CallsInv'
<1>1. DOMAIN call = Caller
    BY Progress
<1>2. /\ DOMAIN call' = Caller /\ \A q \in Caller : q # p => call'[q] = call[q]
      /\ call'[p] = [at |-> "Err"]
    BY <1>1 DEF Err
<1>3. call'[p].at = "Err" /\ "at" \in DOMAIN call'[p]
    BY <1>2
<1>4. RecordOK(p)' /\ ReadOK(p)' /\ AloneOK(p)' /\ ~Running(p)'
    BY <1>3 DEF RecordOK, ReadOK, AloneOK, Kept, Running, Done
<1>5. QED BY <1>2, <1>4, LocalStep

\* The record of a call that goes on: at and the fields of changed are new.
Goes(p, at, changed) ==
    /\ DOMAIN call' = Caller /\ \A q \in Caller : q # p => call'[q] = call[q]
    /\ DOMAIN call'[p] = Fields
    /\ call'[p].at = at
    /\ \A f \in Fields \ (changed \cup {"at"}) : call'[p][f] = call[p][f]

LEMMA Going ==
    ASSUME CallsInv, NEW p \in Caller, Running(p), NEW at, Goto(p, at)
    PROVE  Goes(p, at, {})
<1>1. DOMAIN call = Caller /\ DOMAIN call[p] = Fields
    BY Progress
<1>2. call' = [call EXCEPT ![p] = [call[p] EXCEPT !["at"] = at]]
    BY DEF Goto
<1>3. DOMAIN call' = Caller /\ call'[p] = [call[p] EXCEPT !["at"] = at]
    BY <1>1, <1>2
<1>4. \A q \in Caller : q # p => call'[q] = call[q]
    BY <1>1, <1>2
<1>5. "at" \in Fields
    BY DEF Fields
<1>6. /\ DOMAIN call'[p] = Fields /\ call'[p]["at"] = at
      /\ \A f \in Fields \ {"at"} : call'[p][f] = call[p][f]
    BY <1>1, <1>3, <1>5
<1>7. QED BY <1>3, <1>4, <1>6 DEF Goes

LEMMA GoingWith ==
    ASSUME CallsInv, NEW p \in Caller, Running(p), NEW at, NEW f \in Fields, f # "at", NEW v,
           call' = [call EXCEPT ![p].at = at, ![p][f] = v]
    PROVE  Goes(p, at, {f}) /\ call'[p][f] = v
<1>1. DOMAIN call = Caller /\ DOMAIN call[p] = Fields
    BY Progress
<1>2. call' = [call EXCEPT ![p] = [call[p] EXCEPT !["at"] = at, ![f] = v]]
    BY <1>1
<1>3. DOMAIN call' = Caller /\ call'[p] = [call[p] EXCEPT !["at"] = at, ![f] = v]
    BY <1>1, <1>2
<1>4. \A q \in Caller : q # p => call'[q] = call[q]
    BY <1>1, <1>2
<1>5. "at" \in Fields
    BY DEF Fields
<1>6. /\ DOMAIN call'[p] = Fields /\ call'[p]["at"] = at /\ call'[p][f] = v
      /\ \A g \in Fields \ {"at", f} : call'[p][g] = call[p][g]
    BY <1>1, <1>3, <1>5
<1>7. \A g \in Fields \ ({f} \cup {"at"}) : call'[p][g] = call[p][g]
    BY <1>6
<1>8. QED BY <1>3, <1>4, <1>6, <1>7 DEF Goes

\* The fields a step leaves alone.
LEMMA SameFields ==
    ASSUME NEW p \in Caller, NEW at, NEW changed, Goes(p, at, changed),
           {"input", "timestamp", "alone"} \cap changed = {}
    PROVE  /\ call'[p].at = at /\ call'[p].input = call[p].input
           /\ call'[p].timestamp = call[p].timestamp /\ call'[p].alone = call[p].alone
           /\ "loaded" \notin changed => call'[p].loaded = call[p].loaded
           /\ "proof" \notin changed => call'[p].proof = call[p].proof
           /\ "public" \notin changed => call'[p].public = call[p].public
           /\ "written" \notin changed => call'[p].written = call[p].written
BY DEF Goes, Fields

\* The call goes on.
LEMMA GoOn ==
    ASSUME CallsInv, NEW p \in Caller, Running(p), OwnStep(p), UNCHANGED asked,
           NEW at, NEW changed, Goes(p, at, changed),
           {"input", "timestamp", "alone"} \cap changed = {},
           call'[p].written \subseteq {"proof", "public"},
           ReadOK(p)', AloneOK(p)'
    PROVE  CallsInv'
<1>1. /\ call'[p].at = at /\ call'[p].input = call[p].input
      /\ call'[p].timestamp = call[p].timestamp /\ call'[p].alone = call[p].alone
    BY SameFields
<1>2. RecordOK(p)'
  <2>1. call[p].timestamp \in Time /\ call[p].input \in asked[call[p].timestamp]
      BY Progress
  <2>2. QED BY <1>1, <2>1 DEF RecordOK, Goes, Fields
<1>3. DOMAIN call' = Caller /\ \A q \in Caller : q # p => call'[q] = call[q]
    BY DEF Goes
<1>4. QED BY <1>1, <1>2, <1>3, LocalStep

-----------------------------------------------------------------------------
(***************************************************************************)
(* One lemma for each action.                                              *)
(***************************************************************************)

LEMMA BeginStep ==
    ASSUME CallsInv, NEW p \in Caller, NEW input \in Input, NEW t \in Time,
           generate_proof(p, input, t)
    PROVE  CallsInv'
<1> DEFINE rivals == {q \in Caller \ {p} : Running(q) /\ call[q].timestamp = t}
           fresh == [at |-> "write", input |-> input, timestamp |-> t, loaded |-> None,
                     proof |-> None, public |-> None, alone |-> rivals = {}, written |-> {}]
<1>1. ~Running(p) /\ UNCHANGED file /\ DOMAIN asked = Time
    BY DEF generate_proof, CallsInv, ShapeOK
<1>2. /\ DOMAIN call' = Caller /\ call'[p] = fresh
      /\ \A q \in rivals : call'[q] = [call[q] EXCEPT !.alone = FALSE]
      /\ \A q \in Caller : q # p /\ q \notin rivals => call'[q] = call[q]
    BY DEF generate_proof
<1>3. /\ DOMAIN asked' = Time /\ asked'[t] = asked[t] \cup {input}
      /\ \A u \in Time : u # t => asked'[u] = asked[u]
    BY <1>1 DEF generate_proof
<1>4. \A u \in Time : asked[u] \subseteq asked'[u] /\ asked'[u] \subseteq Input
    BY <1>3 DEF CallsInv, ShapeOK
<1>5. /\ call'[p].at = "write" /\ call'[p].input = input /\ call'[p].timestamp = t
      /\ call'[p].alone = (rivals = {}) /\ call'[p].written = {} /\ DOMAIN call'[p] = Fields
    BY <1>2 DEF Fields
<1>6. ASSUME NEW q \in rivals
      PROVE  /\ DOMAIN call'[q] = Fields /\ ~call'[q].alone /\ Kept(q) /\ RecordOK(q)
             /\ \A f \in Fields \ {"alone"} : call'[q][f] = call[q][f]
  <2>1. q \in Caller /\ Running(q)
      OBVIOUS
  <2>2. Kept(q) /\ DOMAIN call[q] = Fields
      BY <2>1, Progress
  <2>3. QED BY <1>2, <2>1, <2>2 DEF CallsInv, ShapeOK, Fields
<1>7. ASSUME NEW q \in rivals
      PROVE  /\ ~call'[q].alone /\ call'[q].at = call[q].at
             /\ call'[q].timestamp = call[q].timestamp /\ call'[q].input = call[q].input
             /\ call'[q].loaded = call[q].loaded /\ call'[q].proof = call[q].proof
             /\ call'[q].public = call[q].public /\ call'[q].written = call[q].written
    BY <1>6 DEF Fields
<1>8. ASSUME NEW q \in Caller, q # p, Kept(q) \/ Kept(q)'
      PROVE  /\ call'[q].at = call[q].at
             /\ call'[q].timestamp = call[q].timestamp /\ call'[q].input = call[q].input
             /\ call'[q].loaded = call[q].loaded /\ call'[q].proof = call[q].proof
             /\ call'[q].public = call[q].public /\ call'[q].written = call[q].written
             /\ call[q].timestamp \in Time /\ call[q].input \in asked[call[q].timestamp]
             /\ call[q].written \subseteq {"proof", "public"}
             /\ DOMAIN call'[q] = Fields
             /\ call'[q].alone => call'[q] = call[q]
  <2>1. CASE q \in rivals
      BY <1>6, <1>7, <2>1 DEF RecordOK
  <2>2. CASE q \notin rivals
    <3>1. call'[q] = call[q]
        BY <1>2, <1>8, <2>2
    <3>2. RecordOK(q) /\ Kept(q)
        BY <1>8, <3>1 DEF CallsInv, ShapeOK, Kept
    <3>3. QED BY <3>1, <3>2 DEF RecordOK
  <2>3. QED BY <2>1, <2>2
<1> HIDE DEF fresh
<1>9. ASSUME NEW q \in Caller PROVE RecordOK(q)'
  <2>1. CASE q = p
      BY <1>3, <1>5, <2>1 DEF RecordOK, Fields
  <2>2. CASE q # p /\ Kept(q)'
    <3>1. call'[q].input \in asked'[call'[q].timestamp]
        BY <1>4, <1>8, <2>2
    <3>2. QED BY <1>8, <2>2, <3>1 DEF RecordOK, Fields
  <2>3. CASE q # p /\ ~Kept(q)'
    <3>1. call'[q] = call[q]
        BY <1>2, <1>6, <1>7, <2>3 DEF Kept
    <3>2. QED BY <2>3, <3>1 DEF RecordOK, CallsInv, ShapeOK
  <2>4. QED BY <2>1, <2>2, <2>3
<1>10. ShapeOK'
    BY <1>1, <1>2, <1>3, <1>4, <1>9 DEF CallsInv, ShapeOK
<1>11. FilesOK'
    BY <1>1, <1>4 DEF CallsInv, FilesOK, Content
<1>12. ASSUME NEW q \in Caller PROVE ReadOK(q)' /\ AloneOK(q)'
  <2>1. CASE q = p
      BY <1>5, <2>1 DEF ReadOK, AloneOK, Done
  <2>2. CASE q # p /\ Kept(q)'
    <3>1. ReadOK(q) /\ AloneOK(q) /\ asked[call[q].timestamp] \subseteq asked'[call[q].timestamp]
        BY <1>4, <1>8, <2>2 DEF CallsInv
    <3>2. ReadOK(q)'
        BY <1>8, <2>2, <3>1 DEF ReadOK, Done
    <3>3. AloneOK(q)'
      <4> SUFFICES ASSUME call'[q].alone PROVE AloneOK(q)'
          BY DEF AloneOK, Done
      <4>1. call'[q] = call[q]
          BY <1>8, <2>2
      <4>2. QED BY <1>1, <3>1, <4>1 DEF AloneOK, Kept, OwnFile, OwnRead, Of, Path, Done
    <3>4. QED BY <3>2, <3>3
  <2>3. CASE q # p /\ ~Kept(q)'
      BY <2>3 DEF ReadOK, AloneOK, Kept, Done
  <2>4. QED BY <2>1, <2>2, <2>3
<1>13. RivalsOK'
  <2> SUFFICES ASSUME NEW q \in Caller, NEW r \in Caller, q # r, Running(q)', Running(r)',
                      call'[q].timestamp = call'[r].timestamp
               PROVE  ~call'[q].alone
      BY DEF RivalsOK
  <2>1. Kept(q)' /\ Kept(r)'
      BY DEF Kept, Running
  <2>2. CASE q = p
    <3>1. r # p /\ Running(r) /\ call[r].timestamp = t
        BY <1>5, <1>8, <2>1, <2>2 DEF Running
    <3>2. r \in rivals
        BY <3>1
    <3>3. QED BY <1>5, <2>2, <3>2
  <2>3. CASE r = p
    <3>1. q # p /\ Running(q) /\ call[q].timestamp = t
        BY <1>5, <1>8, <2>1, <2>3 DEF Running
    <3>2. q \in rivals
        BY <3>1
    <3>3. QED BY <1>7, <3>2
  <2>4. CASE q # p /\ r # p
    <3>1. /\ Running(q) /\ Running(r) /\ call[q].timestamp = call[r].timestamp
          /\ call'[q].alone => call'[q] = call[q]
        BY <1>8, <2>1, <2>4 DEF Running
    <3>2. ~call[q].alone
        BY <3>1 DEF CallsInv, RivalsOK
    <3>3. QED BY <3>1, <3>2
  <2>5. QED BY <2>2, <2>3, <2>4
<1>14. QED BY <1>10, <1>11, <1>12, <1>13 DEF CallsInv

\* A call with no rival finds in its file what it has written.
LEMMA WrittenAlone ==
    ASSUME CallsInv, NEW p \in Caller, Running(p), NEW own, NEW content \in Written(p, own)
    PROVE  content \in {own, None} /\ (call[p].alone => content = own)
<1>1. content \in {own, None}
    BY DEF Written
<1>2. ASSUME call[p].alone PROVE ~Shared(p)
    BY <1>2 DEF Shared, Path, CallsInv, RivalsOK
<1>3. QED BY <1>1, <1>2 DEF Written

LEMMA WriteStep ==
    ASSUME CallsInv, NEW p \in Caller, write_input(p)
    PROVE  CallsInv'
<1>1. Running(p) /\ "input" \in Kind /\ UNCHANGED asked /\ call[p].at = "write"
    BY DEF write_input, Running, Kind
<1>2. /\ call[p].input \in asked[call[p].timestamp] /\ AloneOK(p) /\ Kept(p)
      /\ call[p].written \subseteq {"proof", "public"}
    BY <1>1, Progress
<1>3. ASSUME NEW content \in Written(p, call[p].input), Put(p, "input", content), Goto(p, "node")
      PROVE  CallsInv'
  <2>1. content \in {call[p].input, None} /\ (call[p].alone => content = call[p].input)
      BY <1>1, WrittenAlone
  <2>2. content \in Content(call[p].timestamp, "input")
      BY <1>2, <2>1 DEF Content
  <2>3. OwnStep(p) /\ file'[call[p].timestamp]["input"] = content
      BY <1>1, <1>3, <2>2, PutOwn
  <2>4. Goes(p, "node", {})
      BY <1>1, <1>3, Going
  <2>5. /\ call'[p].at = "node" /\ call'[p].input = call[p].input
        /\ call'[p].timestamp = call[p].timestamp /\ call'[p].alone = call[p].alone
        /\ call'[p].written = call[p].written
      BY <2>4, SameFields
  <2>6. ReadOK(p)'
      BY <2>5 DEF ReadOK, Done
  <2>7. AloneOK(p)'
      BY <1>1, <1>2, <2>1, <2>3, <2>5 DEF AloneOK, Of, Path, Done
  <2>8. QED BY <1>1, <1>2, <2>3, <2>4, <2>5, <2>6, <2>7, GoOn
<1>4. CASE (UNCHANGED file \/ Put(p, "input", None)) /\ Err(p)
    BY <1>1, <1>4, Unwritten, ErrStep
<1>5. QED BY <1>3, <1>4 DEF write_input

LEMMA NodeReadStep ==
    ASSUME CallsInv, NEW p \in Caller, node_read(p)
    PROVE  CallsInv'
<1>1. /\ Running(p) /\ "input" \in Kind /\ UNCHANGED asked /\ UNCHANGED file
      /\ call[p].at = "node"
    BY DEF node_read, Running, Kind
<1>2. /\ call[p].timestamp \in Time /\ AloneOK(p) /\ Kept(p)
      /\ call[p].written \subseteq {"proof", "public"}
    BY <1>1, Progress
<1>3. OwnStep(p)
    BY <1>1, SameFiles
<1>4. CASE /\ Of(p, "input") \in Input \ BadInput
           /\ call' = [call EXCEPT ![p].at = "node_write", ![p].loaded = Of(p, "input")]
  <2>0. PICK v : v = Of(p, "input")
      OBVIOUS
  <2>1. call' = [call EXCEPT ![p].at = "node_write", ![p]["loaded"] = v]
      BY <1>4, <2>0
  <2>2. "loaded" \in Fields /\ "loaded" # "at"
      BY DEF Fields
  <2>3. Goes(p, "node_write", {"loaded"}) /\ call'[p].loaded = Of(p, "input")
    <3>1. PICK at : at = "node_write"
        OBVIOUS
    <3>2. call' = [call EXCEPT ![p].at = at, ![p]["loaded"] = v]
        BY <2>1, <3>1
    <3>3. Goes(p, at, {"loaded"}) /\ call'[p]["loaded"] = v
        BY <1>1, <2>2, <3>2, GoingWith
    <3>4. QED BY <2>0, <3>1, <3>3
  <2>4. /\ call'[p].at = "node_write" /\ call'[p].input = call[p].input
        /\ call'[p].timestamp = call[p].timestamp /\ call'[p].alone = call[p].alone
        /\ call'[p].written = call[p].written
      BY <2>3, SameFields
  <2>5. Of(p, "input") \in asked[call[p].timestamp]
      BY <1>1, <1>2, <1>4, ZkProverAssumption DEF Of, Path, CallsInv, FilesOK, Content
  <2>6. ReadOK(p)'
      BY <1>1, <1>4, <2>3, <2>4, <2>5 DEF ReadOK, Done
  <2>7. AloneOK(p)'
      BY <1>1, <1>2, <2>3, <2>4 DEF AloneOK, Done
  <2>8. QED BY <1>1, <1>2, <1>3, <2>3, <2>4, <2>6, <2>7, GoOn
<1>5. CASE Err(p)
    BY <1>1, <1>3, <1>5, ErrStep
<1>6. QED BY <1>4, <1>5 DEF node_read

LEMMA NodeWriteStep ==
    ASSUME CallsInv, NEW p \in Caller, node_write(p)
    PROVE  CallsInv'
<1>1. Running(p) /\ "witness" \in Kind /\ UNCHANGED asked /\ call[p].at = "node_write"
    BY DEF node_write, Running, Kind
<1>2. /\ AloneOK(p) /\ Kept(p) /\ ReadOK(p) /\ call[p].written \subseteq {"proof", "public"}
    BY <1>1, Progress
<1>3. ASSUME NEW content \in Written(p, call[p].loaded), Put(p, "witness", content),
             Goto(p, "rapidsnark")
      PROVE  CallsInv'
  <2>1. content \in {call[p].loaded, None} /\ (call[p].alone => content = call[p].loaded)
      BY <1>1, WrittenAlone
  <2>2. content \in Content(call[p].timestamp, "witness")
      BY <1>1, <1>2, <2>1 DEF Content, ReadOK, Done
  <2>3. OwnStep(p) /\ file'[call[p].timestamp]["witness"] = content
      BY <1>1, <1>3, <2>2, PutOwn
  <2>4. Goes(p, "rapidsnark", {})
      BY <1>1, <1>3, Going
  <2>5. /\ call'[p].at = "rapidsnark" /\ call'[p].input = call[p].input
        /\ call'[p].timestamp = call[p].timestamp /\ call'[p].alone = call[p].alone
        /\ call'[p].written = call[p].written
      BY <2>4, SameFields
  <2>6. ReadOK(p)'
      BY <2>5 DEF ReadOK, Done
  <2>7. AloneOK(p)'
      BY <1>1, <1>2, <2>1, <2>3, <2>5 DEF AloneOK, Of, Path, Done
  <2>8. QED BY <1>1, <1>2, <2>3, <2>4, <2>5, <2>6, <2>7, GoOn
<1>4. CASE (UNCHANGED file \/ Put(p, "witness", None)) /\ Err(p)
    BY <1>1, <1>4, Unwritten, ErrStep
<1>5. QED BY <1>3, <1>4 DEF node_write

LEMMA RapidsnarkStep ==
    ASSUME CallsInv, NEW p \in Caller, rapidsnark(p)
    PROVE  CallsInv'
<1>1. /\ Running(p) /\ "witness" \in Kind /\ UNCHANGED asked /\ UNCHANGED file
      /\ call[p].at = "rapidsnark"
    BY DEF rapidsnark, Running, Kind
<1>2. /\ call[p].timestamp \in Time /\ AloneOK(p) /\ Kept(p)
      /\ call[p].written \subseteq {"proof", "public"}
    BY <1>1, Progress
<1>3. OwnStep(p)
    BY <1>1, SameFiles
<1>4. CASE /\ Of(p, "witness") \in Input
           /\ call' = [call EXCEPT ![p].at = "write_proof", ![p].loaded = Of(p, "witness")]
  <2>0. PICK v : v = Of(p, "witness")
      OBVIOUS
  <2>1. call' = [call EXCEPT ![p].at = "write_proof", ![p]["loaded"] = v]
      BY <1>4, <2>0
  <2>2. "loaded" \in Fields /\ "loaded" # "at"
      BY DEF Fields
  <2>3. Goes(p, "write_proof", {"loaded"}) /\ call'[p].loaded = Of(p, "witness")
    <3>1. PICK at : at = "write_proof"
        OBVIOUS
    <3>2. call' = [call EXCEPT ![p].at = at, ![p]["loaded"] = v]
        BY <2>1, <3>1
    <3>3. Goes(p, at, {"loaded"}) /\ call'[p]["loaded"] = v
        BY <1>1, <2>2, <3>2, GoingWith
    <3>4. QED BY <2>0, <3>1, <3>3
  <2>4. /\ call'[p].at = "write_proof" /\ call'[p].input = call[p].input
        /\ call'[p].timestamp = call[p].timestamp /\ call'[p].alone = call[p].alone
        /\ call'[p].written = call[p].written
      BY <2>3, SameFields
  <2>5. Of(p, "witness") \in asked[call[p].timestamp] \ BadInput
      BY <1>1, <1>2, <1>4, ZkProverAssumption DEF Of, Path, CallsInv, FilesOK, Content
  <2>6. ReadOK(p)'
      BY <1>1, <2>3, <2>4, <2>5 DEF ReadOK, Done
  <2>7. AloneOK(p)'
      BY <1>1, <1>2, <2>3, <2>4 DEF AloneOK, Done
  <2>8. QED BY <1>1, <1>2, <1>3, <2>3, <2>4, <2>6, <2>7, GoOn
<1>5. CASE Err(p)
    BY <1>1, <1>3, <1>5, ErrStep
<1>6. QED BY <1>4, <1>5 DEF rapidsnark

LEMMA WriteOutputStep ==
    ASSUME CallsInv, NEW p \in Caller, NEW at, NEW k, NEW next,
           \/ at = "write_proof" /\ k = "proof" /\ next = "write_public"
           \/ at = "write_public" /\ k = "public" /\ next = "read_proof",
           write_output(p, at, k, next)
    PROVE  CallsInv'
<1> DEFINE t == call[p].timestamp
<1>1. /\ Running(p) /\ k \in Kind /\ UNCHANGED asked /\ call[p].at = at
      /\ k \in {"proof", "public"}
    BY DEF write_output, Running, Kind
<1>2. /\ t \in Time /\ AloneOK(p) /\ Kept(p) /\ ReadOK(p)
      /\ call[p].written \subseteq {"proof", "public"}
    BY <1>1, Progress
<1>3. call[p].loaded \in asked[t] \ BadInput
    BY <1>1, <1>2 DEF ReadOK, Done
<1>4. ASSUME Put(p, k, call[p].loaded) \/ Put(p, k, None),
             call' = [call EXCEPT ![p].at = next, ![p].written = @ \cup {k}]
      PROVE  CallsInv'
  <2>1. PICK v : v = call[p].written \cup {k}
      OBVIOUS
  <2>2. "written" \in Fields /\ "written" # "at"
      BY DEF Fields
  <2>3. call' = [call EXCEPT ![p].at = next, ![p]["written"] = v]
    <3>1. DOMAIN call = Caller /\ DOMAIN call[p] = Fields
        BY <1>1, Progress
    <3>2. QED BY <1>4, <2>1, <2>2, <3>1
  <2>4. Goes(p, next, {"written"}) /\ call'[p]["written"] = v
      BY <1>1, <2>2, <2>3, GoingWith
  <2>5. /\ call'[p].at = next /\ call'[p].input = call[p].input
        /\ call'[p].timestamp = t /\ call'[p].alone = call[p].alone
        /\ call'[p].loaded = call[p].loaded
        /\ call'[p].written = call[p].written \cup {k}
      BY <2>1, <2>4, SameFields
  <2>6. PICK content : content \in {call[p].loaded, None} /\ Put(p, k, content)
      BY <1>4
  <2>7. content \in Content(t, k)
      BY <1>1, <1>3, <2>6 DEF Content
  <2>8. OwnStep(p) /\ file'[t][k] = content /\ \A j \in Kind : j # k => file'[t][j] = file[t][j]
      BY <1>1, <2>6, <2>7, PutOwn
  <2>9. ReadOK(p)'
      BY <1>1, <1>3, <2>5 DEF ReadOK, Done
  <2>10. AloneOK(p)'
    <3> SUFFICES ASSUME call[p].alone PROVE AloneOK(p)'
        BY <2>5 DEF AloneOK, Done
    <3>1. call[p].loaded = call[p].input
        BY <1>1, <1>2 DEF AloneOK, Done
    <3>2. CASE at = "write_proof"
      <4>1. call[p].written = {} /\ k = "proof" /\ next = "write_public"
          BY <1>1, <1>2, <3>2 DEF AloneOK, Done
      <4>2. QED BY <2>5, <2>6, <2>8, <3>1, <4>1 DEF AloneOK, OwnFile, Of, Path, Done
    <3>3. CASE at = "write_public"
      <4>1. OwnFile(p, "proof") /\ k = "public" /\ next = "read_proof"
          BY <1>1, <1>2, <3>3 DEF AloneOK, Done
      <4>2. file'[t]["proof"] = file[t]["proof"]
          BY <2>8, <4>1 DEF Kind
      <4>3. QED BY <2>5, <2>6, <2>8, <3>1, <4>1, <4>2 DEF AloneOK, OwnFile, Of, Path, Done
    <3>4. QED BY <3>2, <3>3
  <2>11. call'[p].written \subseteq {"proof", "public"}
      BY <1>1, <1>2, <2>5
  <2>12. QED BY <1>1, <2>4, <2>8, <2>9, <2>10, <2>11, GoOn
<1>5. CASE UNCHANGED file /\ Goto(p, next)
  <2>1. OwnStep(p)
      BY <1>1, <1>5, SameFiles
  <2>2. Goes(p, next, {})
      BY <1>1, <1>5, Going
  <2>3. /\ call'[p].at = next /\ call'[p].input = call[p].input
        /\ call'[p].timestamp = t /\ call'[p].alone = call[p].alone
        /\ call'[p].loaded = call[p].loaded /\ call'[p].written = call[p].written
      BY <2>2, SameFields
  <2>4. ReadOK(p)'
      BY <1>1, <1>3, <2>3 DEF ReadOK, Done
  <2>5. AloneOK(p)'
    <3> SUFFICES ASSUME call[p].alone PROVE AloneOK(p)'
        BY <2>3 DEF AloneOK, Done
    <3>1. CASE at = "write_proof"
      <4>1. /\ call[p].loaded = call[p].input /\ call[p].written = {}
            /\ k = "proof" /\ next = "write_public"
          BY <1>1, <1>2, <3>1 DEF AloneOK, Done
      <4>2. QED BY <2>3, <4>1 DEF AloneOK, OwnFile, Done
    <3>2. CASE at = "write_public"
      <4>1. /\ OwnFile(p, "proof") /\ k = "public" /\ next = "read_proof"
            /\ "public" \notin call[p].written
          BY <1>1, <1>2, <3>2 DEF AloneOK, Done
      <4>2. QED BY <1>5, <2>3, <4>1 DEF AloneOK, OwnFile, Of, Path, Done
    <3>3. QED BY <3>1, <3>2
  <2>6. QED BY <1>1, <1>2, <2>1, <2>2, <2>3, <2>4, <2>5, GoOn
<1>6. CASE (UNCHANGED file \/ Put(p, k, None)) /\ Err(p)
    BY <1>1, <1>6, Unwritten, ErrStep
<1>7. QED BY <1>4, <1>5, <1>6 DEF write_output

LEMMA ReadOutputStep ==
    ASSUME CallsInv, NEW p \in Caller, NEW at, NEW k, NEW next,
           \/ at = "read_proof" /\ k = "proof" /\ next = "read_public"
           \/ at = "read_public" /\ k = "public" /\ next = "remove_input",
           read_output(p, at, k, next)
    PROVE  CallsInv'
<1> DEFINE t == call[p].timestamp
<1>1. /\ Running(p) /\ k \in Kind /\ UNCHANGED asked /\ UNCHANGED file /\ call[p].at = at
      /\ k \in {"proof", "public"}
    BY DEF read_output, Running, Kind
<1>2. /\ t \in Time /\ AloneOK(p) /\ Kept(p) /\ ReadOK(p)
      /\ call[p].written \subseteq {"proof", "public"}
    BY <1>1, Progress
<1>3. OwnStep(p)
    BY <1>1, SameFiles
<1>4. CASE /\ Of(p, k) \in Input
           /\ call' = [call EXCEPT ![p].at = next, ![p][k] = Of(p, k)]
  <2>1. PICK v : v = Of(p, k)
      OBVIOUS
  <2>2. k \in Fields /\ k # "at"
      BY <1>1 DEF Fields
  <2>3. Goes(p, next, {k}) /\ call'[p][k] = v
      BY <1>1, <1>4, <2>1, <2>2, GoingWith
  <2>4. /\ call'[p].at = next /\ call'[p].input = call[p].input
        /\ call'[p].timestamp = t /\ call'[p].alone = call[p].alone
        /\ call'[p].written = call[p].written
        /\ k # "proof" => call'[p].proof = call[p].proof
    <3>1. {"input", "timestamp", "alone"} \cap {k} = {} /\ "written" \notin {k}
        BY <1>1
    <3>2. QED BY <2>3, <3>1, SameFields
  <2>5. v \in asked[t] \ BadInput
    <3>1. file[t][k] \in Content(t, k) /\ k # "input"
        BY <1>1, <1>2 DEF CallsInv, FilesOK
    <3>2. QED BY <1>4, <2>1, <3>1, ZkProverAssumption DEF Of, Path, Content
  <2>6. ReadOK(p)'
    <3>1. CASE k = "proof"
        BY <1>1, <2>3, <2>4, <2>5, <3>1 DEF ReadOK, Done
    <3>2. CASE k = "public"
      <4>1. call[p].proof \in asked[t] \ BadInput
          BY <1>1, <1>2, <3>2 DEF ReadOK, Done
      <4>2. QED BY <1>1, <2>3, <2>4, <2>5, <3>2, <4>1 DEF ReadOK, Done
    <3>3. QED BY <1>1, <3>1, <3>2
  <2>7. AloneOK(p)'
    <3> SUFFICES ASSUME call[p].alone PROVE AloneOK(p)'
        BY <2>4 DEF AloneOK, Done
    <3>1. OwnFile(p, "public") \/ k = "public"
        BY <1>1, <1>2 DEF AloneOK, Done
    <3>2. OwnFile(p, k)
        BY <1>1, <1>2 DEF AloneOK, Done
    <3>3. k \in call[p].written => v = call[p].input
        BY <1>4, <2>1, <3>2, ZkProverAssumption DEF OwnFile
    <3>4. CASE k = "proof"
      <4>1. OwnFile(p, "public") /\ next = "read_public"
          BY <3>1, <3>4
      <4>2. QED BY <1>1, <2>3, <2>4, <3>3, <3>4, <4>1 DEF AloneOK, OwnFile, OwnRead, Of, Path, Done
    <3>5. CASE k = "public"
      <4>1. OwnRead(p, "proof") /\ next = "remove_input"
          BY <1>1, <1>2, <3>5 DEF AloneOK, Done
      <4>2. QED BY <2>3, <2>4, <3>3, <3>5, <4>1 DEF AloneOK, OwnRead, Done
    <3>6. QED BY <1>1, <3>4, <3>5
  <2>8. {"input", "timestamp", "alone"} \cap {k} = {}
      BY <1>1
  <2>9. call'[p].written \subseteq {"proof", "public"}
      BY <1>2, <2>4
  <2>10. QED BY <1>1, <1>3, <2>3, <2>6, <2>7, <2>8, <2>9, GoOn
<1>5. CASE Err(p)
    BY <1>1, <1>3, <1>5, ErrStep
<1>6. QED BY <1>4, <1>5 DEF read_output

LEMMA RemoveStep ==
    ASSUME CallsInv, NEW p \in Caller, NEW at \in Done \ {"Ok"}, NEW k \in Kind,
           NEW next \in Done, remove_file(p, at, k, next)
    PROVE  CallsInv'
<1> DEFINE t == call[p].timestamp
<1>1. Running(p) /\ UNCHANGED asked /\ call[p].at = at
    BY DEF remove_file, Running, Done
<1>2. /\ AloneOK(p) /\ Kept(p) /\ ReadOK(p) /\ call[p].written \subseteq {"proof", "public"}
    BY <1>1, Progress
<1>3. OwnStep(p)
    BY <1>1, Unwritten DEF remove_file
<1>4. Goes(p, next, {})
    BY <1>1, Going DEF remove_file
<1>5. /\ call'[p].at = next /\ call'[p].input = call[p].input
      /\ call'[p].timestamp = t /\ call'[p].alone = call[p].alone
      /\ call'[p].written = call[p].written
      /\ call'[p].proof = call[p].proof /\ call'[p].public = call[p].public
    BY <1>4, SameFields
<1>6. ReadOK(p)'
  <2>1. {call[p].proof, call[p].public} \subseteq asked[t] \ BadInput
      BY <1>1, <1>2 DEF ReadOK, Done
  <2>2. QED BY <1>1, <1>5, <2>1 DEF ReadOK, Done
<1>7. AloneOK(p)'
    BY <1>1, <1>2, <1>5 DEF AloneOK, OwnRead, Done
<1>8. QED BY <1>1, <1>2, <1>3, <1>4, <1>5, <1>6, <1>7, GoOn

-----------------------------------------------------------------------------

LEMMA InitCalls == Init => CallsInv
<1> SUFFICES ASSUME Init PROVE CallsInv
    OBVIOUS
<1>1. \A p \in Caller : call[p] = [at |-> "idle"]
    BY DEF Init
<1>2. ASSUME NEW p \in Caller PROVE call[p].at = "idle" /\ "at" \in DOMAIN call[p]
  <2>1. call[p] = [at |-> "idle"]
      BY <1>1
  <2>2. QED BY <2>1
<1>3. \A p \in Caller : RecordOK(p) /\ ReadOK(p) /\ AloneOK(p) /\ ~Running(p)
    BY <1>2 DEF RecordOK, ReadOK, AloneOK, Running, Kept, Done
<1>4. ShapeOK
    BY <1>3 DEF Init, ShapeOK
<1>5. FilesOK
    BY DEF Init, FilesOK, Content
<1>6. QED BY <1>3, <1>4, <1>5 DEF CallsInv, RivalsOK

LEMMA CallsInvInvariant == Spec => []CallsInv
<1>1. CallsInv /\ [Next]_vars => CallsInv'
  <2> SUFFICES ASSUME CallsInv, [Next]_vars PROVE CallsInv'
      OBVIOUS
  <2>1. CASE Next
    <3> PICK p \in Caller :
              \/ \E input \in Input, t \in Time : generate_proof(p, input, t)
              \/ write_input(p)
              \/ node_read(p) \/ node_write(p)
              \/ rapidsnark(p)
              \/ write_output(p, "write_proof", "proof", "write_public")
              \/ write_output(p, "write_public", "public", "read_proof")
              \/ read_output(p, "read_proof", "proof", "read_public")
              \/ read_output(p, "read_public", "public", "remove_input")
              \/ remove_file(p, "remove_input", "input", "remove_witness")
              \/ remove_file(p, "remove_witness", "witness", "remove_proof")
              \/ remove_file(p, "remove_proof", "proof", "remove_public")
              \/ remove_file(p, "remove_public", "public", "Ok")
        BY <2>1 DEF Next
    <3>1. CASE \E input \in Input, t \in Time : generate_proof(p, input, t)
        BY <3>1, BeginStep
    <3>2. CASE write_input(p) \/ node_read(p) \/ node_write(p) \/ rapidsnark(p)
        BY <3>2, WriteStep, NodeReadStep, NodeWriteStep, RapidsnarkStep
    <3>3. CASE \/ write_output(p, "write_proof", "proof", "write_public")
               \/ write_output(p, "write_public", "public", "read_proof")
        BY <3>3, WriteOutputStep
    <3>4. CASE \/ read_output(p, "read_proof", "proof", "read_public")
               \/ read_output(p, "read_public", "public", "remove_input")
        BY <3>4, ReadOutputStep
    <3>5. CASE \/ remove_file(p, "remove_input", "input", "remove_witness")
               \/ remove_file(p, "remove_witness", "witness", "remove_proof")
               \/ remove_file(p, "remove_proof", "proof", "remove_public")
               \/ remove_file(p, "remove_public", "public", "Ok")
        BY <3>5, RemoveStep DEF Done, Kind
    <3>6. QED BY <3>1, <3>2, <3>3, <3>4, <3>5
  <2>2. CASE UNCHANGED vars
      BY <2>2 DEF vars, CallsInv, ShapeOK, RecordOK, FilesOK, Content, ReadOK, AloneOK, RivalsOK,
                  Kept, Running, OwnFile, OwnRead, Of, Path, Done
  <2>3. QED BY <2>1, <2>2
<1>2. QED BY InitCalls, <1>1, PTL DEF Spec

\* What generate_proof returns is of an input that has a witness and that a call of
\* the same time was made with, for any number of threads, whatever node, rapidsnark
\* and the file system do: so it is the call's own input unless the clock gave its
\* time to a call with another input too.
THEOREM ProofIsOfItsTimeCorrect == Spec => []ProofIsOfItsTime
<1>1. CallsInv => ProofIsOfItsTime
  <2> SUFFICES ASSUME CallsInv, NEW p \in Caller, call[p].at = "Ok"
               PROVE  {call[p].proof, call[p].public} \subseteq
                          asked[call[p].timestamp] \ BadInput
      BY DEF ProofIsOfItsTime
  <2>1. QED BY DEF CallsInv, ReadOK, Done
<1>2. QED BY CallsInvInvariant, <1>1, PTL

\* Files that earlier calls left under its names do not get into the result of a
\* call that overlaps no other one of its time and whose outputs could be opened.
THEOREM LeftoversIgnoredCorrect == Spec => []LeftoversIgnored
<1>1. CallsInv => LeftoversIgnored
  <2> SUFFICES ASSUME CallsInv, NEW p \in Caller, call[p].at = "Ok", call[p].alone,
                      call[p].written = {"proof", "public"}
               PROVE  call[p].proof = call[p].input /\ call[p].public = call[p].input
      BY DEF LeftoversIgnored
  <2>1. OwnRead(p, "proof") /\ OwnRead(p, "public")
      BY DEF CallsInv, AloneOK, Kept, Done
  <2>2. QED BY <2>1 DEF OwnRead
<1>2. QED BY CallsInvInvariant, <1>1, PTL

=============================================================================
