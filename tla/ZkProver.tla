------------------------------ MODULE ZkProver ------------------------------
(***************************************************************************)
(* ZkProver::generate_proof of the zkp crate, src/prover.rs: a proof is    *)
(* made by two programs that exchange files, node with the circuit's wasm  *)
(* and rapidsnark.                                                         *)
(*                                                                         *)
(* The files of a call are in the temporary directory under names made     *)
(* from the time of the call.  Calls of several threads overlap, and       *)
(* nothing keeps their times apart: a coarse clock gives two of them the   *)
(* same time, and a clock that was set back gives a call the time of an    *)
(* earlier one, whose files may still be there.  A file is the input its   *)
(* content comes from, or None when it is not there or is written only in  *)
(* part: every reader fails on the one as on the other.                    *)
(***************************************************************************)

CONSTANTS
    Caller,     \* the threads that call generate_proof
    Input,      \* the inputs
    BadInput,   \* those for which the circuit has no witness
    Time,       \* what SystemTime::now may say
    None

ASSUME ZkProverAssumption ==
    /\ BadInput \subseteq Input
    /\ None \notin Input

Kind == {"input", "witness", "proof", "public"}

VARIABLES
    file,       \* the temporary directory: of each time, its four files
    call,       \* the call each thread has made last
    asked       \* history: the inputs of all calls that had a time

vars == <<file, call, asked>>

Running(p) == call[p].at \notin {"idle", "Ok", "Err"}

-----------------------------------------------------------------------------

Init ==
    /\ file = [t \in Time |-> [k \in Kind |-> None]]
    /\ call = [p \in Caller |-> [at |-> "idle"]]
    /\ asked = [t \in Time |-> {}]

\* The names of the call's files.
PathMutant(p) == CHOOSE t \in Time : TRUE
Path(p) == call[p].timestamp

Of(p, k) == file[Path(p)][k]
Put(p, k, content) == file' = [file EXCEPT ![Path(p)][k] = content]
Goto(p, at) == call' = [call EXCEPT ![p].at = at]
Err(p) == call' = [call EXCEPT ![p] = [at |-> "Err"]]

\* Another call is writing under the same names.
Shared(p) == \E q \in Caller \ {p} : Running(q) /\ Path(q) = Path(p)

\* What is in a file after it was written without an error: of two writers it may
\* hold a mixture.
Written(p, content) == {content} \cup (IF Shared(p) THEN {None} ELSE {})

\* The call begins by reading the clock.  The fields alone and written record
\* whether another call with the same time overlaps this one, and which files
\* rapidsnark could open.
generate_proof(p, input, t) ==
    /\ ~Running(p)
    /\ LET rivals == {q \in Caller \ {p} : Running(q) /\ call[q].timestamp = t}
       IN  call' = [q \in Caller |->
                       IF q = p
                       THEN [at |-> "write", input |-> input, timestamp |-> t, loaded |-> None,
                             proof |-> None, public |-> None, alone |-> rivals = {}, written |-> {}]
                       ELSE IF q \in rivals THEN [call[q] EXCEPT !.alone = FALSE] ELSE call[q]]
    /\ asked' = [asked EXCEPT ![t] = @ \cup {input}]
    /\ UNCHANGED file

write_input(p) ==
    /\ call[p].at = "write"
    /\ \/ /\ \E content \in Written(p, call[p].input) : Put(p, "input", content)
          /\ Goto(p, "node")
       \/ /\ UNCHANGED file \/ Put(p, "input", None)
          /\ Err(p)
    /\ UNCHANGED asked

\* node generate_witness.js reads the input and calculates the witness; it fails
\* if there is none.
node_readMutant(p) ==
    /\ call[p].at = "node"
    /\ \/ /\ Of(p, "input") \in Input \ BadInput
          /\ call' = [call EXCEPT ![p].at = "node_write", ![p].loaded = Of(p, "input")]
       \/ Goto(p, "rapidsnark")
    /\ UNCHANGED <<file, asked>>
node_read(p) ==
    /\ call[p].at = "node"
    /\ \/ /\ Of(p, "input") \in Input \ BadInput
          /\ call' = [call EXCEPT ![p].at = "node_write", ![p].loaded = Of(p, "input")]
       \/ Err(p)
    /\ UNCHANGED <<file, asked>>

node_write(p) ==
    /\ call[p].at = "node_write"
    /\ \/ /\ \E content \in Written(p, call[p].loaded) : Put(p, "witness", content)
          /\ Goto(p, "rapidsnark")
       \/ /\ UNCHANGED file \/ Put(p, "witness", None)
          /\ Err(p)
    /\ UNCHANGED asked

\* rapidsnark (main_prover.cpp) makes the proof in memory.
rapidsnark(p) ==
    /\ call[p].at = "rapidsnark"
    /\ \/ /\ Of(p, "witness") \in Input
          /\ call' = [call EXCEPT ![p].at = "write_proof", ![p].loaded = Of(p, "witness")]
       \/ Err(p)
    /\ UNCHANGED <<file, asked>>

\* Then it writes the proof and the public signals.  It looks neither whether it
\* could open a file nor whether it could write to it; it may be killed.
write_output(p, at, k, next) ==
    /\ call[p].at = at
    /\ \/ /\ Put(p, k, call[p].loaded) \/ Put(p, k, None)
          /\ call' = [call EXCEPT ![p].at = next, ![p].written = @ \cup {k}]
       \/ /\ UNCHANGED file
          /\ Goto(p, next)
       \/ /\ UNCHANGED file \/ Put(p, k, None)
          /\ Err(p)
    /\ UNCHANGED asked

\* A file that is there and can be parsed is read.
read_output(p, at, k, next) ==
    /\ call[p].at = at
    /\ \/ /\ Of(p, k) \in Input
          /\ call' = [call EXCEPT ![p].at = next, ![p][k] = Of(p, k)]
       \/ Err(p)
    /\ UNCHANGED <<file, asked>>

\* The four files are removed one by one; nobody looks whether they could be.
remove_file(p, at, k, next) ==
    /\ call[p].at = at
    /\ UNCHANGED file \/ Put(p, k, None)
    /\ Goto(p, next)
    /\ UNCHANGED asked

Next ==
    \E p \in Caller :
        \/ \E input \in Input, t \in Time : generate_proof(p, input, t)
        \/ write_input(p)
        \/ node_read(p) \/ node_write(p)
        \/ rapidsnark(p)
        \/ write_output(p, "write_proof", "proof", "write_public")
        \/ write_output(p, "write_public", "public", "read_proof")
        \/ read_output(p, "read_proof", "proof", "read_public")
        \/ read_output(p, "read_public", "public", "remove_input")
        \/ remove_file(p, "remove_input", "input", "remove_witness")
        \/ remove_file(p, "remove_witness", "witness", "remove_proof")
        \/ remove_file(p, "remove_proof", "proof", "remove_public")
        \/ remove_file(p, "remove_public", "public", "Ok")

Spec == Init /\ [][Next]_vars

-----------------------------------------------------------------------------
(***************************************************************************)
(* Properties.                                                             *)
(***************************************************************************)

\* A call that succeeds returns a proof, and public signals, of an input that has
\* a witness and that a call of the same time was made with.  So it is its own
\* input if no other call has had its time, whatever fails on the way; with a time
\* that other calls had too, nothing in generate_proof promises more.
ProofIsOfItsTime ==
    \A p \in Caller :
        call[p].at = "Ok" =>
            {call[p].proof, call[p].public} \subseteq asked[call[p].timestamp] \ BadInput

\* A call that overlaps no other one of its time returns the proof of its own input
\* although it finds the files of earlier calls under its names (calls that failed at
\* any step, or whose files could not be removed), provided that rapidsnark could
\* open the files it writes.
LeftoversIgnored ==
    \A p \in Caller :
        call[p].at = "Ok" /\ call[p].alone /\ call[p].written = {"proof", "public"} =>
            call[p].proof = call[p].input /\ call[p].public = call[p].input

=============================================================================
