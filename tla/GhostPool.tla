----------------------------- MODULE GhostPool ------------------------------
(***************************************************************************)
(* The GhostPool contract of contracts/src/ghost_pool.cairo: a pool of     *)
(* equal notes.  deposit takes one denomination from the caller and adds a *)
(* commitment to the Merkle tree; withdraw spends a nullifier and pays one *)
(* denomination, split between a recipient and a relayer.                  *)
(*                                                                         *)
(* Starknet executes transactions one at a time, but a call the pool makes *)
(* to the token hands control to a contract the constructor was given the  *)
(* address of: until that call returns, the token may call the pool again, *)
(* before or after it moved the funds.  stack holds the calls of the pool  *)
(* that wait for the token, innermost last.  A failed assertion anywhere,  *)
(* or running out of gas, undoes the whole transaction: saved is the state *)
(* the last complete transaction left.                                     *)
(*                                                                         *)
(* The token is external: it moves the amount it is asked to move if the   *)
(* sender has it and panics (Revert) otherwise.  The pool ignores the      *)
(* bool that transfer and transfer_from return.                            *)
(***************************************************************************)
EXTENDS MerkleTree, FiniteSets

CONSTANTS
    DENOMINATION,   \* the size of a note
    User,           \* the accounts that deposit, receive and relay
    Pool,           \* get_contract_address()
    Nullifier,      \* the nullifier hashes a caller may present
    Fee,            \* the fees a caller may present
    Funds,          \* what each user owns at first
    MaxDepth        \* bound on the calls of the pool in progress at once

Account == User \cup {Pool}

ASSUME PoolAssumption ==
    /\ DENOMINATION \in Nat
    /\ Fee \subseteq Nat
    /\ Funds \in [User -> Nat]
    /\ Pool \notin User
    /\ MaxDepth \in Nat

VARIABLES nullifiers,   \* the hashes whose entry in the nullifiers map is true
          balance,      \* of the token, per account
          log,          \* the Deposit and Withdraw events
          stack, saved

\* What a revert restores.
contract == [next_index |-> next_index, filled_subtrees |-> filled_subtrees,
             roots |-> roots, current_root_index |-> current_root_index,
             events |-> events, nullifiers |-> nullifiers, balance |-> balance,
             log |-> log]

vars == <<treeVars, nullifiers, balance, log, stack, saved>>

-----------------------------------------------------------------------------

\* A call of the token in progress, and the part of deposit or withdraw that
\* runs when it returns.
Calling(from, to, amount, then, args) ==
    [from |-> from, to |-> to, amount |-> amount, moved |-> FALSE,
     then |-> then, args |-> args]

Top == stack[Len(stack)]
Below == SubSeq(stack, 1, Len(stack) - 1)
SetTop(call) == Append(Below, call)
Returned(then) == stack # <<>> /\ Top.then = then /\ Top.moved

\* A user sends a transaction, or the token being called calls back.
MayCall == Len(stack) < MaxDepth
Enter(call) == stack' = Append(stack, call) /\ UNCHANGED saved

\* The innermost call of the pool returns; the outermost one ends the
\* transaction.
Leave == /\ stack' = Below
         /\ saved' = IF Len(stack) = 1 THEN contract' ELSE saved

Idle == stack = <<>>

-----------------------------------------------------------------------------

constructor ==
    /\ initialize
    /\ nullifiers = {}
    /\ balance = [a \in Account |-> IF a = Pool THEN 0 ELSE Funds[a]]
    /\ log = <<>>
    /\ stack = <<>>
    /\ saved = contract

\* deposit, up to its call of transfer_from.
deposit(caller, commitment) ==
    /\ MayCall
    /\ Enter(Calling(caller, Pool, DENOMINATION, "insert", [commitment |-> commitment]))
    /\ UNCHANGED <<treeVars, nullifiers, balance, log>>

\* The Deposit event, read from the tree after the insertion.
DepositEventMutant(commitment) ==
    [event |-> "Deposit", commitment |-> commitment, leaf_index |-> saved.next_index]
DepositEvent(commitment) ==
    [event |-> "Deposit", commitment |-> commitment, leaf_index |-> next_index' - 1]

\* deposit, after transfer_from.
deposit_insert ==
    /\ Returned("insert")
    /\ insert(Top.args.commitment)
    /\ log' = Append(log, DepositEvent(Top.args.commitment))
    /\ UNCHANGED <<nullifiers, balance>>
    /\ Leave

\* verify_proof_internal: only the form of the proof and two of the public
\* inputs are examined.
verify_zk_proof(wellFormed, root, nullifier_hash) ==
    wellFormed /\ root # Zero /\ nullifier_hash # Zero

\* assert(!self.nullifiers.entry(nullifier_hash).read(), ...)
UnspentMutant(nullifier_hash) ==
    ~\E i \in DOMAIN log : log[i].event = "Withdraw" /\ log[i].nullifier_hash = nullifier_hash
Unspent(nullifier_hash) == nullifier_hash \notin nullifiers

\* What the recipient is paid: amount - fee.
RecipientShareMutant(fee) == DENOMINATION
RecipientShare(fee) == DENOMINATION - fee

\* withdraw, up to its first transfer.
withdraw(wellFormed, root, nullifier_hash, recipient, relayer, fee) ==
    /\ MayCall
    /\ Unspent(nullifier_hash)
    /\ is_known_root(root)
    /\ verify_zk_proof(wellFormed, root, nullifier_hash)
    /\ DENOMINATION > fee
    /\ nullifiers' = nullifiers \cup {nullifier_hash}
    /\ Enter(Calling(Pool, recipient, RecipientShare(fee), "pay_relayer",
                     [to |-> recipient, nullifier_hash |-> nullifier_hash,
                      relayer |-> relayer, fee |-> fee]))
    /\ UNCHANGED <<treeVars, balance, log>>

\* if fee > 0 { transfer(relayer, fee) }
withdraw_pay_relayer ==
    /\ Returned("pay_relayer")
    /\ Top.args.fee > 0
    /\ stack' = SetTop(Calling(Pool, Top.args.relayer, Top.args.fee, "emit", Top.args))
    /\ UNCHANGED <<treeVars, nullifiers, balance, log, saved>>

\* The Withdraw event, once every transfer has returned.
withdraw_emit ==
    /\ Returned("emit") \/ (Returned("pay_relayer") /\ Top.args.fee = 0)
    /\ log' = Append(log, [event |-> "Withdraw", to |-> Top.args.to,
                           nullifier_hash |-> Top.args.nullifier_hash,
                           relayer |-> Top.args.relayer, fee |-> Top.args.fee])
    /\ UNCHANGED <<treeVars, nullifiers, balance>>
    /\ Leave

\* transfer and transfer_from of the token.
Moved(from, to, amount) ==
    [a \in Account |-> balance[a] - (IF a = from THEN amount ELSE 0)
                                  + (IF a = to THEN amount ELSE 0)]
token_transfer ==
    /\ stack # <<>> /\ ~Top.moved
    /\ balance[Top.from] >= Top.amount
    /\ balance' = Moved(Top.from, Top.to, Top.amount)
    /\ stack' = SetTop([Top EXCEPT !.moved = TRUE])
    /\ UNCHANGED <<treeVars, nullifiers, log, saved>>

\* A failed assertion or running out of gas undoes the whole transaction.
Revert ==
    /\ stack # <<>>
    /\ next_index' = saved.next_index
    /\ filled_subtrees' = saved.filled_subtrees
    /\ roots' = saved.roots
    /\ current_root_index' = saved.current_root_index
    /\ events' = saved.events
    /\ nullifiers' = saved.nullifiers
    /\ balance' = saved.balance
    /\ log' = saved.log
    /\ stack' = <<>>
    /\ UNCHANGED saved

\* The roots a caller may present: those of any earlier state, and 0.
AnyRoot == {RootAfter(n) : n \in 0 .. next_index} \cup {Zero}

Next ==
    \/ \E caller \in User, commitment \in Leaf : deposit(caller, commitment)
    \/ \E wellFormed \in BOOLEAN, root \in AnyRoot, nullifier_hash \in Nullifier,
          recipient \in Account, relayer \in Account, fee \in Fee :
            withdraw(wellFormed, root, nullifier_hash, recipient, relayer, fee)
    \/ deposit_insert
    \/ withdraw_pay_relayer
    \/ withdraw_emit
    \/ token_transfer
    \/ Revert

Spec == constructor /\ [][Next]_vars

-----------------------------------------------------------------------------
(***************************************************************************)
(* Properties.                                                             *)
(***************************************************************************)

DepositCall == [from : User, to : {Pool}, amount : {DENOMINATION}, moved : BOOLEAN,
                then : {"insert"}, args : [commitment : Leaf]]
WithdrawCall == [from : {Pool}, to : Account, amount : Nat, moved : BOOLEAN,
                 then : {"pay_relayer", "emit"},
                 args : [to : Account, nullifier_hash : Nullifier,
                         relayer : Account, fee : Fee]]
PoolEvent == [event : {"Deposit"}, commitment : Leaf, leaf_index : Nat]
        \cup [event : {"Withdraw"}, to : Account, nullifier_hash : Nullifier,
              relayer : Account, fee : Fee]

\* The type invariant: no balance is ever negative, every call in progress is
\* one the code makes.
PoolTypeOK ==
    /\ TreeTypeOK
    /\ nullifiers \subseteq Nullifier
    /\ balance \in [Account -> Nat]
    /\ log \in Seq(PoolEvent)
    /\ stack \in Seq(DepositCall \cup WithdrawCall)

\* The events of withdrawals.
Withdrawals == {i \in DOMAIN log : log[i].event = "Withdraw"}

\* No nullifier is paid for twice, whatever calls the token makes while it is
\* being called: withdraw marks the nullifier before its first transfer.
NoDoubleSpend ==
    \A i, j \in Withdrawals :
        log[i].nullifier_hash = log[j].nullifier_hash => i = j

\* The sum of a sequence of numbers.
Total(numbers) ==
    LET sum[n \in 0 .. Len(numbers)] == IF n = 0 THEN 0 ELSE sum[n - 1] + numbers[n]
    IN  sum[Len(numbers)]

\* What the pool paid out for an event.
PaidOut(e) == IF e.event = "Deposit" THEN 0
              ELSE (IF e.to = Pool THEN 0 ELSE DENOMINATION - e.fee)
                 + (IF e.relayer = Pool THEN 0 ELSE e.fee)

\* Between transactions the pool's balance is what its own events say: one
\* denomination in for each Deposit, amount - fee and fee out for each
\* Withdraw.  Nothing is kept back, and nothing is paid without an event.
BalanceMatchesLog ==
    Idle => balance[Pool] = DENOMINATION * next_index
                              - Total([i \in DOMAIN log |-> PaidOut(log[i])])

\* The events of deposits.
Deposits == {i \in DOMAIN log : log[i].event = "Deposit"}

\* The Deposit events, read in order, are the leaves of the tree in order, each
\* with its own index: a client that rebuilds the tree from them gets the tree
\* its proof must be about, also when a deposit ran inside another one.
DepositLogIsTree ==
    /\ Cardinality(Deposits) = Len(events)
    /\ \A i \in Deposits :
           /\ log[i].leaf_index = Cardinality({j \in Deposits : j < i})
           /\ log[i].commitment = events[log[i].leaf_index + 1].leaf

\* The pool implements the ledger of notes: seen between transactions, it only
\* appends notes and spends nullifiers, and a transaction, with all the calls
\* made inside it, takes a denomination from the vault for each new nullifier
\* at most.
Ledger == INSTANCE NoteLedger WITH
    notes <- [n \in DOMAIN saved.events |-> saved.events[n].leaf],
    spent <- saved.nullifiers,
    vault <- saved.balance[Pool]

ImplementsLedger == Ledger!Spec

=============================================================================
