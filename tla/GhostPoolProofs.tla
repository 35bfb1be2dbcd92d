-------------------------- MODULE GhostPoolProofs ---------------------------
(***************************************************************************)
(* Proofs about GhostPool, for every denomination, set of accounts, fees   *)
(* and depth of nested calls: its types, that no nullifier is paid for     *)
(* twice, that its events account for its balance and its tree between     *)
(* transactions, and that it implements NoteLedger.                        *)
(***************************************************************************)
EXTENDS GhostPool, MerkleTreeProofs, FiniteSetTheorems, SequenceTheorems

Call == DepositCall \cup WithdrawCall

\* The part of the pool's balance that a call in progress accounts for: what a
\* deposit has brought in and not yet put into the tree, what a withdrawal has
\* yet to pay.
Held(call) ==
    IF call.then = "insert"
    THEN IF call.moved THEN DENOMINATION ELSE 0
    ELSE (IF call.moved THEN 0 ELSE call.amount)
       + (IF call.then = "pay_relayer" THEN call.args.fee ELSE 0)

\* total is the sum of Held over the calls of st; sum is its partial sums.
HeldBy(st, total) ==
    \E sum \in [0 .. Len(st) -> Nat] :
        /\ sum[0] = 0
        /\ \A i \in 1 .. Len(st) : sum[i] = sum[i - 1] + Held(st[i])
        /\ total = sum[Len(st)]

\* What the pool owns in state c beyond one denomination for each leaf less one
\* for each nullifier that is marked.  It counts; it does not say whose note a
\* nullifier belongs to, which the contract cannot tell.
Surplus(c) == c.balance[Pool] - DENOMINATION * (c.next_index - Cardinality(c.nullifiers))

-----------------------------------------------------------------------------
(***************************************************************************)
(* Sums over the stack, as its calls come, change and go.                  *)
(***************************************************************************)

LEMMA HeldType ==
    ASSUME NEW call \in Call
    PROVE  Held(call) \in Nat
<1>1. CASE call \in DepositCall
  <2>1. call.then = "insert"
      BY <1>1 DEF DepositCall
  <2>2. QED BY <2>1, PoolAssumption DEF Held
<1>2. CASE call \in WithdrawCall
  <2>1. call.then # "insert" /\ call.amount \in Nat /\ call.args.fee \in Nat
      BY <1>2, PoolAssumption DEF WithdrawCall
  <2>2. QED BY <2>1 DEF Held
<1>3. QED BY <1>1, <1>2 DEF Call

LEMMA HeldByEmpty ==
    /\ HeldBy(<<>>, 0)
    /\ \A total : HeldBy(<<>>, total) => total = 0
<1>1. HeldBy(<<>>, 0)
  <2> DEFINE sum == [i \in 0 .. Len(<<>>) |-> 0]
  <2>1. sum \in [0 .. Len(<<>>) -> Nat] /\ sum[0] = 0 /\ sum[Len(<<>>)] = 0
      OBVIOUS
  <2>2. 1 .. Len(<<>>) = {}
      OBVIOUS
  <2>3. QED BY <2>1, <2>2 DEF HeldBy
<1>2. QED BY <1>1 DEF HeldBy

LEMMA HeldByPush ==
    ASSUME NEW st \in Seq(Call), NEW call \in Call, NEW total \in Nat, HeldBy(st, total)
    PROVE  HeldBy(Append(st, call), total + Held(call))
<1>1. PICK sum \in [0 .. Len(st) -> Nat] :
        /\ sum[0] = 0
        /\ \A i \in 1 .. Len(st) : sum[i] = sum[i - 1] + Held(st[i])
        /\ total = sum[Len(st)]
    BY DEF HeldBy
<1> DEFINE new == Append(st, call)
           next == [i \in 0 .. Len(st) + 1 |->
                        IF i = Len(st) + 1 THEN total + Held(call) ELSE sum[i]]
<1>2. /\ Len(new) = Len(st) + 1
      /\ new[Len(st) + 1] = call
      /\ \A i \in 1 .. Len(st) : new[i] = st[i]
    OBVIOUS
<1>3. next \in [0 .. Len(new) -> Nat]
    BY <1>2, HeldType
<1>4. next[0] = 0 /\ next[Len(new)] = total + Held(call)
    BY <1>1, <1>2
<1>5. ASSUME NEW i \in 1 .. Len(new) PROVE next[i] = next[i - 1] + Held(new[i])
  <2>1. CASE i = Len(st) + 1
      BY <1>1, <1>2, <2>1
  <2>2. CASE i \in 1 .. Len(st)
      BY <1>1, <1>2, <2>2
  <2>3. QED BY <1>2, <2>1, <2>2
<1> HIDE DEF next, new
<1>6. HeldBy(new, total + Held(call))
    BY <1>3, <1>4, <1>5 DEF HeldBy
<1>7. QED BY <1>6 DEF new

LEMMA HeldByPop ==
    ASSUME NEW st \in Seq(Call), st # <<>>, NEW total, HeldBy(st, total)
    PROVE  /\ total - Held(st[Len(st)]) \in Nat
           /\ HeldBy(SubSeq(st, 1, Len(st) - 1), total - Held(st[Len(st)]))
<1>1. PICK sum \in [0 .. Len(st) -> Nat] :
        /\ sum[0] = 0
        /\ \A i \in 1 .. Len(st) : sum[i] = sum[i - 1] + Held(st[i])
        /\ total = sum[Len(st)]
    BY DEF HeldBy
<1> DEFINE new == SubSeq(st, 1, Len(st) - 1)
           next == [i \in 0 .. Len(st) - 1 |-> sum[i]]
<1>2. Len(st) \in Nat \ {0}
    OBVIOUS
<1>3. Len(new) = Len(st) - 1 /\ \A i \in 1 .. Len(st) - 1 : new[i] = st[i]
    BY <1>2
<1>4. next \in [0 .. Len(new) -> Nat] /\ next[0] = 0
    BY <1>1, <1>2, <1>3
<1>5. Held(st[Len(st)]) \in Nat
    BY <1>2, HeldType
<1>6. next[Len(new)] = total - Held(st[Len(st)])
  <2>1. sum[Len(st)] = sum[Len(st) - 1] + Held(st[Len(st)])
      BY <1>1, <1>2
  <2>2. sum[Len(st) - 1] \in Nat /\ next[Len(new)] = sum[Len(st) - 1]
      BY <1>2, <1>3
  <2>3. QED BY <1>1, <1>5, <2>1, <2>2
<1>7. \A i \in 1 .. Len(new) : next[i] = next[i - 1] + Held(new[i])
    BY <1>1, <1>2, <1>3
<1> HIDE DEF next, new
<1>8. HeldBy(new, total - Held(st[Len(st)]))
    BY <1>4, <1>6, <1>7 DEF HeldBy
<1>9. total - Held(st[Len(st)]) \in Nat
    BY <1>2, <1>3, <1>4, <1>6
<1>10. QED BY <1>8, <1>9 DEF new

-----------------------------------------------------------------------------
(***************************************************************************)
(* The inductive invariant.                                                *)
(***************************************************************************)

\* A state of the contract and the token: what the type invariant says of it,
\* and that its Withdraw events are of distinct, spent nullifiers.
StateTypeOK(c) ==
    /\ c.next_index \in 0 .. CAPACITY
    /\ DOMAIN c.filled_subtrees = 0 .. LEVELS - 1
    /\ DOMAIN c.roots = 0 .. ROOT_HISTORY_SIZE - 1
    /\ c.current_root_index \in 0 .. ROOT_HISTORY_SIZE - 1
    /\ Len(c.events) = c.next_index
    /\ \E S : c.events \in Seq(S)
    /\ c.nullifiers \subseteq Nullifier
    /\ IsFiniteSet(c.nullifiers)
    /\ c.balance \in [Account -> Nat]
    /\ c.log \in Seq(PoolEvent)

WithdrawalsIn(c) == {i \in DOMAIN c.log : c.log[i].event = "Withdraw"}

LogSpendsOnce(c) ==
    /\ \A i \in WithdrawalsIn(c) : c.log[i].nullifier_hash \in c.nullifiers
    /\ \A i, j \in WithdrawalsIn(c) :
           c.log[i].nullifier_hash = c.log[j].nullifier_hash => i = j

\* The amounts a withdrawal in progress moves.
AmountsOK(st) ==
    \A i \in DOMAIN st :
        /\ st[i].then = "pay_relayer" => st[i].amount + st[i].args.fee = DENOMINATION
        /\ st[i].then = "emit" => st[i].amount = st[i].args.fee

\* A withdrawal in progress has spent its nullifier, which no event and no
\* other withdrawal in progress is about.
CallsSpendOnce ==
    \A i \in DOMAIN stack : stack[i].then # "insert" =>
        /\ stack[i].args.nullifier_hash \in nullifiers
        /\ \A j \in Withdrawals : log[j].nullifier_hash # stack[i].args.nullifier_hash
        /\ \A j \in DOMAIN stack :
              stack[j].then # "insert"
                /\ stack[j].args.nullifier_hash = stack[i].args.nullifier_hash => i = j

\* The transaction in progress keeps the surplus it began with, and what its
\* calls account for.
Funded == \E total \in Nat : HeldBy(stack, total) /\ Surplus(contract) >= Surplus(saved) + total

PoolInv ==
    /\ StateTypeOK(contract) /\ StateTypeOK(saved)
    /\ LogSpendsOnce(contract) /\ LogSpendsOnce(saved)
    /\ stack \in Seq(Call)
    /\ AmountsOK(stack)
    /\ CallsSpendOnce
    /\ Surplus(saved) >= 0
    /\ Funded

LEMMA InitPoolInv == constructor => PoolInv
<1> SUFFICES ASSUME constructor PROVE PoolInv
    OBVIOUS
<1> USE PoolAssumption
<1>1. TreeTypeOK /\ \E S : events \in Seq(S)
    BY InitTreeInv DEF constructor, TreeInv
<1>2. nullifiers = {} /\ log = <<>> /\ stack = <<>> /\ saved = contract
    BY DEF constructor
<1>3. balance \in [Account -> Nat] /\ balance[Pool] = 0
    BY DEF constructor, Account
<1>4. next_index = 0
    BY DEF constructor, initialize
<1>5. StateTypeOK(contract)
    BY <1>1, <1>2, <1>3, FS_EmptySet DEF StateTypeOK, TreeTypeOK, contract
<1>6. LogSpendsOnce(contract)
    BY <1>2 DEF LogSpendsOnce, WithdrawalsIn, contract
<1>7. Surplus(contract) = 0
    BY <1>2, <1>3, <1>4, FS_EmptySet DEF Surplus, contract
<1>8. AmountsOK(stack) /\ CallsSpendOnce /\ stack \in Seq(Call)
    BY <1>2 DEF AmountsOK, CallsSpendOnce
<1>9. Funded
    BY <1>2, <1>7, HeldByEmpty DEF Funded
<1>10. QED BY <1>2, <1>5, <1>6, <1>7, <1>8, <1>9 DEF PoolInv

-----------------------------------------------------------------------------
(***************************************************************************)
(* One lemma per action: a step preserves the invariant.                   *)
(***************************************************************************)

LEMMA SurplusType ==
    ASSUME NEW c, StateTypeOK(c)
    PROVE  Surplus(c) \in Int /\ Cardinality(c.nullifiers) \in Nat
<1>1. Cardinality(c.nullifiers) \in Nat
    BY FS_CardinalityType DEF StateTypeOK
<1>2. c.balance[Pool] \in Nat /\ c.next_index \in Nat
    BY SizeAssumption DEF StateTypeOK, Account
<1>3. QED BY <1>1, <1>2, PoolAssumption DEF Surplus

LEMMA PopFacts ==
    ASSUME NEW st \in Seq(Call), st # <<>>
    PROVE  /\ Len(st) \in Nat \ {0}
           /\ SubSeq(st, 1, Len(st) - 1) \in Seq(Call)
           /\ Len(SubSeq(st, 1, Len(st) - 1)) = Len(st) - 1
           /\ \A i \in 1 .. Len(st) - 1 : SubSeq(st, 1, Len(st) - 1)[i] = st[i]
<1> DEFINE n == Len(st) - 1
           new == SubSeq(st, 1, n)
<1>1. Len(st) \in Nat \ {0} /\ n \in Nat
    OBVIOUS
<1>2. \A i \in 1 .. n : st[i] \in Call
    BY <1>1
<1> HIDE DEF n
<1>3. /\ new \in Seq(Call)
      /\ Len(new) = IF 1 <= n THEN n - 1 + 1 ELSE 0
      /\ \A i \in 1 .. n - 1 + 1 : new[i] = st[1 + i - 1]
    BY <1>1, <1>2, SubSeqProperties
<1> HIDE DEF new
<1>4. n - 1 + 1 = n /\ (IF 1 <= n THEN n - 1 + 1 ELSE 0) = n
    BY <1>1
<1>5. \A i \in 1 .. n : 1 + i - 1 = i
    BY <1>1
<1>6. Len(new) = n /\ \A i \in 1 .. n : new[i] = st[i]
    BY <1>3, <1>4, <1>5, Zenon
<1>7. QED BY <1>1, <1>3, <1>6 DEF n, new

LEMMA StackFacts ==
    ASSUME stack \in Seq(Call), stack # <<>>
    PROVE  /\ Len(stack) \in Nat \ {0}
           /\ Top \in Call
           /\ Below \in Seq(Call)
           /\ Len(Below) = Len(stack) - 1
           /\ \A i \in 1 .. Len(stack) - 1 : Below[i] = stack[i]
<1>1. Len(stack) \in Nat \ {0}
    BY PopFacts
<1>2. Top \in Call
    BY <1>1 DEF Top
<1>3. QED BY <1>1, <1>2, PopFacts DEF Below

\* A call begins: it accounts for the surplus it adds.
LEMMA EnterPreserves ==
    ASSUME PoolInv, NEW call \in Call, Enter(call),
           StateTypeOK(contract)', LogSpendsOnce(contract)', CallsSpendOnce',
           call.then = "pay_relayer" => call.amount + call.args.fee = DENOMINATION,
           call.then = "emit" => call.amount = call.args.fee,
           Surplus(contract)' >= Surplus(contract) + Held(call)
    PROVE  PoolInv'
<1>1. stack' = Append(stack, call) /\ saved' = saved /\ stack \in Seq(Call)
    BY DEF Enter, PoolInv
<1>2. stack' \in Seq(Call)
    BY <1>1
<1>3. AmountsOK(stack')
    BY <1>1 DEF PoolInv, AmountsOK
<1>4. PICK total \in Nat : HeldBy(stack, total) /\ Surplus(contract) >= Surplus(saved) + total
    BY DEF PoolInv, Funded
<1>5. HeldBy(stack', total + Held(call)) /\ Held(call) \in Nat
    BY <1>1, <1>4, HeldByPush, HeldType
<1>6. Surplus(contract) \in Int /\ Surplus(contract)' \in Int /\ Surplus(saved) \in Int
    BY SurplusType DEF PoolInv
<1>7. Surplus(saved)' = Surplus(saved)
    BY <1>1 DEF Surplus
<1>8. Surplus(contract)' >= Surplus(saved)' + (total + Held(call))
    BY <1>4, <1>5, <1>6, <1>7
<1>9. Funded'
    BY <1>5, <1>8 DEF Funded
<1>10. StateTypeOK(saved)' /\ LogSpendsOnce(saved)'
    BY <1>1 DEF PoolInv, StateTypeOK, LogSpendsOnce, WithdrawalsIn
<1>11. QED BY <1>2, <1>3, <1>7, <1>9, <1>10 DEF PoolInv

\* A call ends: the surplus keeps what the calls below it account for.
LEMMA LeavePreserves ==
    ASSUME PoolInv, stack # <<>>, Leave,
           StateTypeOK(contract)', LogSpendsOnce(contract)', CallsSpendOnce',
           Surplus(contract)' >= Surplus(contract) - Held(Top)
    PROVE  PoolInv'
<1>1. /\ stack' = Below
      /\ saved' = IF Len(stack) = 1 THEN contract' ELSE saved
      /\ stack \in Seq(Call)
    BY DEF Leave, PoolInv
<1>2. /\ Len(stack) \in Nat \ {0}
      /\ Top \in Call
      /\ stack' \in Seq(Call)
      /\ Len(stack') = Len(stack) - 1
      /\ \A i \in 1 .. Len(stack) - 1 : stack'[i] = stack[i]
    BY <1>1, StackFacts
<1>3. AmountsOK(stack')
    BY <1>1, <1>2 DEF PoolInv, AmountsOK
<1>4. PICK total \in Nat : HeldBy(stack, total) /\ Surplus(contract) >= Surplus(saved) + total
    BY DEF PoolInv, Funded
<1>5. HeldBy(stack', total - Held(Top)) /\ total - Held(Top) \in Nat /\ Held(Top) \in Nat
    BY <1>1, <1>2, <1>4, HeldByPop, HeldType DEF Below, Top
<1>6. Surplus(contract) \in Int /\ Surplus(contract)' \in Int /\ Surplus(saved) \in Int
    BY SurplusType DEF PoolInv
<1>7. Surplus(contract)' >= Surplus(saved) + (total - Held(Top))
    BY <1>4, <1>5, <1>6
<1>8. CASE Len(stack) = 1
  <2>1. saved' = contract' /\ stack' = <<>>
      BY <1>1, <1>2, <1>8
  <2>2. Surplus(saved)' = Surplus(contract)'
      BY <2>1 DEF Surplus
  <2>3. Funded'
      BY <1>6, <2>1, <2>2, HeldByEmpty DEF Funded
  <2>4. Surplus(saved)' >= 0
      BY <1>5, <1>6, <1>7, <2>2 DEF PoolInv
  <2>5. StateTypeOK(saved)' /\ LogSpendsOnce(saved)'
      BY <2>1 DEF StateTypeOK, LogSpendsOnce, WithdrawalsIn
  <2>6. QED BY <1>2, <1>3, <2>3, <2>4, <2>5 DEF PoolInv
<1>9. CASE Len(stack) # 1
  <2>1. saved' = saved
      BY <1>1, <1>9
  <2>2. Surplus(saved)' = Surplus(saved)
      BY <2>1 DEF Surplus
  <2>3. Funded'
      BY <1>5, <1>7, <2>2 DEF Funded
  <2>4. StateTypeOK(saved)' /\ LogSpendsOnce(saved)'
      BY <2>1 DEF PoolInv, StateTypeOK, LogSpendsOnce, WithdrawalsIn
  <2>5. QED BY <1>2, <1>3, <2>2, <2>3, <2>4 DEF PoolInv
<1>10. QED BY <1>8, <1>9

LEMMA DepositPreserves ==
    ASSUME PoolInv, NEW caller \in User, NEW commitment \in Leaf, deposit(caller, commitment)
    PROVE  PoolInv'
<1> DEFINE call == Calling(caller, Pool, DENOMINATION, "insert", [commitment |-> commitment])
<1>1. Enter(call) /\ contract' = contract /\ log' = log /\ nullifiers' = nullifiers
    BY DEF deposit, contract, treeVars
<1>2. call \in Call /\ call.then = "insert" /\ ~call.moved
    BY PoolAssumption DEF Calling, Call, DepositCall
<1>3. Held(call) = 0
    BY <1>2 DEF Held
<1> HIDE DEF call
<1>4. StateTypeOK(contract)' /\ LogSpendsOnce(contract)'
    BY <1>1 DEF PoolInv, StateTypeOK, LogSpendsOnce, WithdrawalsIn
<1>5. CallsSpendOnce'
  <2>1. stack' = Append(stack, call) /\ stack \in Seq(Call)
      BY <1>1 DEF Enter, PoolInv
  <2>2. /\ DOMAIN stack' = 1 .. Len(stack) + 1
        /\ stack'[Len(stack) + 1] = call
        /\ \A i \in 1 .. Len(stack) : stack'[i] = stack[i]
        /\ DOMAIN stack = 1 .. Len(stack)
      BY <2>1
  <2>3. \A i \in DOMAIN stack' : stack'[i].then # "insert" => i \in DOMAIN stack
      BY <1>2, <2>2
  <2>4. Withdrawals' = Withdrawals
      BY <1>1 DEF Withdrawals
  <2>5. QED BY <1>1, <2>2, <2>3, <2>4 DEF PoolInv, CallsSpendOnce
<1>6. Surplus(contract)' >= Surplus(contract) + Held(call)
  <2>1. Surplus(contract)' = Surplus(contract) /\ Surplus(contract) \in Int
      BY <1>1, SurplusType DEF Surplus, PoolInv
  <2>2. QED BY <1>3, <2>1
<1>7. QED BY <1>1, <1>2, <1>4, <1>5, <1>6, EnterPreserves

LEMMA WithdrawPreserves ==
    ASSUME PoolInv, NEW wellFormed, NEW root, NEW nullifier_hash \in Nullifier,
           NEW recipient \in Account, NEW relayer \in Account, NEW fee \in Fee,
           withdraw(wellFormed, root, nullifier_hash, recipient, relayer, fee)
    PROVE  PoolInv'
<1> DEFINE call == Calling(Pool, recipient, DENOMINATION - fee, "pay_relayer",
                           [to |-> recipient, nullifier_hash |-> nullifier_hash,
                            relayer |-> relayer, fee |-> fee])
<1>1. /\ Enter(call)
      /\ nullifier_hash \notin nullifiers
      /\ DENOMINATION > fee
      /\ nullifiers' = nullifiers \cup {nullifier_hash}
      /\ UNCHANGED <<treeVars, balance, log>>
    BY DEF withdraw, Unspent, RecipientShare
<1>2. fee \in Nat /\ DENOMINATION \in Nat /\ DENOMINATION - fee \in Nat
    BY <1>1, PoolAssumption
<1>3. call \in WithdrawCall
    BY <1>2, PoolAssumption DEF Calling, WithdrawCall, Account
<1>4. /\ call.then = "pay_relayer"
      /\ ~call.moved
      /\ call.amount = DENOMINATION - fee
      /\ call.args.fee = fee
      /\ call.args.nullifier_hash = nullifier_hash
    BY DEF Calling
<1> HIDE DEF call
<1>5. Held(call) = DENOMINATION /\ call.amount + call.args.fee = DENOMINATION
    BY <1>2, <1>4 DEF Held
<1>6. /\ IsFiniteSet(nullifiers) /\ IsFiniteSet(nullifiers')
      /\ Cardinality(nullifiers') = Cardinality(nullifiers) + 1
      /\ Cardinality(nullifiers) \in Nat
  <2>1. IsFiniteSet(nullifiers)
      BY DEF PoolInv, StateTypeOK, contract
  <2>2. QED BY <1>1, <2>1, FS_AddElement, FS_CardinalityType
<1>7. StateTypeOK(contract)'
    BY <1>1, <1>6 DEF PoolInv, StateTypeOK, contract, treeVars
<1>8. LogSpendsOnce(contract)'
    BY <1>1 DEF PoolInv, LogSpendsOnce, WithdrawalsIn, contract, treeVars
<1>9. CallsSpendOnce'
  <2>1. stack' = Append(stack, call) /\ stack \in Seq(Call)
      BY <1>1 DEF Enter, PoolInv
  <2>2. /\ DOMAIN stack' = 1 .. Len(stack) + 1
        /\ stack'[Len(stack) + 1] = call
        /\ \A i \in 1 .. Len(stack) : stack'[i] = stack[i]
        /\ DOMAIN stack = 1 .. Len(stack)
      BY <2>1
  <2>3. Withdrawals' = Withdrawals /\ log' = log
      BY <1>1 DEF Withdrawals
  <2>4. \A j \in Withdrawals : log[j].nullifier_hash # nullifier_hash
      BY <1>1 DEF PoolInv, LogSpendsOnce, WithdrawalsIn, Withdrawals, contract
  <2>5. \A j \in DOMAIN stack :
            stack[j].then # "insert" => stack[j].args.nullifier_hash # nullifier_hash
      BY <1>1 DEF PoolInv, CallsSpendOnce
  <2>6. QED BY <1>1, <1>4, <2>2, <2>3, <2>4, <2>5 DEF PoolInv, CallsSpendOnce
<1>10. Surplus(contract)' >= Surplus(contract) + Held(call)
  <2>1. /\ Surplus(contract) = balance[Pool] - DENOMINATION * (next_index - Cardinality(nullifiers))
        /\ Surplus(contract)' = balance[Pool] - DENOMINATION * (next_index - Cardinality(nullifiers'))
      BY <1>1 DEF Surplus, contract, treeVars
  <2>2. next_index \in Nat /\ balance[Pool] \in Nat
      BY SizeAssumption DEF PoolInv, StateTypeOK, contract, Account
  <2>3. next_index - Cardinality(nullifiers') = (next_index - Cardinality(nullifiers)) - 1
      BY <1>6, <2>2
  <2>4. \A k \in Int : DENOMINATION * (k - 1) = DENOMINATION * k - DENOMINATION
      BY <1>2
  <2>5. DENOMINATION * (next_index - Cardinality(nullifiers')) =
        DENOMINATION * (next_index - Cardinality(nullifiers)) - DENOMINATION
      BY <1>6, <2>2, <2>3, <2>4
  <2>6. DENOMINATION * (next_index - Cardinality(nullifiers)) \in Int
      BY <1>2, <1>6, <2>2
  <2>7. QED BY <1>2, <1>5, <2>1, <2>2, <2>5, <2>6
<1>11. QED BY <1>1, <1>3, <1>4, <1>5, <1>7, <1>8, <1>9, <1>10, EnterPreserves DEF Call

\* The calls that remain when the innermost one returns.
LEMMA BelowSpendOnce ==
    ASSUME PoolInv, stack # <<>>, stack' = Below, nullifiers' = nullifiers,
           \A i \in Withdrawals' \ Withdrawals :
               /\ Top.then # "insert"
               /\ log'[i].nullifier_hash = Top.args.nullifier_hash,
           \A i \in Withdrawals' \cap Withdrawals : log'[i] = log[i]
    PROVE  CallsSpendOnce'
<1>1. /\ Len(stack) \in Nat \ {0}
      /\ stack' \in Seq(Call)
      /\ Len(stack') = Len(stack) - 1
      /\ \A i \in 1 .. Len(stack) - 1 : stack'[i] = stack[i]
    BY StackFacts DEF PoolInv
<1>2. DOMAIN stack' = 1 .. Len(stack) - 1 /\ DOMAIN stack = 1 .. Len(stack)
    BY <1>1 DEF PoolInv
<1>3. ASSUME NEW i \in DOMAIN stack', stack'[i].then # "insert"
      PROVE  /\ stack'[i].args.nullifier_hash \in nullifiers'
             /\ \A j \in DOMAIN stack' :
                    stack'[j].then # "insert"
                      /\ stack'[j].args.nullifier_hash = stack'[i].args.nullifier_hash => i = j
  <2>1. \A j \in DOMAIN stack' : j \in DOMAIN stack /\ stack'[j] = stack[j]
      BY <1>1, <1>2
  <2>2. QED BY <1>3, <2>1 DEF PoolInv, CallsSpendOnce
<1>4. ASSUME NEW i \in DOMAIN stack', stack'[i].then # "insert", NEW j \in Withdrawals'
      PROVE  log'[j].nullifier_hash # stack'[i].args.nullifier_hash
  <2>1. i \in DOMAIN stack /\ stack'[i] = stack[i] /\ i # Len(stack) /\ Len(stack) \in DOMAIN stack
      BY <1>1, <1>2
  <2>2. CASE j \in Withdrawals
      BY <1>4, <2>1, <2>2 DEF PoolInv, CallsSpendOnce
  <2>3. CASE j \notin Withdrawals
      BY <1>4, <2>1, <2>3 DEF PoolInv, CallsSpendOnce, Top
  <2>4. QED BY <2>2, <2>3
<1>5. QED BY <1>3, <1>4 DEF CallsSpendOnce

\* A deposit's leaf takes over the denomination the deposit brought in.
LEMMA InsertSurplus ==
    ASSUME PoolInv, deposit_insert
    PROVE  Surplus(contract)' >= Surplus(contract) - Held(Top)
<1>1. /\ Top.then = "insert" /\ Top.moved
      /\ insert(Top.args.commitment)
      /\ UNCHANGED <<nullifiers, balance>>
    BY DEF deposit_insert, Returned
<1>2. Held(Top) = DENOMINATION
    BY <1>1 DEF Held
<1>3. next_index' = next_index + 1
    BY <1>1 DEF insert
<1>4. next_index \in Nat
    BY SizeAssumption DEF PoolInv, StateTypeOK, contract
<1>5. /\ Surplus(contract) = balance[Pool] - DENOMINATION * (next_index - Cardinality(nullifiers))
      /\ Surplus(contract)' = balance[Pool] - DENOMINATION * (next_index' - Cardinality(nullifiers))
    BY <1>1 DEF Surplus, contract
<1>6. balance[Pool] \in Nat /\ Cardinality(nullifiers) \in Nat
    BY FS_CardinalityType DEF PoolInv, StateTypeOK, contract, Account
<1>7. next_index' - Cardinality(nullifiers) = (next_index - Cardinality(nullifiers)) + 1
    BY <1>3, <1>4, <1>6
<1>8. \A k \in Int : DENOMINATION * (k + 1) = DENOMINATION * k + DENOMINATION
    BY PoolAssumption
<1>9. DENOMINATION * (next_index' - Cardinality(nullifiers)) =
      DENOMINATION * (next_index - Cardinality(nullifiers)) + DENOMINATION
    BY <1>4, <1>6, <1>7, <1>8
<1>10. DENOMINATION * (next_index - Cardinality(nullifiers)) \in Int
    BY <1>4, <1>6, PoolAssumption
<1>11. QED BY <1>2, <1>5, <1>6, <1>9, <1>10, PoolAssumption

LEMMA InsertPreserves ==
    ASSUME PoolInv, deposit_insert
    PROVE  PoolInv'
<1> DEFINE commitment == Top.args.commitment
           event == [event |-> "Deposit", commitment |-> commitment, leaf_index |-> next_index' - 1]
<1>1. /\ stack # <<>> /\ Top.then = "insert" /\ Top.moved
      /\ insert(commitment)
      /\ log' = Append(log, event)
      /\ UNCHANGED <<nullifiers, balance>>
      /\ Leave
    BY DEF deposit_insert, Returned, DepositEvent
<1>2. Top \in Call
    BY <1>1, StackFacts DEF PoolInv
<1>3. Top \in DepositCall
    BY <1>1, <1>2 DEF Call, WithdrawCall
<1>4. commitment \in Leaf
    BY <1>3 DEF DepositCall
<1>5. Held(Top) = DENOMINATION
    BY <1>1 DEF Held
<1>6. TreeTypeOK /\ \E S : events \in Seq(S)
    BY DEF PoolInv, StateTypeOK, contract, TreeTypeOK
<1>7. TreeTypeOK' /\ next_index' = next_index + 1 /\ \E S : events' \in Seq(S)
    BY <1>1, <1>6, InsertTypeOK
<1>8. next_index \in Nat
    BY <1>6, SizeAssumption DEF TreeTypeOK
<1>9. event \in PoolEvent /\ event.event = "Deposit"
    BY <1>4, <1>7, <1>8 DEF PoolEvent
<1> HIDE DEF event, commitment
<1>10. log \in Seq(PoolEvent)
    BY DEF PoolInv, StateTypeOK, contract
<1>11. /\ log' \in Seq(PoolEvent)
       /\ DOMAIN log' = 1 .. Len(log) + 1 /\ DOMAIN log = 1 .. Len(log)
       /\ log'[Len(log) + 1] = event
       /\ \A i \in 1 .. Len(log) : log'[i] = log[i]
    BY <1>1, <1>9, <1>10
<1>12. Withdrawals' = Withdrawals /\ \A i \in Withdrawals : log'[i] = log[i]
  <2>1. \A i \in DOMAIN log' : i = Len(log) + 1 \/ i \in DOMAIN log
      BY <1>11
  <2>2. \A i \in DOMAIN log : i \in DOMAIN log' /\ log'[i] = log[i]
      BY <1>11
  <2>3. log'[Len(log) + 1].event # "Withdraw"
      BY <1>9, <1>11
  <2>4. QED BY <2>1, <2>2, <2>3 DEF Withdrawals
<1>13. StateTypeOK(contract)'
    BY <1>1, <1>7, <1>11 DEF PoolInv, StateTypeOK, contract, TreeTypeOK
<1>14. LogSpendsOnce(contract)'
    BY <1>1, <1>12 DEF PoolInv, LogSpendsOnce, WithdrawalsIn, Withdrawals, contract
<1>15. CallsSpendOnce'
    BY <1>1, <1>12, BelowSpendOnce DEF Leave
<1>16. Surplus(contract)' >= Surplus(contract) - Held(Top)
    BY InsertSurplus
<1>17. QED BY <1>1, <1>13, <1>14, <1>15, <1>16, LeavePreserves

LEMMA EmitSurplus ==
    ASSUME PoolInv, withdraw_emit
    PROVE  Surplus(contract)' >= Surplus(contract) - Held(Top)
<1>1. /\ Top.moved
      /\ Top.then = "emit" \/ (Top.then = "pay_relayer" /\ Top.args.fee = 0)
      /\ UNCHANGED <<treeVars, nullifiers, balance>>
    BY DEF withdraw_emit, Returned
<1>2. Held(Top) = 0
    BY <1>1 DEF Held
<1>3. Surplus(contract)' = Surplus(contract) /\ Surplus(contract) \in Int
    BY <1>1, SurplusType DEF Surplus, PoolInv, contract, treeVars
<1>4. QED BY <1>2, <1>3

LEMMA EmitPreserves ==
    ASSUME PoolInv, withdraw_emit
    PROVE  PoolInv'
<1> DEFINE args == Top.args
           event == [event |-> "Withdraw", to |-> args.to, nullifier_hash |-> args.nullifier_hash,
                     relayer |-> args.relayer, fee |-> args.fee]
<1>1. /\ stack # <<>> /\ Top.moved
      /\ Top.then = "emit" \/ (Top.then = "pay_relayer" /\ Top.args.fee = 0)
      /\ log' = Append(log, event)
      /\ UNCHANGED <<treeVars, nullifiers, balance>>
      /\ Leave
    BY DEF withdraw_emit, Returned
<1>2. Top \in Call /\ Len(stack) \in DOMAIN stack
    BY <1>1, StackFacts DEF PoolInv
<1>3. Top \in WithdrawCall
    BY <1>1, <1>2 DEF Call, DepositCall
<1>4. Held(Top) = 0
    BY <1>1 DEF Held
<1>5. event \in PoolEvent /\ event.event = "Withdraw" /\ event.nullifier_hash = args.nullifier_hash
    BY <1>3 DEF PoolEvent, WithdrawCall
<1> HIDE DEF event
<1>6. /\ args.nullifier_hash \in nullifiers
      /\ \A j \in Withdrawals : log[j].nullifier_hash # args.nullifier_hash
    BY <1>1, <1>2 DEF PoolInv, CallsSpendOnce, Top
<1>7. log \in Seq(PoolEvent)
    BY DEF PoolInv, StateTypeOK, contract
<1>8. /\ log' \in Seq(PoolEvent)
      /\ DOMAIN log' = 1 .. Len(log) + 1 /\ DOMAIN log = 1 .. Len(log)
      /\ log'[Len(log) + 1] = event
      /\ \A i \in 1 .. Len(log) : log'[i] = log[i]
    BY <1>1, <1>5, <1>7
<1>9. /\ Withdrawals' = Withdrawals \cup {Len(log) + 1}
      /\ \A i \in Withdrawals : log'[i] = log[i]
      /\ Len(log) + 1 \notin Withdrawals
  <2>1. \A i \in DOMAIN log' : i = Len(log) + 1 \/ i \in DOMAIN log
      BY <1>8
  <2>2. \A i \in DOMAIN log : i \in DOMAIN log' /\ log'[i] = log[i]
      BY <1>8
  <2>3. Len(log) + 1 \in DOMAIN log' /\ Len(log) + 1 \notin DOMAIN log
      BY <1>7, <1>8
  <2>4. log'[Len(log) + 1].event = "Withdraw"
      BY <1>5, <1>8
  <2>5. QED BY <2>1, <2>2, <2>3, <2>4 DEF Withdrawals
<1>10. StateTypeOK(contract)'
    BY <1>1, <1>8 DEF PoolInv, StateTypeOK, contract, treeVars
<1>11. LogSpendsOnce(contract)'
  <2>1. /\ WithdrawalsIn(contract) = Withdrawals
        /\ WithdrawalsIn(contract)' = Withdrawals'
        /\ contract.log = log /\ contract.nullifiers = nullifiers
        /\ contract'.log = log' /\ contract'.nullifiers = nullifiers'
      BY DEF WithdrawalsIn, Withdrawals, contract
  <2>2. log'[Len(log) + 1].nullifier_hash = args.nullifier_hash
      BY <1>5, <1>8
  <2>3. \A i \in Withdrawals' : log'[i].nullifier_hash \in nullifiers'
      BY <1>1, <1>6, <1>9, <2>1, <2>2 DEF PoolInv, LogSpendsOnce
  <2>4. ASSUME NEW i \in Withdrawals', NEW j \in Withdrawals',
               log'[i].nullifier_hash = log'[j].nullifier_hash
        PROVE  i = j
    <3>1. CASE i \in Withdrawals /\ j \in Withdrawals
        BY <1>9, <2>1, <2>4, <3>1 DEF PoolInv, LogSpendsOnce
    <3>2. CASE i \notin Withdrawals \/ j \notin Withdrawals
        BY <1>6, <1>9, <2>2, <2>4, <3>2
    <3>3. QED BY <3>1, <3>2
  <2>5. QED BY <2>1, <2>3, <2>4 DEF LogSpendsOnce
<1>12. CallsSpendOnce'
  <2>1. \A i \in Withdrawals' \ Withdrawals :
            Top.then # "insert" /\ log'[i].nullifier_hash = Top.args.nullifier_hash
      BY <1>1, <1>5, <1>8, <1>9
  <2>2. \A i \in Withdrawals' \cap Withdrawals : log'[i] = log[i]
      BY <1>9
  <2>3. QED BY <1>1, <2>1, <2>2, BelowSpendOnce DEF Leave
<1>13. Surplus(contract)' >= Surplus(contract) - Held(Top)
    BY EmitSurplus
<1>14. QED BY <1>1, <1>10, <1>11, <1>12, <1>13, LeavePreserves

\* The innermost call goes on to its next token call, or its tokens move.
LEMMA SetTopPreserves ==
    ASSUME PoolInv, stack # <<>>, NEW call \in Call, stack' = SetTop(call),
           UNCHANGED <<log, nullifiers, saved>>,
           StateTypeOK(contract)',
           call.then = "insert" <=> Top.then = "insert",
           call.args = Top.args,
           call.then = "pay_relayer" => call.amount + call.args.fee = DENOMINATION,
           call.then = "emit" => call.amount = call.args.fee,
           Surplus(contract)' >= Surplus(contract) - Held(Top) + Held(call)
    PROVE  PoolInv'
<1>1. /\ Len(stack) \in Nat \ {0}
      /\ Top \in Call
      /\ Below \in Seq(Call)
      /\ Len(Below) = Len(stack) - 1
      /\ \A i \in 1 .. Len(stack) - 1 : Below[i] = stack[i]
    BY StackFacts DEF PoolInv
<1>2. /\ stack' \in Seq(Call)
      /\ DOMAIN stack' = 1 .. Len(stack) /\ DOMAIN stack = 1 .. Len(stack)
      /\ stack'[Len(stack)] = call
      /\ \A i \in 1 .. Len(stack) - 1 : stack'[i] = Below[i]
    BY <1>1 DEF SetTop, PoolInv
<1>3. /\ DOMAIN stack' = DOMAIN stack
      /\ \A i \in DOMAIN stack : i # Len(stack) => stack'[i] = stack[i]
    BY <1>1, <1>2
<1>4. /\ stack'[Len(stack)].then = "insert" <=> stack[Len(stack)].then = "insert"
      /\ stack'[Len(stack)].args = stack[Len(stack)].args
    BY <1>2 DEF Top
<1>5. AmountsOK(stack')
    BY <1>2, <1>3 DEF PoolInv, AmountsOK
<1>6. CallsSpendOnce'
  <2>1. Withdrawals' = Withdrawals
      BY DEF Withdrawals
  <2>2. \A i \in DOMAIN stack :
            /\ stack'[i].then = "insert" <=> stack[i].then = "insert"
            /\ stack'[i].args = stack[i].args
      BY <1>3, <1>4
  <2>3. QED BY <1>3, <2>1, <2>2 DEF PoolInv, CallsSpendOnce
<1>7. PICK total \in Nat : HeldBy(stack, total) /\ Surplus(contract) >= Surplus(saved) + total
    BY DEF PoolInv, Funded
<1>8. HeldBy(Below, total - Held(Top)) /\ total - Held(Top) \in Nat
    BY <1>1, <1>7, HeldByPop DEF PoolInv, Below, Top
<1>9. Held(Top) \in Nat /\ Held(call) \in Nat
    BY <1>1, HeldType
<1>10. HeldBy(stack', total - Held(Top) + Held(call))
    BY <1>1, <1>8, HeldByPush DEF SetTop
<1>11. Surplus(contract) \in Int /\ Surplus(contract)' \in Int /\ Surplus(saved) \in Int
    BY SurplusType DEF PoolInv
<1>12. Surplus(saved)' = Surplus(saved)
    BY DEF Surplus
<1>13. Surplus(contract)' >= Surplus(saved)' + (total - Held(Top) + Held(call))
    BY <1>7, <1>9, <1>11, <1>12
<1>14. Funded'
    BY <1>8, <1>9, <1>10, <1>13 DEF Funded
<1>15. StateTypeOK(saved)' /\ LogSpendsOnce(saved)'
    BY DEF PoolInv, StateTypeOK, LogSpendsOnce, WithdrawalsIn
<1>16. LogSpendsOnce(contract)'
    BY DEF PoolInv, LogSpendsOnce, WithdrawalsIn, contract
<1>17. QED BY <1>2, <1>5, <1>6, <1>12, <1>14, <1>15, <1>16 DEF PoolInv

LEMMA PayRelayerPreserves ==
    ASSUME PoolInv, withdraw_pay_relayer
    PROVE  PoolInv'
<1> DEFINE call == Calling(Pool, Top.args.relayer, Top.args.fee, "emit", Top.args)
<1>1. /\ stack # <<>> /\ Top.then = "pay_relayer" /\ Top.moved
      /\ stack' = SetTop(call)
      /\ UNCHANGED <<treeVars, nullifiers, balance, log, saved>>
    BY DEF withdraw_pay_relayer, Returned
<1>2. Top \in WithdrawCall
    BY <1>1, StackFacts DEF PoolInv, Call, DepositCall
<1>3. Top.args.fee \in Nat
    BY <1>2, PoolAssumption DEF WithdrawCall
<1>4. call \in WithdrawCall
    BY <1>2, <1>3 DEF WithdrawCall, Calling
<1>5. /\ call.then = "emit" /\ ~call.moved
      /\ call.amount = Top.args.fee /\ call.args = Top.args
    BY DEF Calling
<1> HIDE DEF call
<1>6. Held(Top) = Top.args.fee /\ Held(call) = Top.args.fee
    BY <1>1, <1>3, <1>5 DEF Held
<1>7. StateTypeOK(contract)'
    BY <1>1 DEF PoolInv, StateTypeOK, contract, treeVars
<1>8. Surplus(contract)' = Surplus(contract) /\ Surplus(contract) \in Int
    BY <1>1, SurplusType DEF Surplus, PoolInv, contract, treeVars
<1>9. Surplus(contract)' >= Surplus(contract) - Held(Top) + Held(call)
    BY <1>3, <1>6, <1>8
<1>10. QED BY <1>1, <1>4, <1>5, <1>7, <1>9, SetTopPreserves DEF Call

LEMMA TransferPreserves ==
    ASSUME PoolInv, token_transfer
    PROVE  PoolInv'
<1> DEFINE call == [Top EXCEPT !.moved = TRUE]
<1>1. /\ stack # <<>> /\ ~Top.moved
      /\ balance[Top.from] >= Top.amount
      /\ balance' = Moved(Top.from, Top.to, Top.amount)
      /\ stack' = SetTop(call)
      /\ UNCHANGED <<treeVars, nullifiers, log, saved>>
    BY DEF token_transfer
<1>2. Top \in Call /\ Len(stack) \in DOMAIN stack
    BY <1>1, StackFacts DEF PoolInv
<1>3. balance \in [Account -> Nat] /\ Pool \in Account
    BY DEF PoolInv, StateTypeOK, contract, Account
<1>4. call \in Call /\ call.moved
  <2>1. CASE Top \in DepositCall
      BY <2>1 DEF DepositCall, Call
  <2>2. CASE Top \in WithdrawCall
      BY <2>2 DEF WithdrawCall, Call
  <2>3. QED BY <1>2, <2>1, <2>2 DEF Call
<1>5. call.then = Top.then /\ call.amount = Top.amount /\ call.args = Top.args
  <2>1. CASE Top \in DepositCall
      BY <2>1 DEF DepositCall
  <2>2. CASE Top \in WithdrawCall
      BY <2>2 DEF WithdrawCall
  <2>3. QED BY <1>2, <2>1, <2>2 DEF Call
<1> HIDE DEF call
<1>6. Top.from \in Account /\ Top.to \in Account /\ Top.amount \in Nat
  <2>1. CASE Top \in DepositCall
      BY <2>1, PoolAssumption DEF DepositCall, Account
  <2>2. CASE Top \in WithdrawCall
      BY <2>2 DEF WithdrawCall, Account
  <2>3. QED BY <1>2, <2>1, <2>2 DEF Call
<1>7. balance' \in [Account -> Nat]
    BY <1>1, <1>3, <1>6 DEF Moved
<1>8. balance'[Pool] = balance[Pool] - (IF Pool = Top.from THEN Top.amount ELSE 0)
                                     + (IF Pool = Top.to THEN Top.amount ELSE 0)
    BY <1>1, <1>3 DEF Moved
<1>9. balance'[Pool] >= balance[Pool] - Held(Top) + Held(call)
  <2>1. CASE Top \in DepositCall
    <3>1. Top.then = "insert" /\ Top.amount = DENOMINATION /\ Top.to = Pool /\ Top.from # Pool
        BY <2>1, PoolAssumption DEF DepositCall
    <3>2. Held(Top) = 0 /\ Held(call) = DENOMINATION
        BY <1>1, <1>4, <1>5, <3>1 DEF Held
    <3>3. QED BY <1>3, <1>8, <3>1, <3>2, PoolAssumption
  <2>2. CASE Top \in WithdrawCall
    <3>1. Top.then # "insert" /\ Top.from = Pool /\ Top.args.fee \in Nat
        BY <2>2, PoolAssumption DEF WithdrawCall
    <3>2. Held(Top) = Top.amount + Held(call) /\ Held(call) \in Nat
        BY <1>1, <1>4, <1>5, <1>6, <3>1 DEF Held
    <3>3. balance'[Pool] >= balance[Pool] - Top.amount
        BY <1>3, <1>6, <1>8, <3>1
    <3>4. QED BY <1>3, <1>6, <1>7, <3>2, <3>3
  <2>3. QED BY <1>2, <2>1, <2>2 DEF Call
<1>10. StateTypeOK(contract)'
    BY <1>1, <1>7 DEF PoolInv, StateTypeOK, contract, treeVars
<1>11. Surplus(contract)' >= Surplus(contract) - Held(Top) + Held(call)
  <2> DEFINE notes == DENOMINATION * (next_index - Cardinality(nullifiers))
  <2>1. Surplus(contract) = balance[Pool] - notes /\ Surplus(contract)' = balance'[Pool] - notes
      BY <1>1 DEF Surplus, contract, treeVars
  <2>2. notes \in Int
    <3>1. next_index \in Nat /\ Cardinality(nullifiers) \in Nat
        BY SizeAssumption, FS_CardinalityType DEF PoolInv, StateTypeOK, contract
    <3>2. QED BY <3>1, PoolAssumption
  <2>3. Held(Top) \in Nat /\ Held(call) \in Nat /\ balance[Pool] \in Nat /\ balance'[Pool] \in Nat
      BY <1>2, <1>3, <1>4, <1>7, HeldType
  <2> HIDE DEF notes
  <2>4. QED BY <1>9, <2>1, <2>2, <2>3
<1>12. /\ call.then = "pay_relayer" => call.amount + call.args.fee = DENOMINATION
       /\ call.then = "emit" => call.amount = call.args.fee
    BY <1>2, <1>5 DEF PoolInv, AmountsOK, Top
<1>13. QED BY <1>1, <1>4, <1>5, <1>10, <1>11, <1>12, SetTopPreserves

LEMMA RevertPreserves ==
    ASSUME PoolInv, Revert
    PROVE  PoolInv'
<1>1. /\ saved' = saved /\ stack' = <<>>
      /\ next_index' = saved.next_index /\ filled_subtrees' = saved.filled_subtrees
      /\ roots' = saved.roots /\ current_root_index' = saved.current_root_index
      /\ events' = saved.events /\ nullifiers' = saved.nullifiers
      /\ balance' = saved.balance /\ log' = saved.log
    BY DEF Revert
<1>2. StateTypeOK(contract)' /\ StateTypeOK(saved)'
    BY <1>1 DEF PoolInv, StateTypeOK, contract
<1>3. LogSpendsOnce(contract)' /\ LogSpendsOnce(saved)'
    BY <1>1 DEF PoolInv, LogSpendsOnce, WithdrawalsIn, contract
<1>4. AmountsOK(stack)' /\ CallsSpendOnce' /\ stack' \in Seq(Call)
    BY <1>1 DEF AmountsOK, CallsSpendOnce
<1>5. Surplus(contract)' = Surplus(saved)' /\ Surplus(saved)' = Surplus(saved) /\ Surplus(saved) \in Int
    BY <1>1, SurplusType DEF PoolInv, Surplus, contract
<1>6. Funded'
    BY <1>1, <1>5, HeldByEmpty DEF Funded
<1>7. QED BY <1>2, <1>3, <1>4, <1>5, <1>6 DEF PoolInv

-----------------------------------------------------------------------------

LEMMA PoolInvInvariant == Spec => []PoolInv
<1>1. PoolInv /\ [Next]_vars => PoolInv'
  <2> SUFFICES ASSUME PoolInv, [Next]_vars PROVE PoolInv'
      OBVIOUS
  <2>1. ASSUME NEW caller \in User, NEW commitment \in Leaf, deposit(caller, commitment)
        PROVE  PoolInv'
      BY <2>1, DepositPreserves
  <2>2. ASSUME NEW wellFormed \in BOOLEAN, NEW root \in AnyRoot, NEW nullifier_hash \in Nullifier,
               NEW recipient \in Account, NEW relayer \in Account, NEW fee \in Fee,
               withdraw(wellFormed, root, nullifier_hash, recipient, relayer, fee)
        PROVE  PoolInv'
      BY <2>2, WithdrawPreserves
  <2>3. CASE deposit_insert
      BY <2>3, InsertPreserves
  <2>4. CASE withdraw_pay_relayer
      BY <2>4, PayRelayerPreserves
  <2>5. CASE withdraw_emit
      BY <2>5, EmitPreserves
  <2>6. CASE token_transfer
      BY <2>6, TransferPreserves
  <2>7. CASE Revert
      BY <2>7, RevertPreserves
  <2>8. CASE UNCHANGED vars
    <3>1. contract' = contract /\ saved' = saved /\ stack' = stack /\ log' = log
          /\ nullifiers' = nullifiers
        BY <2>8 DEF vars, treeVars, contract
    <3>2. QED BY <3>1 DEF PoolInv, StateTypeOK, LogSpendsOnce, WithdrawalsIn, AmountsOK,
                          CallsSpendOnce, Withdrawals, Surplus, Funded
  <2>9. QED BY <2>1, <2>2, <2>3, <2>4, <2>5, <2>6, <2>7, <2>8 DEF Next
<1>2. QED BY InitPoolInv, <1>1, PTL DEF Spec

\* The types of GhostPool: no balance is ever negative, and every call in
\* progress is one that deposit or withdraw makes.
THEOREM PoolTypeCorrect == Spec => []PoolTypeOK
<1>1. PoolInv => PoolTypeOK
    BY DEF PoolInv, StateTypeOK, contract, PoolTypeOK, TreeTypeOK, Call
<1>2. QED BY PoolInvInvariant, <1>1, PTL

\* No nullifier is paid for twice, however deep the token nests its calls.
THEOREM NoDoubleSpendCorrect == Spec => []NoDoubleSpend
<1>1. PoolInv => NoDoubleSpend
    BY DEF PoolInv, LogSpendsOnce, WithdrawalsIn, contract, NoDoubleSpend, Withdrawals
<1>2. QED BY PoolInvInvariant, <1>1, PTL

-----------------------------------------------------------------------------
(***************************************************************************)
(* Sums of sequences.                                                      *)
(***************************************************************************)

\* sum is the partial sums of numbers, up to n.
SumsUpTo(sum, numbers, n) ==
    sum = [i \in 0 .. n |-> IF i = 0 THEN 0 ELSE sum[i - 1] + numbers[i]]

LEMMA SumsExist ==
    ASSUME NEW numbers, NEW N \in Nat
    PROVE  \E sum : SumsUpTo(sum, numbers, N)
<1> DEFINE S == {n \in Nat : \E sum : SumsUpTo(sum, numbers, n)}
<1>1. 0 \in S
  <2>1. SumsUpTo([i \in 0 .. 0 |-> 0], numbers, 0)
      BY DEF SumsUpTo
  <2>2. QED BY <2>1
<1>2. ASSUME NEW n \in Nat, n \in S PROVE n + 1 \in S
  <2>1. PICK g : SumsUpTo(g, numbers, n)
      BY <1>2
  <2> DEFINE h == [i \in 0 .. n + 1 |-> IF i = n + 1 THEN g[n] + numbers[n + 1] ELSE g[i]]
  <2>2. \A i \in 0 .. n : g[i] = IF i = 0 THEN 0 ELSE g[i - 1] + numbers[i]
      BY <2>1 DEF SumsUpTo
  <2>3. \A i \in 0 .. n + 1 : h[i] = IF i = 0 THEN 0 ELSE h[i - 1] + numbers[i]
    <3> TAKE i \in 0 .. n + 1
    <3>1. CASE i = n + 1
      <4>1. i # 0 /\ i - 1 = n /\ h[n] = g[n] /\ h[i] = g[n] + numbers[n + 1]
          BY <3>1
      <4>2. QED BY <3>1, <4>1
    <3>2. CASE i # n + 1
      <4>1. i \in 0 .. n /\ h[i] = g[i] /\ (i # 0 => h[i - 1] = g[i - 1])
          BY <3>2
      <4>2. QED BY <2>2, <4>1
    <3>3. QED BY <3>1, <3>2
  <2>4. h = [i \in 0 .. n + 1 |-> h[i]]
      OBVIOUS
  <2> HIDE DEF h
  <2>5. SumsUpTo(h, numbers, n + 1)
      BY <2>3, <2>4 DEF SumsUpTo
  <2>6. QED BY <2>5
<1> HIDE DEF S
<1>3. N \in S
    BY <1>1, <1>2, SetInduction
<1>4. QED BY <1>3 DEF S

\* Total in terms of any partial sums.
LEMMA TotalIsSum ==
    ASSUME NEW numbers, Len(numbers) \in Nat
    PROVE  \E sum : /\ SumsUpTo(sum, numbers, Len(numbers))
                    /\ Total(numbers) = sum[Len(numbers)]
<1> DEFINE sum == CHOOSE g : g = [n \in 0 .. Len(numbers) |->
                                    IF n = 0 THEN 0 ELSE g[n - 1] + numbers[n]]
<1>1. \E g : SumsUpTo(g, numbers, Len(numbers))
    BY SumsExist
<1>2. SumsUpTo(sum, numbers, Len(numbers))
    BY <1>1 DEF SumsUpTo
<1>3. Total(numbers) = sum[Len(numbers)]
    BY DEF Total
<1>4. QED BY <1>2, <1>3

\* A sequence with one more element, entry by entry.
LEMMA AppendEntries ==
    ASSUME NEW S, NEW s \in Seq(S), NEW x \in S, NEW n, n = Len(s)
    PROVE  Append(s, x) = [i \in 1 .. n + 1 |-> IF i = n + 1 THEN x ELSE s[i]]
<1> DEFINE t == Append(s, x)
           u == [i \in 1 .. n + 1 |-> IF i = n + 1 THEN x ELSE s[i]]
<1>1. /\ t \in Seq(S) /\ Len(t) = n + 1 /\ n \in Nat
      /\ t[n + 1] = x
      /\ \A i \in 1 .. n : t[i] = s[i]
    OBVIOUS
<1>2. u \in Seq(S) /\ Len(u) = n + 1
  <2>1. \A i \in 1 .. n + 1 : (IF i = n + 1 THEN x ELSE s[i]) \in S
      BY <1>1
  <2>2. QED BY <1>1, <2>1
<1> HIDE DEF t
<1>3. \A i \in 1 .. n + 1 : t[i] = u[i]
    BY <1>1
<1> HIDE DEF u
<1>4. t = u
    BY <1>1, <1>2, <1>3, SeqEqual
<1>5. QED BY <1>4 DEF t, u

LEMMA TotalEmpty == Total(<<>>) = 0
<1>1. Len(<<>>) = 0
    OBVIOUS
<1>2. PICK sum : SumsUpTo(sum, <<>>, 0) /\ Total(<<>>) = sum[0]
    BY <1>1, TotalIsSum
<1>3. QED BY <1>2 DEF SumsUpTo

\* One more number.
LEMMA TotalAppend ==
    ASSUME NEW numbers \in Seq(Int), NEW x \in Int
    PROVE  Total(numbers) \in Int /\ Total(Append(numbers, x)) = Total(numbers) + x
<1> DEFINE n == Len(numbers)
           more == Append(numbers, x)
<1>1. n \in Nat /\ Len(more) = n + 1 /\ more[n + 1] = x /\ \A i \in 1 .. n : more[i] = numbers[i]
    OBVIOUS
<1>2. PICK s : SumsUpTo(s, numbers, n) /\ Total(numbers) = s[n]
    BY <1>1, TotalIsSum
<1>3. PICK t : SumsUpTo(t, more, Len(more)) /\ Total(more) = t[Len(more)]
  <2>1. Len(more) \in Nat
      BY <1>1
  <2> HIDE DEF more
  <2>2. QED BY <2>1, TotalIsSum
<1>4. \A i \in 1 .. n : numbers[i] \in Int
    OBVIOUS
<1> HIDE DEF n, more
<1>5. /\ s[0] = 0 /\ t[0] = 0
      /\ \A i \in 1 .. n : s[i] = s[i - 1] + numbers[i]
      /\ \A i \in 1 .. n + 1 : t[i] = t[i - 1] + more[i]
  <2>1. \A i \in 0 .. n : s[i] = IF i = 0 THEN 0 ELSE s[i - 1] + numbers[i]
      BY <1>2 DEF SumsUpTo
  <2>2. \A i \in 0 .. n + 1 : t[i] = IF i = 0 THEN 0 ELSE t[i - 1] + more[i]
      BY <1>1, <1>3 DEF SumsUpTo
  <2>3. 0 \in 0 .. n /\ 0 \in 0 .. n + 1
      BY <1>1
  <2>4. QED BY <1>1, <2>1, <2>2, <2>3
<1> DEFINE S == {i \in 0 .. n : s[i] \in Int /\ t[i] = s[i]}
<1>6. 0 \in S
    BY <1>1, <1>5
<1>7. ASSUME NEW i \in 0 .. n - 1, i \in S PROVE i + 1 \in S
  <2>1. i + 1 \in 1 .. n /\ i + 1 \in 1 .. n + 1 /\ (i + 1) - 1 = i /\ i + 1 \in 0 .. n
      BY <1>1
  <2>2. s[i + 1] = s[i] + numbers[i + 1] /\ t[i + 1] = t[i] + more[i + 1]
      BY <1>5, <2>1
  <2>3. more[i + 1] = numbers[i + 1] /\ numbers[i + 1] \in Int
      BY <1>1, <1>4, <2>1
  <2>4. QED BY <1>7, <2>1, <2>2, <2>3
<1> HIDE DEF S
<1>8. 0 .. n \subseteq S
    BY <1>1, <1>6, <1>7, IntervalInduction
<1>9. s[n] \in Int /\ t[n] = s[n]
    BY <1>1, <1>8 DEF S
<1>10. t[n + 1] = t[n] + x
  <2>1. n + 1 \in 1 .. n + 1 /\ (n + 1) - 1 = n
      BY <1>1
  <2>2. QED BY <1>1, <1>5, <2>1
<1>11. QED BY <1>1, <1>2, <1>3, <1>9, <1>10 DEF more

-----------------------------------------------------------------------------
(***************************************************************************)
(* The books: the balance is, at every moment, what the events say plus    *)
(* what the calls in progress have moved so far.                           *)
(***************************************************************************)

PaidSeq(l) == [i \in DOMAIN l |-> PaidOut(l[i])]

\* What a call in progress has moved into the pool and no event tells yet.
\* Negative for a withdrawal, whose second transfer follows a completed first.
MovedIn(call) ==
    IF call.then = "insert"
    THEN IF call.moved THEN DENOMINATION ELSE 0
    ELSE 0 - (IF call.then = "emit" /\ call.args.to # Pool THEN DENOMINATION - call.args.fee ELSE 0)
           - (IF call.moved /\ call.to # Pool THEN call.amount ELSE 0)

MovedSeq(st) == [i \in DOMAIN st |-> MovedIn(st[i])]

\* How far the pool's balance in state c is from what its events say.
Discrepancy(c) == c.balance[Pool] - (DENOMINATION * c.next_index - Total(PaidSeq(c.log)))

\* Whom a withdrawal in progress is paying.
PayeesOK(st) ==
    \A i \in DOMAIN st :
        /\ st[i].then = "pay_relayer" => st[i].to = st[i].args.to
        /\ st[i].then = "emit" => st[i].to = st[i].args.relayer

BooksInv ==
    /\ PayeesOK(stack)
    /\ Discrepancy(saved) = 0
    /\ Discrepancy(contract) = Total(MovedSeq(stack))

LEMMA PaidOutType ==
    ASSUME NEW e \in PoolEvent
    PROVE  PaidOut(e) \in Int
<1>1. CASE e.event = "Deposit"
    BY <1>1 DEF PaidOut
<1>2. CASE e.event # "Deposit"
  <2>1. e.fee \in Nat
      BY <1>2, PoolAssumption DEF PoolEvent
  <2>2. QED BY <1>2, <2>1, PoolAssumption DEF PaidOut
<1>3. QED BY <1>1, <1>2

LEMMA PaidAppend ==
    ASSUME NEW l \in Seq(PoolEvent), NEW e \in PoolEvent
    PROVE  /\ Total(PaidSeq(l)) \in Int
           /\ PaidOut(e) \in Int
           /\ Total(PaidSeq(Append(l, e))) = Total(PaidSeq(l)) + PaidOut(e)
<1>1. \A i \in 1 .. Len(l) : PaidOut(l[i]) \in Int
    BY PaidOutType
<1>2. PaidSeq(l) \in Seq(Int) /\ Len(PaidSeq(l)) = Len(l)
    BY <1>1 DEF PaidSeq
<1>3. PaidOut(e) \in Int
    BY PaidOutType
<1>4. PaidSeq(Append(l, e)) = Append(PaidSeq(l), PaidOut(e))
  <2>1. /\ DOMAIN Append(l, e) = 1 .. Len(l) + 1
        /\ Append(l, e)[Len(l) + 1] = e
        /\ \A i \in 1 .. Len(l) : Append(l, e)[i] = l[i]
      OBVIOUS
  <2>2. PaidSeq(Append(l, e)) = [i \in 1 .. Len(l) + 1 |-> PaidOut(Append(l, e)[i])]
      BY <2>1 DEF PaidSeq
  <2>3. \A i \in 1 .. Len(l) : PaidSeq(l)[i] = PaidOut(l[i])
      BY DEF PaidSeq
  <2>4. Append(PaidSeq(l), PaidOut(e))
            = [i \in 1 .. Len(l) + 1 |-> IF i = Len(l) + 1 THEN PaidOut(e) ELSE PaidSeq(l)[i]]
      BY <1>2, <1>3, AppendEntries
  <2>5. \A i \in 1 .. Len(l) + 1 :
            PaidOut(Append(l, e)[i]) = IF i = Len(l) + 1 THEN PaidOut(e) ELSE PaidSeq(l)[i]
      BY <2>1, <2>3
  <2>6. QED BY <2>2, <2>4, <2>5
<1>5. QED BY <1>2, <1>3, <1>4, TotalAppend

LEMMA MovedInType ==
    ASSUME NEW call \in Call
    PROVE  MovedIn(call) \in Int
<1>1. CASE call \in DepositCall
  <2>1. call.then = "insert"
      BY <1>1 DEF DepositCall
  <2>2. QED BY <2>1, PoolAssumption DEF MovedIn
<1>2. CASE call \in WithdrawCall
  <2>1. call.then # "insert" /\ call.amount \in Nat /\ call.args.fee \in Nat
      BY <1>2, PoolAssumption DEF WithdrawCall
  <2>2. QED BY <2>1, PoolAssumption DEF MovedIn
<1>3. QED BY <1>1, <1>2 DEF Call

LEMMA MovedPush ==
    ASSUME NEW st \in Seq(Call), NEW call \in Call
    PROVE  /\ Total(MovedSeq(st)) \in Int
           /\ MovedIn(call) \in Int
           /\ Total(MovedSeq(Append(st, call))) = Total(MovedSeq(st)) + MovedIn(call)
<1>1. \A i \in 1 .. Len(st) : MovedIn(st[i]) \in Int
    BY MovedInType
<1>2. MovedSeq(st) \in Seq(Int) /\ Len(MovedSeq(st)) = Len(st)
    BY <1>1 DEF MovedSeq
<1>3. MovedIn(call) \in Int
    BY MovedInType
<1>4. MovedSeq(Append(st, call)) = Append(MovedSeq(st), MovedIn(call))
  <2>1. /\ DOMAIN Append(st, call) = 1 .. Len(st) + 1
        /\ Append(st, call)[Len(st) + 1] = call
        /\ \A i \in 1 .. Len(st) : Append(st, call)[i] = st[i]
      OBVIOUS
  <2>2. MovedSeq(Append(st, call)) = [i \in 1 .. Len(st) + 1 |-> MovedIn(Append(st, call)[i])]
      BY <2>1 DEF MovedSeq
  <2>3. \A i \in 1 .. Len(st) : MovedSeq(st)[i] = MovedIn(st[i])
      BY DEF MovedSeq
  <2>4. Append(MovedSeq(st), MovedIn(call))
            = [i \in 1 .. Len(st) + 1 |-> IF i = Len(st) + 1 THEN MovedIn(call) ELSE MovedSeq(st)[i]]
      BY <1>2, <1>3, AppendEntries
  <2>5. \A i \in 1 .. Len(st) + 1 :
            MovedIn(Append(st, call)[i])
                = IF i = Len(st) + 1 THEN MovedIn(call) ELSE MovedSeq(st)[i]
      BY <2>1, <2>3
  <2>6. QED BY <2>2, <2>4, <2>5
<1>5. QED BY <1>2, <1>3, <1>4, TotalAppend

\* The stack as the calls below the innermost one, and that one.
LEMMA MovedTop ==
    ASSUME stack \in Seq(Call), stack # <<>>
    PROVE  /\ Total(MovedSeq(Below)) \in Int
           /\ MovedIn(Top) \in Int
           /\ Total(MovedSeq(stack)) = Total(MovedSeq(Below)) + MovedIn(Top)
<1>1. /\ Len(stack) \in Nat \ {0}
      /\ Top \in Call
      /\ Below \in Seq(Call)
      /\ Len(Below) = Len(stack) - 1
      /\ \A i \in 1 .. Len(stack) - 1 : Below[i] = stack[i]
    BY StackFacts
<1>2. stack = Append(Below, Top)
  <2>1. /\ Append(Below, Top) \in Seq(Call)
        /\ Len(Append(Below, Top)) = Len(stack)
        /\ Append(Below, Top)[Len(stack)] = Top
        /\ \A i \in 1 .. Len(stack) - 1 : Append(Below, Top)[i] = Below[i]
      BY <1>1
  <2>2. \A i \in 1 .. Len(stack) : stack[i] = Append(Below, Top)[i]
    <3> TAKE i \in 1 .. Len(stack)
    <3>1. CASE i = Len(stack)
        BY <2>1, <3>1 DEF Top
    <3>2. CASE i # Len(stack)
        BY <1>1, <2>1, <3>2
    <3>3. QED BY <3>1, <3>2
  <2>3. QED BY <2>1, <2>2, SeqEqual
<1>3. QED BY <1>1, <1>2, MovedPush, Zenon

LEMMA MovedNone == Total(MovedSeq(<<>>)) = 0
<1>1. MovedSeq(<<>>) = <<>>
    BY DEF MovedSeq
<1>2. QED BY <1>1, TotalEmpty

LEMMA DiscrepancyType ==
    ASSUME NEW c, StateTypeOK(c)
    PROVE  /\ c.balance[Pool] \in Nat /\ c.next_index \in Nat
           /\ DENOMINATION * c.next_index \in Int
           /\ Total(PaidSeq(c.log)) \in Int
           /\ Discrepancy(c) \in Int
<1>1. c.balance[Pool] \in Nat /\ c.next_index \in Nat /\ c.log \in Seq(PoolEvent)
    BY SizeAssumption DEF StateTypeOK, Account
<1>2. DENOMINATION * c.next_index \in Int
    BY <1>1, PoolAssumption
<1>3. Total(PaidSeq(c.log)) \in Int
  <2>1. PaidSeq(c.log) \in Seq(Int)
    <3>1. \A i \in 1 .. Len(c.log) : PaidOut(c.log[i]) \in Int
        BY <1>1, PaidOutType
    <3>2. QED BY <1>1, <3>1 DEF PaidSeq
  <2>2. QED BY <2>1, TotalAppend
<1>4. QED BY <1>1, <1>2, <1>3 DEF Discrepancy

LEMMA InitBooks == constructor => BooksInv
<1> SUFFICES ASSUME constructor PROVE BooksInv
    OBVIOUS
<1>1. log = <<>> /\ stack = <<>> /\ saved = contract /\ next_index = 0 /\ balance[Pool] = 0
    BY PoolAssumption DEF constructor, initialize, Account
<1>2. Total(PaidSeq(<<>>)) = 0
  <2>1. PaidSeq(<<>>) = <<>>
      BY DEF PaidSeq
  <2>2. QED BY <2>1, TotalEmpty
<1>3. Discrepancy(contract) = 0
    BY <1>1, <1>2, PoolAssumption DEF Discrepancy, contract
<1>4. QED BY <1>1, <1>3, MovedNone DEF BooksInv, PayeesOK

\* A call begins.
LEMMA EnterBooks ==
    ASSUME PoolInv, BooksInv, NEW call \in Call, Enter(call), ~call.moved,
           call.then # "emit",
           call.then = "pay_relayer" => call.to = call.args.to,
           UNCHANGED <<treeVars, balance, log>>
    PROVE  BooksInv'
<1>1. stack' = Append(stack, call) /\ saved' = saved /\ stack \in Seq(Call)
    BY DEF Enter, PoolInv
<1>2. PayeesOK(stack')
    BY <1>1 DEF BooksInv, PayeesOK
<1>3. MovedIn(call) = 0
    BY DEF MovedIn
<1>4. Total(MovedSeq(stack')) = Total(MovedSeq(stack))
    BY <1>1, <1>3, MovedPush
<1>5. Discrepancy(contract)' = Discrepancy(contract)
    BY DEF Discrepancy, contract, treeVars
<1>6. Discrepancy(saved)' = Discrepancy(saved)
    BY <1>1 DEF Discrepancy
<1>7. MovedSeq(stack)' = MovedSeq(stack')
    BY DEF MovedSeq, MovedIn
<1>8. QED BY <1>2, <1>4, <1>5, <1>6, <1>7 DEF BooksInv, PayeesOK

\* A call ends, and its event takes over what it has moved.
LEMMA LeaveBooks ==
    ASSUME PoolInv, BooksInv, stack # <<>>, Leave, StateTypeOK(contract)',
           Discrepancy(contract)' = Discrepancy(contract) - MovedIn(Top)
    PROVE  BooksInv'
<1>1. /\ stack' = Below
      /\ saved' = IF Len(stack) = 1 THEN contract' ELSE saved
      /\ stack \in Seq(Call)
    BY DEF Leave, PoolInv
<1>2. /\ Len(stack) \in Nat \ {0}
      /\ stack' \in Seq(Call)
      /\ Len(stack') = Len(stack) - 1
      /\ \A i \in 1 .. Len(stack) - 1 : stack'[i] = stack[i]
    BY <1>1, StackFacts
<1>3. PayeesOK(stack)'
    BY <1>1, <1>2 DEF BooksInv, PayeesOK
<1>4. MovedSeq(stack)' = MovedSeq(Below)
    BY <1>1 DEF MovedSeq, MovedIn
<1>5. Discrepancy(contract)' = Total(MovedSeq(Below))
    BY <1>1, MovedTop DEF BooksInv
<1>6. Discrepancy(contract)' = Total(MovedSeq(stack)')
    BY <1>4, <1>5
<1>7. Discrepancy(saved)' = 0
  <2>1. CASE Len(stack) = 1
    <3>1. Below = <<>>
        BY <1>1, <1>2, <2>1
    <3>2. saved' = contract'
        BY <1>1, <2>1
    <3>3. QED BY <1>5, <3>1, <3>2, MovedNone DEF Discrepancy
  <2>2. CASE Len(stack) # 1
    <3>1. saved' = saved
        BY <1>1, <2>2
    <3>2. QED BY <3>1 DEF BooksInv, Discrepancy
  <2>3. QED BY <2>1, <2>2
<1>8. QED BY <1>3, <1>6, <1>7 DEF BooksInv

\* The innermost call goes on, or its tokens move.
LEMMA SetTopBooks ==
    ASSUME PoolInv, BooksInv, stack # <<>>, NEW call \in Call, stack' = SetTop(call),
           UNCHANGED saved,
           call.then = "pay_relayer" => call.to = call.args.to,
           call.then = "emit" => call.to = call.args.relayer,
           Discrepancy(contract)' = Discrepancy(contract) - MovedIn(Top) + MovedIn(call)
    PROVE  BooksInv'
<1>1. /\ stack \in Seq(Call)
      /\ Len(stack) \in Nat \ {0}
      /\ Below \in Seq(Call)
      /\ Len(Below) = Len(stack) - 1
      /\ \A i \in 1 .. Len(stack) - 1 : Below[i] = stack[i]
    BY StackFacts DEF PoolInv
<1>2. /\ stack' = Append(Below, call)
      /\ DOMAIN stack' = 1 .. Len(stack) /\ DOMAIN stack = 1 .. Len(stack)
      /\ stack'[Len(stack)] = call
      /\ \A i \in 1 .. Len(stack) - 1 : stack'[i] = stack[i]
    BY <1>1 DEF SetTop
<1>3. PayeesOK(stack)'
  <2>1. \A i \in DOMAIN stack' : i = Len(stack) \/ (i \in DOMAIN stack /\ stack'[i] = stack[i])
      BY <1>1, <1>2
  <2>2. QED BY <1>2, <2>1 DEF BooksInv, PayeesOK
<1>4. MovedSeq(stack)' = MovedSeq(Append(Below, call))
    BY <1>2 DEF MovedSeq, MovedIn
<1>5. /\ Total(MovedSeq(stack)) = Total(MovedSeq(Below)) + MovedIn(Top)
      /\ Total(MovedSeq(Below)) \in Int /\ MovedIn(Top) \in Int
    BY <1>1, MovedTop
<1>6. /\ Total(MovedSeq(Append(Below, call))) = Total(MovedSeq(Below)) + MovedIn(call)
      /\ MovedIn(call) \in Int
    BY <1>1, MovedPush
<1>7. Discrepancy(contract)' = Total(MovedSeq(Below)) + MovedIn(call)
    BY <1>5, <1>6 DEF BooksInv
<1>8. Discrepancy(contract)' = Total(MovedSeq(stack)')
    BY <1>4, <1>6, <1>7
<1>9. Discrepancy(saved)' = 0
    BY DEF BooksInv, Discrepancy
<1>10. QED BY <1>3, <1>8, <1>9 DEF BooksInv

LEMMA DepositBooks ==
    ASSUME PoolInv, BooksInv, NEW caller \in User, NEW commitment \in Leaf,
           deposit(caller, commitment)
    PROVE  BooksInv'
<1> DEFINE call == Calling(caller, Pool, DENOMINATION, "insert", [commitment |-> commitment])
<1>1. Enter(call) /\ UNCHANGED <<treeVars, balance, log>>
    BY DEF deposit
<1>2. call \in Call /\ call.then = "insert" /\ ~call.moved
    BY PoolAssumption DEF Calling, Call, DepositCall
<1> HIDE DEF call
<1>3. QED BY <1>1, <1>2, EnterBooks

LEMMA WithdrawBooks ==
    ASSUME PoolInv, BooksInv, NEW wellFormed, NEW root, NEW nullifier_hash \in Nullifier,
           NEW recipient \in Account, NEW relayer \in Account, NEW fee \in Fee,
           withdraw(wellFormed, root, nullifier_hash, recipient, relayer, fee)
    PROVE  BooksInv'
<1> DEFINE call == Calling(Pool, recipient, DENOMINATION - fee, "pay_relayer",
                           [to |-> recipient, nullifier_hash |-> nullifier_hash,
                            relayer |-> relayer, fee |-> fee])
<1>1. Enter(call) /\ DENOMINATION > fee /\ UNCHANGED <<treeVars, balance, log>>
    BY DEF withdraw, RecipientShare
<1>2. DENOMINATION - fee \in Nat
    BY <1>1, PoolAssumption
<1>3. call \in Call
    BY <1>2, PoolAssumption DEF Calling, WithdrawCall, Account, Call
<1>4. call.then = "pay_relayer" /\ ~call.moved /\ call.to = call.args.to
    BY DEF Calling
<1> HIDE DEF call
<1>5. QED BY <1>1, <1>3, <1>4, EnterBooks

LEMMA InsertBooks ==
    ASSUME PoolInv, PoolInv', BooksInv, deposit_insert
    PROVE  BooksInv'
<1> DEFINE event == [event |-> "Deposit", commitment |-> Top.args.commitment,
                     leaf_index |-> next_index' - 1]
<1>1. /\ stack # <<>> /\ Top.then = "insert" /\ Top.moved
      /\ insert(Top.args.commitment)
      /\ log' = Append(log, event)
      /\ balance' = balance
      /\ Leave
    BY DEF deposit_insert, Returned, DepositEvent
<1>2. StateTypeOK(contract) /\ StateTypeOK(contract)'
    BY DEF PoolInv
<1>3. next_index' = next_index + 1
    BY <1>1 DEF insert
<1>4. event \in PoolEvent /\ PaidOut(event) = 0
  <2>1. Top \in DepositCall
      BY <1>1, StackFacts DEF PoolInv, Call, WithdrawCall
  <2>2. next_index \in Nat
      BY <1>2, SizeAssumption DEF StateTypeOK, contract
  <2>3. QED BY <1>3, <2>1, <2>2 DEF PoolEvent, DepositCall, PaidOut
<1> HIDE DEF event
<1>5. Total(PaidSeq(log')) = Total(PaidSeq(log)) /\ Total(PaidSeq(log)) \in Int
  <2>1. log \in Seq(PoolEvent)
      BY <1>2 DEF StateTypeOK, contract
  <2>2. Total(PaidSeq(Append(log, event))) = Total(PaidSeq(log)) + 0 /\ Total(PaidSeq(log)) \in Int
      BY <1>4, <2>1, PaidAppend
  <2>3. QED BY <1>1, <2>2
<1>6. MovedIn(Top) = DENOMINATION
    BY <1>1 DEF MovedIn
<1>7. DENOMINATION * next_index' = DENOMINATION * next_index + DENOMINATION
  <2>1. next_index \in Nat /\ DENOMINATION \in Nat
      BY <1>2, SizeAssumption, PoolAssumption DEF StateTypeOK, contract
  <2>2. QED BY <1>3, <2>1
<1>8. Discrepancy(contract)' = Discrepancy(contract) - MovedIn(Top)
  <2>1. Discrepancy(contract) = balance[Pool] - (DENOMINATION * next_index - Total(PaidSeq(log)))
      BY DEF Discrepancy, contract
  <2>2. Discrepancy(contract)' = balance'[Pool] - (DENOMINATION * next_index' - Total(PaidSeq(log')))
      BY DEF Discrepancy, contract, PaidSeq, PaidOut
  <2>3. balance[Pool] \in Nat /\ DENOMINATION * next_index \in Int
      BY <1>2, DiscrepancyType DEF contract
  <2>4. QED BY <1>1, <1>5, <1>6, <1>7, <2>1, <2>2, <2>3, PoolAssumption
<1>9. QED BY <1>1, <1>2, <1>8, LeaveBooks

LEMMA EmitBooks ==
    ASSUME PoolInv, PoolInv', BooksInv, withdraw_emit
    PROVE  BooksInv'
<1> DEFINE args == Top.args
           event == [event |-> "Withdraw", to |-> args.to, nullifier_hash |-> args.nullifier_hash,
                     relayer |-> args.relayer, fee |-> args.fee]
<1>1. /\ stack # <<>> /\ Top.moved
      /\ Top.then = "emit" \/ (Top.then = "pay_relayer" /\ Top.args.fee = 0)
      /\ log' = Append(log, event)
      /\ UNCHANGED <<treeVars, nullifiers, balance>>
      /\ Leave
    BY DEF withdraw_emit, Returned
<1>2. StateTypeOK(contract) /\ StateTypeOK(contract)'
    BY DEF PoolInv
<1>3. Top \in WithdrawCall /\ Len(stack) \in DOMAIN stack
    BY <1>1, StackFacts DEF PoolInv, Call, DepositCall
<1>4. /\ event \in PoolEvent
      /\ PaidOut(event) = (IF args.to = Pool THEN 0 ELSE DENOMINATION - args.fee)
                        + (IF args.relayer = Pool THEN 0 ELSE args.fee)
    BY <1>3 DEF PoolEvent, WithdrawCall, PaidOut
<1> HIDE DEF event
<1>5. Total(PaidSeq(log')) = Total(PaidSeq(log)) + PaidOut(event)
  <2>1. log \in Seq(PoolEvent)
      BY <1>2 DEF StateTypeOK, contract
  <2>2. QED BY <1>1, <1>4, <2>1, PaidAppend
<1>6. MovedIn(Top) = 0 - PaidOut(event)
  <2>1. Top.args.fee \in Nat /\ DENOMINATION \in Nat
      BY <1>3, PoolAssumption DEF WithdrawCall
  <2>2. CASE Top.then = "emit"
    <3>1. Top.amount = Top.args.fee /\ Top.to = Top.args.relayer
        BY <1>3, <2>2 DEF PoolInv, AmountsOK, BooksInv, PayeesOK, Top
    <3>2. QED BY <1>1, <1>4, <2>1, <2>2, <3>1 DEF MovedIn
  <2>3. CASE Top.then = "pay_relayer" /\ Top.args.fee = 0
    <3>1. Top.amount + 0 = DENOMINATION /\ Top.to = Top.args.to /\ Top.amount \in Nat
        BY <1>3, <2>3 DEF PoolInv, AmountsOK, BooksInv, PayeesOK, Top, WithdrawCall
    <3>2. QED BY <1>1, <1>4, <2>1, <2>3, <3>1 DEF MovedIn
  <2>4. QED BY <1>1, <2>2, <2>3
<1>7. Discrepancy(contract)' = Discrepancy(contract) - MovedIn(Top)
  <2>1. Discrepancy(contract) = balance[Pool] - (DENOMINATION * next_index - Total(PaidSeq(log)))
      BY DEF Discrepancy, contract
  <2>2. Discrepancy(contract)' = balance[Pool] - (DENOMINATION * next_index - Total(PaidSeq(log')))
      BY <1>1 DEF Discrepancy, contract, PaidSeq, PaidOut, treeVars
  <2>3. balance[Pool] \in Nat /\ DENOMINATION * next_index \in Int /\ Total(PaidSeq(log)) \in Int
      BY <1>2, DiscrepancyType DEF contract
  <2>4. PaidOut(event) \in Int
      BY <1>4, PaidOutType
  <2>5. QED BY <1>5, <1>6, <2>1, <2>2, <2>3, <2>4
<1>8. QED BY <1>1, <1>2, <1>7, LeaveBooks

LEMMA PayRelayerBooks ==
    ASSUME PoolInv, BooksInv, withdraw_pay_relayer
    PROVE  BooksInv'
<1> DEFINE call == Calling(Pool, Top.args.relayer, Top.args.fee, "emit", Top.args)
<1>1. /\ stack # <<>> /\ Top.then = "pay_relayer" /\ Top.moved
      /\ stack' = SetTop(call)
      /\ UNCHANGED <<treeVars, nullifiers, balance, log, saved>>
    BY DEF withdraw_pay_relayer, Returned
<1>2. Top \in WithdrawCall /\ Len(stack) \in DOMAIN stack
    BY <1>1, StackFacts DEF PoolInv, Call, DepositCall
<1>3. Top.args.fee \in Nat /\ Top.amount \in Nat /\ DENOMINATION \in Nat
    BY <1>2, PoolAssumption DEF WithdrawCall
<1>4. call \in Call
    BY <1>2, <1>3 DEF WithdrawCall, Calling, Call
<1>5. /\ call.then = "emit" /\ ~call.moved
      /\ call.to = Top.args.relayer /\ call.args = Top.args
    BY DEF Calling
<1> HIDE DEF call
<1>6. MovedIn(call) = MovedIn(Top)
  <2>1. Top.amount + Top.args.fee = DENOMINATION /\ Top.to = Top.args.to
      BY <1>1, <1>2 DEF PoolInv, AmountsOK, BooksInv, PayeesOK, Top
  <2>2. QED BY <1>1, <1>3, <1>5, <2>1 DEF MovedIn
<1>7. Discrepancy(contract)' = Discrepancy(contract)
    BY <1>1 DEF Discrepancy, contract, treeVars
<1>8. Discrepancy(contract) \in Int /\ MovedIn(Top) \in Int
    BY <1>2, DiscrepancyType, MovedInType DEF PoolInv, Call
<1>9. Discrepancy(contract)' = Discrepancy(contract) - MovedIn(Top) + MovedIn(call)
    BY <1>6, <1>7, <1>8
<1>10. QED BY <1>1, <1>4, <1>5, <1>9, SetTopBooks

LEMMA TransferBooks ==
    ASSUME PoolInv, PoolInv', BooksInv, token_transfer
    PROVE  BooksInv'
<1> DEFINE call == [Top EXCEPT !.moved = TRUE]
<1>1. /\ stack # <<>> /\ ~Top.moved
      /\ balance' = Moved(Top.from, Top.to, Top.amount)
      /\ stack' = SetTop(call)
      /\ UNCHANGED <<treeVars, nullifiers, log, saved>>
    BY DEF token_transfer
<1>2. Top \in Call /\ Len(stack) \in DOMAIN stack
    BY <1>1, StackFacts DEF PoolInv
<1>3. /\ call \in Call /\ call.moved
      /\ call.then = Top.then /\ call.amount = Top.amount
      /\ call.to = Top.to /\ call.args = Top.args
  <2>1. CASE Top \in DepositCall
      BY <2>1 DEF DepositCall, Call
  <2>2. CASE Top \in WithdrawCall
      BY <2>2 DEF WithdrawCall, Call
  <2>3. QED BY <1>2, <2>1, <2>2 DEF Call
<1> HIDE DEF call
<1>4. Pool \in Account
    BY DEF Account
<1>5. balance'[Pool] = balance[Pool] - (IF Pool = Top.from THEN Top.amount ELSE 0)
                                     + (IF Pool = Top.to THEN Top.amount ELSE 0)
    BY <1>1, <1>4 DEF Moved
<1>6. /\ balance[Pool] \in Nat /\ DENOMINATION * next_index \in Int
      /\ Total(PaidSeq(log)) \in Int
    BY DiscrepancyType DEF PoolInv, contract
<1>7. balance'[Pool] = balance[Pool] - MovedIn(Top) + MovedIn(call)
  <2>1. CASE Top \in DepositCall
    <3>1. Top.then = "insert" /\ Top.amount = DENOMINATION /\ Top.to = Pool /\ Top.from # Pool
        BY <2>1, PoolAssumption DEF DepositCall
    <3>2. MovedIn(Top) = 0 /\ MovedIn(call) = DENOMINATION
        BY <1>1, <1>3, <3>1 DEF MovedIn
    <3>3. QED BY <1>5, <1>6, <3>1, <3>2, PoolAssumption
  <2>2. CASE Top \in WithdrawCall
    <3>1. Top.then # "insert" /\ Top.from = Pool /\ Top.args.fee \in Nat /\ Top.amount \in Nat
        BY <2>2, PoolAssumption DEF WithdrawCall
    <3>2. MovedIn(call) = MovedIn(Top) - (IF Top.to # Pool THEN Top.amount ELSE 0)
        BY <1>1, <1>3, <3>1, PoolAssumption DEF MovedIn
    <3>3. MovedIn(Top) \in Int
        BY <1>2, MovedInType
    <3>4. QED BY <1>5, <1>6, <3>1, <3>2, <3>3
  <2>3. QED BY <1>2, <2>1, <2>2 DEF Call
<1>8. Discrepancy(contract)' = Discrepancy(contract) - MovedIn(Top) + MovedIn(call)
  <2>1. Discrepancy(contract) = balance[Pool] - (DENOMINATION * next_index - Total(PaidSeq(log)))
      BY DEF Discrepancy, contract
  <2>2. Discrepancy(contract)' = balance'[Pool] - (DENOMINATION * next_index - Total(PaidSeq(log)))
      BY <1>1 DEF Discrepancy, contract, treeVars
  <2>3. MovedIn(Top) \in Int /\ MovedIn(call) \in Int
      BY <1>2, <1>3, MovedInType
  <2>4. QED BY <1>6, <1>7, <2>1, <2>2, <2>3
<1>9. /\ call.then = "pay_relayer" => call.to = call.args.to
      /\ call.then = "emit" => call.to = call.args.relayer
    BY <1>2, <1>3 DEF BooksInv, PayeesOK, Top
<1>10. QED BY <1>1, <1>3, <1>8, <1>9, SetTopBooks

LEMMA RevertBooks ==
    ASSUME BooksInv, Revert
    PROVE  BooksInv'
<1>1. /\ saved' = saved /\ stack' = <<>>
      /\ next_index' = saved.next_index /\ balance' = saved.balance /\ log' = saved.log
    BY DEF Revert
<1>2. PayeesOK(stack)' /\ MovedSeq(stack)' = MovedSeq(<<>>)
    BY <1>1 DEF PayeesOK, MovedSeq, MovedIn
<1>3. Discrepancy(saved)' = 0
    BY <1>1 DEF BooksInv, Discrepancy
<1>4. Discrepancy(contract)' = Discrepancy(saved)
    BY <1>1 DEF Discrepancy, contract
<1>5. QED BY <1>2, <1>3, <1>4, MovedNone DEF BooksInv

\* Between transactions the pool's balance is what its own events say, however
\* the calls of the transactions before were nested and whatever reverted.
THEOREM BalanceMatchesLogCorrect == Spec => []BalanceMatchesLog
<1>1. PoolInv /\ PoolInv' /\ BooksInv /\ [Next]_vars => BooksInv'
  <2> SUFFICES ASSUME PoolInv, PoolInv', BooksInv, [Next]_vars PROVE BooksInv'
      OBVIOUS
  <2>1. ASSUME NEW caller \in User, NEW commitment \in Leaf, deposit(caller, commitment)
        PROVE  BooksInv'
      BY <2>1, DepositBooks
  <2>2. ASSUME NEW wellFormed \in BOOLEAN, NEW root \in AnyRoot, NEW nullifier_hash \in Nullifier,
               NEW recipient \in Account, NEW relayer \in Account, NEW fee \in Fee,
               withdraw(wellFormed, root, nullifier_hash, recipient, relayer, fee)
        PROVE  BooksInv'
      BY <2>2, WithdrawBooks
  <2>3. CASE deposit_insert
      BY <2>3, InsertBooks
  <2>4. CASE withdraw_pay_relayer
      BY <2>4, PayRelayerBooks
  <2>5. CASE withdraw_emit
      BY <2>5, EmitBooks
  <2>6. CASE token_transfer
      BY <2>6, TransferBooks
  <2>7. CASE Revert
      BY <2>7, RevertBooks
  <2>8. CASE UNCHANGED vars
    <3>1. contract' = contract /\ saved' = saved /\ stack' = stack
        BY <2>8 DEF vars, treeVars, contract
    <3>2. QED BY <3>1 DEF BooksInv, PayeesOK, Discrepancy, MovedSeq, MovedIn
  <2>9. QED BY <2>1, <2>2, <2>3, <2>4, <2>5, <2>6, <2>7, <2>8 DEF Next
<1>2. PoolInv /\ BooksInv => BalanceMatchesLog
  <2> SUFFICES ASSUME PoolInv, BooksInv, Idle
               PROVE  balance[Pool] = DENOMINATION * next_index - Total(PaidSeq(log))
      BY DEF BalanceMatchesLog, PaidSeq
  <2>1. Discrepancy(contract) = 0
      BY MovedNone DEF BooksInv, Idle
  <2>2. /\ balance[Pool] \in Nat /\ DENOMINATION * next_index \in Int
        /\ Total(PaidSeq(log)) \in Int
      BY DiscrepancyType DEF PoolInv, contract
  <2>3. QED BY <2>1, <2>2 DEF Discrepancy, contract
<1>3. QED BY InitBooks, PoolInvInvariant, <1>1, <1>2, PTL DEF Spec

-----------------------------------------------------------------------------
(***************************************************************************)
(* The Deposit events are the leaves of the tree.                          *)
(***************************************************************************)

DepositsIn(c) == {i \in DOMAIN c.log : c.log[i].event = "Deposit"}

LogIsTree(c) ==
    /\ Cardinality(DepositsIn(c)) = Len(c.events)
    /\ \A i \in DepositsIn(c) :
           /\ c.log[i].leaf_index = Cardinality({j \in DepositsIn(c) : j < i})
           /\ c.log[i].commitment = c.events[c.log[i].leaf_index + 1].leaf

LEMMA LogIsTreeSame ==
    ASSUME NEW c, NEW d, LogIsTree(c), d.log = c.log, d.events = c.events
    PROVE  LogIsTree(d)
BY DEF LogIsTree, DepositsIn

\* Every Deposit event is about a leaf the tree has.
LEMMA EarlierDeposits ==
    ASSUME NEW c, StateTypeOK(c), LogIsTree(c)
    PROVE  /\ IsFiniteSet(DepositsIn(c))
           /\ \A i \in DepositsIn(c) : c.log[i].leaf_index \in 0 .. Len(c.events) - 1
<1>1. IsFiniteSet(DepositsIn(c)) /\ DepositsIn(c) \subseteq 1 .. Len(c.log)
  <2>1. c.log \in Seq(PoolEvent)
      BY DEF StateTypeOK
  <2>2. DepositsIn(c) \subseteq 1 .. Len(c.log) /\ Len(c.log) \in Nat
      BY <2>1 DEF DepositsIn
  <2>3. IsFiniteSet(1 .. Len(c.log))
      BY <2>2, FS_Interval
  <2>4. QED BY <2>2, <2>3, FS_Subset
<1>2. ASSUME NEW i \in DepositsIn(c)
      PROVE  c.log[i].leaf_index \in 0 .. Len(c.events) - 1
  <2> DEFINE E == {j \in DepositsIn(c) : j < i}
  <2>1. IsFiniteSet(DepositsIn(c) \ {i})
        /\ Cardinality(DepositsIn(c) \ {i}) = Cardinality(DepositsIn(c)) - 1
      BY <1>1, FS_RemoveElement
  <2>2. E \in SUBSET (DepositsIn(c) \ {i})
    <3>1. i \in Int
        BY <1>1
    <3>2. ~(i < i)
        BY <3>1
    <3>3. QED BY <3>2
  <2>3. IsFiniteSet(E) /\ Cardinality(E) <= Cardinality(DepositsIn(c)) - 1
      BY <2>1, <2>2, FS_Subset
  <2>4. Cardinality(E) \in Nat /\ Cardinality(DepositsIn(c)) \in Nat
      BY <1>1, <2>3, FS_CardinalityType
  <2>5. c.log[i].leaf_index = Cardinality(E) /\ Cardinality(DepositsIn(c)) = Len(c.events)
      BY DEF LogIsTree
  <2> HIDE DEF E
  <2>6. QED BY <2>3, <2>4, <2>5
<1>3. QED BY <1>1, <1>2

LEMMA InsertLogIsTree ==
    ASSUME PoolInv, LogIsTree(contract), deposit_insert
    PROVE  LogIsTree(contract)'
<1> DEFINE commitment == Top.args.commitment
           event == [event |-> "Deposit", commitment |-> commitment, leaf_index |-> next_index' - 1]
           leafEvent == [leaf |-> commitment, index |-> next_index,
                         root |-> PathHashes(commitment, next_index)[LEVELS]]
           n == Len(log) + 1
<1>1. insert(commitment) /\ log' = Append(log, event)
    BY DEF deposit_insert, DepositEvent
<1>2. TreeTypeOK /\ \E S : events \in Seq(S)
    BY DEF PoolInv, StateTypeOK, contract, TreeTypeOK
<1>3. next_index \in Nat /\ Len(events) = next_index
    BY <1>2, SizeAssumption DEF TreeTypeOK
<1>4. /\ next_index' = next_index + 1
      /\ Len(events') = next_index + 1
      /\ events'[next_index + 1] = leafEvent
      /\ \A k \in 1 .. next_index : events'[k] = events[k]
    BY <1>1, <1>2, <1>3, InsertTypeOK DEF TreeTypeOK
<1>5. leafEvent.leaf = commitment
    OBVIOUS
<1>6. log \in Seq(PoolEvent)
    BY DEF PoolInv, StateTypeOK, contract
<1>7. /\ DOMAIN log' = 1 .. n /\ DOMAIN log = 1 .. n - 1 /\ n \in Nat
      /\ log'[n] = event
      /\ \A i \in 1 .. n - 1 : log'[i] = log[i]
    BY <1>1, <1>6
<1>8. event.event = "Deposit" /\ event.commitment = commitment /\ event.leaf_index = next_index
    BY <1>3, <1>4
<1> HIDE DEF event, leafEvent, n, commitment
<1> DEFINE D == DepositsIn(contract)
           E == DepositsIn(contract')
<1>9. D = {i \in DOMAIN log : log[i].event = "Deposit"} /\ E = {i \in DOMAIN log' : log'[i].event = "Deposit"}
    BY DEF DepositsIn, contract
<1>10. /\ IsFiniteSet(D)
       /\ \A i \in D : log[i].leaf_index \in 0 .. next_index - 1
       /\ Cardinality(D) = next_index
       /\ \A i \in D : /\ log[i].leaf_index = Cardinality({j \in D : j < i})
                       /\ log[i].commitment = events[log[i].leaf_index + 1].leaf
  <2>1. StateTypeOK(contract) /\ contract.log = log /\ contract.events = events
      BY DEF PoolInv, contract
  <2>2. IsFiniteSet(D) /\ \A i \in D : log[i].leaf_index \in 0 .. Len(events) - 1
      BY <2>1, EarlierDeposits
  <2>3. QED BY <1>3, <2>1, <2>2 DEF LogIsTree
<1>11. E = D \cup {n} /\ n \notin D /\ \A j \in D : j \in Int /\ j < n
  <2>1. \A i \in DOMAIN log' : i = n \/ i \in DOMAIN log
      BY <1>7
  <2>2. \A i \in DOMAIN log : i \in DOMAIN log' /\ log'[i] = log[i] /\ i \in Int /\ i < n
      BY <1>7
  <2>3. n \in DOMAIN log' /\ n \notin DOMAIN log /\ log'[n].event = "Deposit"
    <3>1. n # 0
        BY <1>6 DEF n
    <3>2. n \in 1 .. n /\ n \notin 1 .. n - 1
        BY <1>7, <3>1
    <3>3. QED BY <1>7, <1>8, <3>2
  <2> HIDE DEF D, E, n
  <2>4. ASSUME NEW i \in E PROVE i \in D \cup {n}
      BY <1>9, <2>1, <2>2
  <2>5. ASSUME NEW i \in D PROVE i \in E /\ i # n /\ i \in Int /\ i < n
      BY <1>9, <2>2, <2>3
  <2>6. n \in E
      BY <1>9, <2>3
  <2>7. QED BY <2>4, <2>5, <2>6
<1> HIDE DEF D, E
<1>12. Cardinality(E) = next_index + 1
    BY <1>10, <1>11, FS_AddElement
<1>13. ASSUME NEW i \in E
       PROVE  /\ log'[i].leaf_index = Cardinality({j \in E : j < i})
              /\ log'[i].commitment = events'[log'[i].leaf_index + 1].leaf
  <2>1. CASE i \in D
    <3>1. {j \in E : j < i} = {j \in D : j < i}
        BY <1>7, <1>11, <2>1
    <3>2. log'[i] = log[i]
        BY <1>7, <1>9, <2>1
    <3>3. log[i].leaf_index + 1 \in 1 .. next_index
        BY <1>3, <1>10, <2>1
    <3>4. QED BY <1>4, <1>10, <2>1, <3>1, <3>2, <3>3
  <2>2. CASE i = n
    <3>1. {j \in E : j < n} = D
        BY <1>7, <1>11
    <3>2. QED BY <1>4, <1>5, <1>7, <1>8, <1>10, <2>2, <3>1
  <2>3. QED BY <1>11, <2>1, <2>2
<1>14. contract'.log = log' /\ contract'.events = events'
    BY DEF contract
<1>15. QED BY <1>4, <1>12, <1>13, <1>14 DEF LogIsTree, DepositsIn, E

LEMMA EmitLogIsTree ==
    ASSUME PoolInv, LogIsTree(contract), withdraw_emit
    PROVE  LogIsTree(contract)'
<1> DEFINE event == [event |-> "Withdraw", to |-> Top.args.to,
                     nullifier_hash |-> Top.args.nullifier_hash,
                     relayer |-> Top.args.relayer, fee |-> Top.args.fee]
           n == Len(log) + 1
<1>1. log' = Append(log, event) /\ events' = events
    BY DEF withdraw_emit, treeVars
<1>2. log \in Seq(PoolEvent)
    BY DEF PoolInv, StateTypeOK, contract
<1>3. /\ DOMAIN log' = 1 .. n /\ DOMAIN log = 1 .. n - 1 /\ n \in Nat
      /\ log'[n] = event
      /\ \A i \in 1 .. n - 1 : log'[i] = log[i]
    BY <1>1, <1>2
<1>4. event.event # "Deposit"
    OBVIOUS
<1> HIDE DEF event, n
<1>5. /\ contract.log = log /\ contract.events = events
      /\ contract'.log = log' /\ contract'.events = events
    BY <1>1 DEF contract
<1>6. /\ DepositsIn(contract') = DepositsIn(contract)
      /\ \A i \in DepositsIn(contract) : log'[i] = log[i]
  <2>1. \A i \in DOMAIN log' : i = n \/ i \in DOMAIN log
      BY <1>3
  <2>2. \A i \in DOMAIN log : i \in DOMAIN log' /\ log'[i] = log[i]
      BY <1>3
  <2>3. log'[n].event # "Deposit"
      BY <1>3, <1>4
  <2>4. QED BY <1>5, <2>1, <2>2, <2>3 DEF DepositsIn
<1>7. LogIsTree(contract')
    BY <1>5, <1>6 DEF LogIsTree
<1>8. QED BY <1>7 DEF LogIsTree, DepositsIn

\* What a step does to the tree, the events, the nullifiers and saved.
LEMMA StepKinds ==
    ASSUME PoolInv, [Next]_vars
    PROVE  \/ /\ UNCHANGED <<treeVars, log, saved>>
              /\ nullifiers \subseteq nullifiers'
           \/ deposit_insert
           \/ withdraw_emit
           \/ Revert
<1>1. ASSUME NEW caller \in User, NEW commitment \in Leaf, deposit(caller, commitment)
      PROVE  UNCHANGED <<treeVars, log, saved>> /\ nullifiers \subseteq nullifiers'
    BY <1>1 DEF deposit, Enter
<1>2. ASSUME NEW wellFormed \in BOOLEAN, NEW root \in AnyRoot, NEW nullifier_hash \in Nullifier,
             NEW recipient \in Account, NEW relayer \in Account, NEW fee \in Fee,
             withdraw(wellFormed, root, nullifier_hash, recipient, relayer, fee)
      PROVE  UNCHANGED <<treeVars, log, saved>> /\ nullifiers \subseteq nullifiers'
    BY <1>2 DEF withdraw, Enter
<1>3. CASE withdraw_pay_relayer
    BY <1>3 DEF withdraw_pay_relayer
<1>4. CASE token_transfer
    BY <1>4 DEF token_transfer
<1>5. CASE UNCHANGED vars
    BY <1>5 DEF vars
<1>6. QED BY <1>1, <1>2, <1>3, <1>4, <1>5 DEF Next

\* The innermost call returns: what it leaves is saved, or nothing is.
LEMMA LeaveSaves ==
    ASSUME deposit_insert \/ withdraw_emit
    PROVE  saved' = contract' \/ saved' = saved
BY DEF deposit_insert, withdraw_emit, Leave

\* A client that rebuilds the tree from the Deposit events gets the contract's
\* tree, however deposits were nested and whatever reverted.
THEOREM DepositLogIsTreeCorrect == Spec => []DepositLogIsTree
<1> DEFINE Inv == LogIsTree(contract) /\ LogIsTree(saved)
<1>1. constructor => Inv
  <2> SUFFICES ASSUME constructor PROVE Inv
      OBVIOUS
  <2>1. log = <<>> /\ events = <<>> /\ saved = contract
      BY DEF constructor, initialize
  <2>2. DepositsIn(contract) = {}
      BY <2>1 DEF DepositsIn, contract
  <2>3. LogIsTree(contract)
      BY <2>1, <2>2, FS_EmptySet DEF LogIsTree, contract
  <2>4. QED BY <2>1, <2>3
<1>2. PoolInv /\ Inv /\ [Next]_vars => Inv'
  <2> SUFFICES ASSUME PoolInv, Inv, [Next]_vars PROVE Inv'
      OBVIOUS
  <2>1. LogIsTree(contract') /\ LogIsTree(saved')
    <3>1. CASE UNCHANGED <<treeVars, log, saved>>
      <4>1. contract'.log = contract.log /\ contract'.events = contract.events
          BY <3>1 DEF contract, treeVars
      <4>2. QED BY <3>1, <4>1, LogIsTreeSame
    <3>2. CASE deposit_insert \/ withdraw_emit
      <4>1. LogIsTree(contract')
        <5>1. LogIsTree(contract)'
            BY <3>2, InsertLogIsTree, EmitLogIsTree
        <5>2. QED BY <5>1 DEF LogIsTree, DepositsIn
      <4>2. QED BY <3>2, <4>1, LeaveSaves
    <3>3. CASE Revert
      <4>1. contract'.log = saved.log /\ contract'.events = saved.events /\ saved' = saved
          BY <3>3 DEF Revert, contract
      <4>2. QED BY <4>1, LogIsTreeSame
    <3>4. QED BY <3>1, <3>2, <3>3, StepKinds
  <2>2. QED BY <2>1 DEF LogIsTree, DepositsIn
<1>3. Inv => DepositLogIsTree
    BY DEF LogIsTree, DepositsIn, contract, DepositLogIsTree, Deposits
<1>4. QED BY PoolInvInvariant, <1>1, <1>2, <1>3, PTL DEF Spec

-----------------------------------------------------------------------------
(***************************************************************************)
(* The pool implements the ledger of notes.                                *)
(***************************************************************************)

\* The transaction in progress only adds to what the last one left.
Grows ==
    /\ saved.nullifiers \subseteq nullifiers
    /\ Len(saved.events) <= Len(events)
    /\ \A n \in 1 .. Len(saved.events) : events[n] = saved.events[n]

\* The surplus of what a transaction leaves is no less than what it found.
LEMMA SurplusGrows ==
    ASSUME PoolInv, PoolInv', stack # <<>>, Surplus(contract)' >= Surplus(contract) - Held(Top)
    PROVE  Surplus(contract') >= Surplus(saved)
<1>1. PICK total \in Nat : HeldBy(stack, total) /\ Surplus(contract) >= Surplus(saved) + total
    BY DEF PoolInv, Funded
<1>2. total - Held(Top) \in Nat /\ Held(Top) \in Nat
    BY <1>1, HeldByPop, HeldType, StackFacts DEF PoolInv, Top
<1>3. Surplus(contract) \in Int /\ Surplus(contract)' \in Int /\ Surplus(saved) \in Int
    BY SurplusType DEF PoolInv
<1>4. Surplus(contract') = Surplus(contract)'
    BY DEF Surplus
<1>5. QED BY <1>1, <1>2, <1>3, <1>4

\* The notes, the spent nullifiers and the vault of a state of the contract.
NotesOf(c) == [n \in DOMAIN c.events |-> c.events[n].leaf]

\* From one saved state to a later one is a step of the ledger.
LEMMA LedgerStep ==
    ASSUME NEW c, NEW d, StateTypeOK(c), StateTypeOK(d),
           c.nullifiers \subseteq d.nullifiers,
           Len(c.events) <= Len(d.events),
           \A n \in 1 .. Len(c.events) : d.events[n] = c.events[n],
           Surplus(d) >= Surplus(c)
    PROVE  /\ Len(NotesOf(c)) <= Len(NotesOf(d))
           /\ SubSeq(NotesOf(d), 1, Len(NotesOf(c))) = NotesOf(c)
           /\ d.balance[Pool] >= c.balance[Pool]
                + DENOMINATION * (Len(NotesOf(d)) - Len(NotesOf(c))
                                    - Cardinality(d.nullifiers \ c.nullifiers))
<1> DEFINE m == Len(c.events)
           n == Len(d.events)
           L == {d.events[k].leaf : k \in 1 .. n} \cup {c.events[k].leaf : k \in 1 .. m}
<1>1. /\ m \in Nat /\ n \in Nat /\ m <= n
      /\ DOMAIN c.events = 1 .. m /\ DOMAIN d.events = 1 .. n
      /\ c.next_index = m /\ d.next_index = n
    BY SizeAssumption DEF StateTypeOK
<1>2. /\ NotesOf(c) \in Seq(L) /\ Len(NotesOf(c)) = m
      /\ NotesOf(d) \in Seq(L) /\ Len(NotesOf(d)) = n
    BY <1>1 DEF NotesOf
<1>3. \A k \in 1 .. m : NotesOf(c)[k] = c.events[k].leaf
    BY <1>1 DEF NotesOf
<1>4. \A k \in 1 .. n : NotesOf(d)[k] = d.events[k].leaf
    BY <1>1 DEF NotesOf
<1>5. \A k \in 1 .. m : NotesOf(d)[k] = NotesOf(c)[k]
    BY <1>1, <1>3, <1>4
<1> HIDE DEF L, m, n
<1>6. SubSeq(NotesOf(d), 1, m) = NotesOf(c)
  <2> DEFINE sub == SubSeq(NotesOf(d), 1, m)
  <2>1. \A k \in 1 .. m : NotesOf(d)[k] \in L
      BY <1>1, <1>2
  <2>2. /\ sub \in Seq(L)
        /\ Len(sub) = IF 1 <= m THEN m - 1 + 1 ELSE 0
        /\ \A k \in 1 .. m - 1 + 1 : sub[k] = NotesOf(d)[1 + k - 1]
      BY <1>1, <2>1, SubSeqProperties
  <2> HIDE DEF sub
  <2>3. m - 1 + 1 = m /\ (IF 1 <= m THEN m - 1 + 1 ELSE 0) = m /\ \A k \in 1 .. m : 1 + k - 1 = k
      BY <1>1
  <2>4. Len(sub) = m /\ \A k \in 1 .. m : sub[k] = NotesOf(c)[k]
      BY <1>5, <2>2, <2>3, Zenon
  <2>5. sub = NotesOf(c)
      BY <1>2, <2>2, <2>4, SeqEqual
  <2>6. QED BY <2>5 DEF sub
<1>7. /\ Cardinality(d.nullifiers \ c.nullifiers) = Cardinality(d.nullifiers) - Cardinality(c.nullifiers)
      /\ Cardinality(d.nullifiers) \in Nat /\ Cardinality(c.nullifiers) \in Nat
  <2>1. IsFiniteSet(c.nullifiers) /\ IsFiniteSet(d.nullifiers)
        /\ d.nullifiers \cap c.nullifiers = c.nullifiers
      BY DEF StateTypeOK
  <2>2. Cardinality(d.nullifiers \ c.nullifiers)
            = Cardinality(d.nullifiers) - Cardinality(d.nullifiers \cap c.nullifiers)
      BY <2>1, FS_Difference
  <2>3. Cardinality(d.nullifiers) \in Nat /\ Cardinality(c.nullifiers) \in Nat
      BY <2>1, FS_CardinalityType
  <2>4. QED BY <2>1, <2>2, <2>3
<1>8. d.balance[Pool] \in Nat /\ c.balance[Pool] \in Nat
    BY DEF StateTypeOK, Account
<1>9. d.balance[Pool] >= c.balance[Pool]
        + DENOMINATION * (n - m - Cardinality(d.nullifiers \ c.nullifiers))
  <2> DEFINE x == n - Cardinality(d.nullifiers)
             y == m - Cardinality(c.nullifiers)
  <2>1. x \in Int /\ y \in Int /\ n - m - Cardinality(d.nullifiers \ c.nullifiers) = x - y
      BY <1>1, <1>7
  <2>2. Surplus(d) = d.balance[Pool] - DENOMINATION * x /\ Surplus(c) = c.balance[Pool] - DENOMINATION * y
      BY <1>1 DEF Surplus
  <2> HIDE DEF x, y
  <2>3. /\ DENOMINATION * (x - y) = DENOMINATION * x - DENOMINATION * y
        /\ DENOMINATION * x \in Int /\ DENOMINATION * y \in Int
      BY <2>1, PoolAssumption
  <2>4. QED BY <1>8, <2>1, <2>2, <2>3
<1>10. QED BY <1>1, <1>2, <1>6, <1>9

\* The cardinality that NoteLedger's copy of FiniteSets defines.
LEMMA SameCardinality == \A S : Ledger!Cardinality(S) = Cardinality(S)
BY DEF Ledger!Cardinality, Cardinality

\* The pool implements NoteLedger: seen between transactions it only appends
\* notes and spends nullifiers, and a transaction, with all the calls nested in
\* it, takes at most one denomination for each nullifier it spends.
THEOREM ImplementsLedgerCorrect == Spec => ImplementsLedger
<1>1. constructor => Ledger!Init /\ Grows
  <2> SUFFICES ASSUME constructor PROVE Ledger!Init /\ Grows
      OBVIOUS
  <2>1. /\ saved = contract /\ events = <<>> /\ nullifiers = {} /\ balance[Pool] = 0
        /\ saved.events = <<>> /\ saved.nullifiers = {} /\ saved.balance[Pool] = 0
      BY PoolAssumption DEF constructor, initialize, contract, Account
  <2>2. Ledger!Init
      BY <2>1 DEF Ledger!Init
  <2>3. Grows
      BY <2>1 DEF Grows
  <2>4. QED BY <2>2, <2>3
<1>2. PoolInv /\ PoolInv' /\ Grows /\ [Next]_vars
        => Grows' /\ [Ledger!Transact]_<<NotesOf(saved), saved.nullifiers, saved.balance[Pool]>>
  <2> SUFFICES ASSUME PoolInv, PoolInv', Grows, [Next]_vars
               PROVE  /\ Grows'
                      /\ saved' = saved \/ Ledger!Transact
      BY DEF NotesOf
  <2>1. CASE UNCHANGED <<treeVars, log, saved>> /\ nullifiers \subseteq nullifiers'
      BY <2>1 DEF Grows, treeVars
  <2>2. CASE Revert
    <3>1. saved' = saved /\ events' = saved.events /\ nullifiers' = saved.nullifiers
        BY <2>2 DEF Revert
    <3>2. Len(saved.events) \in Nat
        BY SizeAssumption DEF PoolInv, StateTypeOK
    <3>3. QED BY <3>1, <3>2 DEF Grows
  <2>3. CASE deposit_insert \/ withdraw_emit
    <3>1. /\ nullifiers' = nullifiers /\ Len(events) \in Nat /\ Len(events) <= Len(events')
          /\ \A n \in 1 .. Len(events) : events'[n] = events[n]
      <4>1. TreeTypeOK /\ \E S : events \in Seq(S)
          BY DEF PoolInv, StateTypeOK, contract, TreeTypeOK
      <4>2. Len(events) = next_index /\ next_index \in Nat
          BY <4>1, SizeAssumption DEF TreeTypeOK
      <4>3. CASE deposit_insert
        <5>1. insert(Top.args.commitment) /\ nullifiers' = nullifiers
            BY <4>3 DEF deposit_insert
        <5>2. /\ TreeTypeOK' /\ next_index' = next_index + 1
              /\ \A n \in 1 .. next_index : events'[n] = events[n]
            BY <4>1, <5>1, InsertTypeOK
        <5>3. QED BY <4>2, <5>1, <5>2 DEF TreeTypeOK
      <4>4. CASE withdraw_emit
          BY <4>2, <4>4 DEF withdraw_emit, treeVars
      <4>5. QED BY <2>3, <4>3, <4>4
    <3>2. /\ saved.nullifiers \subseteq nullifiers'
          /\ Len(saved.events) <= Len(events')
          /\ \A n \in 1 .. Len(saved.events) : events'[n] = saved.events[n]
      <4>1. Len(saved.events) \in Nat /\ Len(events') \in Nat
          BY SizeAssumption DEF PoolInv, StateTypeOK, contract
      <4>2. QED BY <3>1, <4>1 DEF Grows
    <3>3. CASE saved' = saved
        BY <3>2, <3>3 DEF Grows
    <3>4. CASE saved' = contract'
      <4>1. contract'.events = events' /\ contract'.nullifiers = nullifiers'
          BY DEF contract
      <4>2. Grows'
        <5>1. Len(events') \in Nat
            BY SizeAssumption DEF PoolInv, StateTypeOK, contract
        <5>2. QED BY <3>4, <4>1, <5>1 DEF Grows
      <4>3. StateTypeOK(saved) /\ StateTypeOK(saved')
        <5>1. StateTypeOK(saved) /\ StateTypeOK(saved)'
            BY DEF PoolInv
        <5>2. QED BY <5>1 DEF StateTypeOK
      <4>4. Surplus(saved') >= Surplus(saved)
        <5>1. stack # <<>>
            BY <2>3 DEF deposit_insert, withdraw_emit, Returned
        <5>2. QED BY <2>3, <3>4, <5>1, InsertSurplus, EmitSurplus, SurplusGrows
      <4>5. /\ Len(NotesOf(saved)) <= Len(NotesOf(saved'))
            /\ SubSeq(NotesOf(saved'), 1, Len(NotesOf(saved))) = NotesOf(saved)
            /\ saved'.balance[Pool] >= saved.balance[Pool]
                  + DENOMINATION * (Len(NotesOf(saved')) - Len(NotesOf(saved))
                                      - Cardinality(saved'.nullifiers \ saved.nullifiers))
          BY <3>2, <3>4, <4>1, <4>3, <4>4, LedgerStep
      <4>6. saved.nullifiers \subseteq saved'.nullifiers
          BY <3>2, <3>4, <4>1
      <4>7. Ledger!Transact
          BY <4>5, <4>6, SameCardinality DEF Ledger!Transact, NotesOf
      <4>8. QED BY <4>2, <4>7
    <3>5. QED BY <2>3, <3>3, <3>4, LeaveSaves
  <2>4. QED BY <2>1, <2>2, <2>3, StepKinds
<1>3. QED BY PoolInvInvariant, <1>1, <1>2, PTL DEF Spec, ImplementsLedger, Ledger!Spec, NotesOf

-----------------------------------------------------------------------------
(***************************************************************************)
(* The tree inside the contract: transactions that revert do not break it. *)
(***************************************************************************)

\* The tree that a revert restores.
SavedTree == INSTANCE MerkleTreeProofs WITH
    next_index <- saved.next_index, filled_subtrees <- saved.filled_subtrees,
    roots <- saved.roots, current_root_index <- saved.current_root_index,
    events <- saved.events

TreesInv ==
    /\ TreeInv /\ FrontierInv /\ RootOfFullTree
    /\ SavedTree!TreeInv /\ SavedTree!FrontierInv /\ SavedTree!RootOfFullTree

LEMMA SameConstants ==
    /\ SavedTree!get_zero = get_zero
    /\ \A leaves : SavedTree!FullTree(leaves) = FullTree(leaves)
    /\ \A index, level : SavedTree!IsLeft(index, level) = IsLeft(index, level)
<1>1. SavedTree!get_zero = get_zero
    BY DEF SavedTree!get_zero, get_zero
<1>2. \A leaves : SavedTree!FullTree(leaves) = FullTree(leaves)
    BY DEF SavedTree!FullTree, FullTree
<1>3. \A index, level : SavedTree!IsLeft(index, level) = IsLeft(index, level)
    BY DEF SavedTree!IsLeft, IsLeft
<1>4. QED BY <1>1, <1>2, <1>3

\* Nothing has happened to the tree since the last transaction ended.
TreeIsSaved ==
    /\ next_index = saved.next_index /\ filled_subtrees = saved.filled_subtrees
    /\ roots = saved.roots /\ current_root_index = saved.current_root_index
    /\ events = saved.events

LEMMA SameTree ==
    TreeIsSaved => /\ TreeInv <=> SavedTree!TreeInv
                   /\ FrontierInv <=> SavedTree!FrontierInv
                   /\ RootOfFullTree <=> SavedTree!RootOfFullTree
<1> SUFFICES ASSUME TreeIsSaved
             PROVE  /\ TreeInv <=> SavedTree!TreeInv
                    /\ FrontierInv <=> SavedTree!FrontierInv
                    /\ RootOfFullTree <=> SavedTree!RootOfFullTree
    OBVIOUS
<1> USE DEF TreeIsSaved
<1>1. SavedTree!TreeTypeOK <=> TreeTypeOK
    BY DEF SavedTree!TreeTypeOK, TreeTypeOK
<1>2. SavedTree!RingInv <=> RingInv
    BY SameConstants DEF SavedTree!RingInv, RingInv, SavedTree!Age, Age,
                         SavedTree!RootAfter, RootAfter
<1>3. SavedTree!TreeInv <=> TreeInv
    BY <1>1, <1>2 DEF SavedTree!TreeInv, TreeInv
<1>4. SavedTree!Leaves = Leaves
    BY DEF SavedTree!Leaves, Leaves
<1>5. SavedTree!FrontierInv <=> FrontierInv
    BY <1>4, SameConstants DEF SavedTree!FrontierInv, FrontierInv
<1>6. SavedTree!RootOfFullTree <=> RootOfFullTree
    BY <1>4, SameConstants DEF SavedTree!RootOfFullTree, RootOfFullTree,
                               SavedTree!get_root, get_root
<1>7. QED BY <1>3, <1>5, <1>6

\* The tree of the contract is well-formed, accepts exactly its latest roots, and
\* has the root of the complete tree, also inside nested calls and after a
\* revert.
THEOREM PoolTreeCorrect == Spec => [](RootWindow /\ RootOfFullTree)
<1>1. constructor => TreesInv
  <2> SUFFICES ASSUME constructor PROVE TreesInv
      OBVIOUS
  <2>1. TreeInv /\ FrontierInv /\ RootOfFullTree
      BY InitTreeInv, InitRoot DEF constructor
  <2>2. TreeIsSaved
      BY DEF constructor, contract, TreeIsSaved
  <2>3. QED BY <2>1, <2>2, SameTree DEF TreesInv
<1>2. (TreeIsSaved => /\ TreeInv <=> SavedTree!TreeInv
                      /\ FrontierInv <=> SavedTree!FrontierInv
                      /\ RootOfFullTree <=> SavedTree!RootOfFullTree)'
    BY SameTree, PTL
<1>3. saved' = saved => /\ SavedTree!TreeInv' <=> SavedTree!TreeInv
                        /\ SavedTree!FrontierInv' <=> SavedTree!FrontierInv
                        /\ SavedTree!RootOfFullTree' <=> SavedTree!RootOfFullTree
  <2> SUFFICES ASSUME saved' = saved
               PROVE  /\ SavedTree!TreeInv' <=> SavedTree!TreeInv
                      /\ SavedTree!FrontierInv' <=> SavedTree!FrontierInv
                      /\ SavedTree!RootOfFullTree' <=> SavedTree!RootOfFullTree
      OBVIOUS
  <2>1. SavedTree!TreeInv' <=> SavedTree!TreeInv
      BY DEF SavedTree!TreeInv, SavedTree!TreeTypeOK, SavedTree!RingInv, SavedTree!Age,
             SavedTree!RootAfter
  <2>2. SavedTree!Leaves' = SavedTree!Leaves
      BY DEF SavedTree!Leaves
  <2>3. SavedTree!FrontierInv' <=> SavedTree!FrontierInv
      BY <2>2 DEF SavedTree!FrontierInv, SavedTree!IsLeft
  <2>4. SavedTree!RootOfFullTree' <=> SavedTree!RootOfFullTree
      BY <2>2 DEF SavedTree!RootOfFullTree, SavedTree!get_root
  <2>5. QED BY <2>1, <2>3, <2>4
<1>4. ASSUME UNCHANGED treeVars, TreeInv, FrontierInv, RootOfFullTree
      PROVE  TreeInv' /\ FrontierInv' /\ RootOfFullTree'
  <2>1. TreeInv'
      BY <1>4 DEF TreeInv, TreeTypeOK, RingInv, Age, RootAfter, treeVars
  <2>2. Leaves' = Leaves
      BY <1>4 DEF Leaves, treeVars
  <2>3. QED BY <1>4, <2>1, <2>2 DEF treeVars, FrontierInv, IsLeft, RootOfFullTree, get_root
<1>5. PoolInv /\ TreesInv /\ [Next]_vars => TreesInv'
  <2> SUFFICES ASSUME PoolInv, TreesInv, [Next]_vars PROVE TreesInv'
      OBVIOUS
  <2>1. CASE UNCHANGED <<treeVars, log, saved>>
      BY <1>3, <1>4, <2>1 DEF TreesInv
  <2>2. CASE deposit_insert \/ withdraw_emit
    <3>1. TreeInv' /\ FrontierInv' /\ RootOfFullTree'
      <4>1. CASE deposit_insert
        <5>1. insert(Top.args.commitment)
            BY <4>1 DEF deposit_insert
        <5>2. PICK S : events \in Seq(S)
            BY DEF TreesInv, TreeInv
        <5>3. QED BY <5>1, <5>2, InsertTreeInv, InsertFrontierInv, InsertRoot DEF TreesInv, TreeInv
      <4>2. CASE withdraw_emit
          BY <1>4, <4>2 DEF withdraw_emit, TreesInv
      <4>3. QED BY <2>2, <4>1, <4>2
    <3>2. CASE saved' = saved
        BY <1>3, <3>1, <3>2 DEF TreesInv
    <3>3. CASE saved' = contract'
      <4>1. TreeIsSaved'
          BY <3>3 DEF TreeIsSaved, contract
      <4>2. QED BY <1>2, <3>1, <4>1 DEF TreesInv
    <3>4. QED BY <2>2, <3>2, <3>3, LeaveSaves
  <2>3. CASE Revert
    <3>1. saved' = saved /\ TreeIsSaved'
        BY <2>3 DEF Revert, TreeIsSaved
    <3>2. QED BY <1>2, <1>3, <3>1 DEF TreesInv
  <2>4. QED BY <2>1, <2>2, <2>3, StepKinds
<1>6. TreesInv => RootWindow /\ RootOfFullTree
    BY RingInvWindow DEF TreesInv, TreeInv
<1>7. QED BY PoolInvInvariant, <1>1, <1>5, <1>6, PTL DEF Spec

=============================================================================
