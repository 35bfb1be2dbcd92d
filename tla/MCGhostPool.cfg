SPECIFICATION Spec
CONSTANTS
    LEVELS = 1
    CAPACITY = 2
    ROOT_HISTORY_SIZE = 2
    ZERO_LEAF = zeroLeaf
    Zero = zero
    Leaf = {c1, c2}
    Hash <- MCHash
    DENOMINATION = 2
    User = {alice}
    Pool = pool
    Nullifier = {n1, n2, zero}
    Fee = {0, 1, 2}
    Funds <- MCFunds
    NotesOwned = 3
    MaxDepth = 2
INVARIANTS
    PoolTypeOK
    NoDoubleSpend
    BalanceMatchesLog
    DepositLogIsTree
PROPERTY
    ImplementsLedger
CHECK_DEADLOCK FALSE
