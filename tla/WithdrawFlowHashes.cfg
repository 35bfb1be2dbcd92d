SPECIFICATION Spec
CONSTANTS
    LEVELS = 3
    CAPACITY = 8
    ROOT_HISTORY_SIZE = 2
    ZERO_LEAF = zeroLeaf
    Zero = zero
    Leaf = {other}
    Hash <- StarknetPoseidon
    PoseidonFr <- CircomPoseidon
    PoseidonFr1 <- MCPoseidonFr1
    Note <- MCNote
    Other = {other}
    Foreign <- MCForeign
    DENOMINATION = 1
    Fee = {0, 1}
    None = none
    s1 = s1
    k1 = k1
    k2 = k2
    bn254 = bn254
INVARIANTS
    FreshClaimAccepted
\* A full tree whose notes are withdrawn has no next step.
CHECK_DEADLOCK FALSE
