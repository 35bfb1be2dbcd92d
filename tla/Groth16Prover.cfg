SPECIFICATION FairSpec
CONSTANTS
    Prime = 97
    Word = 16
    Limbs = 2
    maxDomainSize = 8
    Q = 103
    XiRe = 2
    u = 1
    sixuPlus2NAF <- MCsixuPlus2NAF
    scalarBits = 8
    Miller <- MCMiller
    FinalExponentiation <- MCFinalExponentiation
    G1one <- MCG1one
    G2one <- MCG2one
    domainSize = 4
    nVars = 4
    nPublic = 1
    Matrix <- MCMatrix
    Toxic <- MCToxic
    coefs <- MCcoefs
    Witness <- MCWitness
    Stale = 11
    Random = {0, 5}
    nThreads = 3
    chunksPerThread = 2
    NLOCKS = 2
    Caller = {prover, rival}
    Prover = prover
    rivalCount = 2
    None = None
INVARIANTS
    OneWriter
    SumsComplete
    VerifiesIffSatisfied
    NoJobOutlivesItsCall
    PushedAlone
PROPERTY
    ParallelForReturns
CHECK_DEADLOCK FALSE
