SPECIFICATION Spec
CONSTANTS
    Handle = {h1}
    NPublic = 3
    Size32 = 256
    Size64 = 65536
    BnPrime = 97
    Zkey <- MCZkey
    Wtns <- MCWtns
    Truncated <- MCTruncated
    contents <- MCcontents
    SignalDigits <- MCSignalDigits
    ProofDigits <- MCProofDigits
    Capacity <- MCCapacity
    None = none
INVARIANTS
    TypeOK
    OutputFits
    AdvertisedSizesSuffice
    ReadsInside
    TruncatedRejected
\* The process may crash.
CHECK_DEADLOCK FALSE
