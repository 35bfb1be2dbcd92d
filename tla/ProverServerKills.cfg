SPECIFICATION Spec
CONSTANTS
    Client = {c1, c2}
    Circuit = {k1}
    Provable = {k1}
    Input = {i1, i2, unsat, noInput}
    Malformed = {}
    Satisfiable = {i1, i2}
    Foreign = {}
    NoInput = noInput
    None = none
    MaxKills = 1
INVARIANTS
    TypeOK
    SuccessHasProof
PROPERTIES
    CancelWins
\* A post while a proof is running leaves the server stuck.
CHECK_DEADLOCK FALSE
