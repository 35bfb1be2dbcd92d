SPECIFICATION Spec
CONSTANTS
    Client = {c1}
    Circuit = {k1, other, unknown}
    Provable = {k1, other}
    Input = {i1, i2, bad}
    Malformed = {bad}
    Satisfiable = {i1, i2}
    Foreign = {other}
    NoInput = noInput
    None = none
    MaxKills = 0
INVARIANTS
    AnswerMatchesRequest
PROPERTIES
    PollingEnds
