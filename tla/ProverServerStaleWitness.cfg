SPECIFICATION Spec
CONSTANTS
    Client = {c1}
    Circuit = {k1}
    Provable = {k1}
    Input = {i1, unsat}
    Malformed = {}
    Satisfiable = {i1}
    Foreign = {}
    NoInput = noInput
    None = none
    MaxKills = 0
INVARIANTS
    AnswerMatchesRequest
