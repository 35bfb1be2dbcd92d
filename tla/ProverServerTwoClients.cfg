SPECIFICATION Spec
CONSTANTS
    Client = {c1, c2}
    Circuit = {k1}
    Provable = {k1}
    Input = {i1}
    Malformed = {}
    Satisfiable = {i1}
    Foreign = {}
    NoInput = noInput
    None = none
    MaxKills = 0
PROPERTIES
    PollingEnds
CHECK_DEADLOCK FALSE
