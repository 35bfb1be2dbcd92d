SPECIFICATION Spec
SYMMETRY Symmetry
CONSTANTS
    Caller = {p, q}
    Input = {good, bad}
    BadInput = {bad}
    Time = {1, 2}
    None = None
INVARIANTS
    
    LeftoversIgnored
