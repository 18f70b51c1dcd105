SPECIFICATION Spec
CONSTANTS
    States = {s0, s1, s2}
    Actions = {a1, a2}
    Start = s0
    Error = Error
SYMMETRY Symmetry
CHECK_DEADLOCK FALSE
INVARIANTS
    TypeOK
    Exhaustive
