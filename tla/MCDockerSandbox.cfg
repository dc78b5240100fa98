CONSTANTS
    Containers = {c1, c2, c3}
    Execs = {e1, e2}
    None = None
    Timeout = 5
    Interval = 2
SPECIFICATION Spec
INVARIANTS
    TypeOK
    KeepsInUse
    OneContainer
    IdleForgotten
SYMMETRY Symmetry
