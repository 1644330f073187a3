CONSTANTS
    Strategies = {s1, s2}
    Symbol <- MCOneSymbol
    Requests = {r1, r2}
    Ops = {"start", "stop", "delete", "pause"}
    Tasks = {t1, t2}
    MaxConcurrent = 1
    MaxRestarts = 1
    None = None
SPECIFICATION Spec
SYMMETRY MCSymmetry
INVARIANTS
    TypeOK
    NoOrphan
    TaskLimit
PROPERTIES
    ImplementsTraders
CHECK_DEADLOCK FALSE
