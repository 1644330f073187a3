CONSTANTS
    Strategies = {s1, s2}
    Symbol <- MCOneSymbol
    Requests = {r1}
    Ops = {"start", "delete"}
    Tasks = {t1, t2}
    MaxConcurrent = 2
    MaxRestarts = 0
    None = None
SPECIFICATION Spec
PROPERTY
    DeleteStops
CHECK_DEADLOCK FALSE
