CONSTANTS
    Strategies = {s1, s2}
    Symbol <- MCOneSymbol
    Requests = {r1, r2}
    Ops = {"start"}
    Tasks = {t1, t2}
    MaxConcurrent = 2
    MaxRestarts = 0
    None = None
SPECIFICATION Spec
INVARIANT
    SymbolExclusive
CHECK_DEADLOCK FALSE
