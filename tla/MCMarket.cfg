CONSTANTS
    Calls = {c1, c2, c3, c4}
    FailureThreshold <- MCFailureThreshold
    SuccessThreshold <- MCSuccessThreshold
    Strategies = {s1, s2}
    Positions = {p1, p2}
    Connections = {k1, k2, k3}
    Askers = {a1, a2, a3}
    Sockets = {u1, u2, u3}
    Requests = {r1, r2}
    Tasks = {t1, t2}
    Sessions = {d1, d2}
    None = none
    MaxRows = 2
    MaxCandle = 4
    MaxCount = 3
    MaxKey = 2
SPECIFICATION MarketSpec
INVARIANTS
    TypesOK
    ClosedBelowThreshold
    SlotsCovered
    ProbesBounded
    CandlesServed
    PositionsStreamed
    StreamKept
PROPERTIES
    LateAnswersDoNotClose
    BreakerRecovers
    ClosedIsProcessed
    Recovers
    LoopsEnd
CHECK_DEADLOCK FALSE
