CONSTANTS
    Strategies = {s1, s2}
    Three = {s1, s2, s3}
    Account = account
    Runners = {r1, r2}
    Positions = {p1, p2}
    loop1 = loop1
    stream1 = stream1
    manual2 = manual2
    exit1 = exit1
    exit2 = exit2
    Calls = {loop1, stream1, manual2}
    Exits = {exit1, exit2}
    Loops = {t1, t2}
    None = none
    Side = "LONG"
    Threshold = 1
    Cooldown = 1
    MaxChecks = 1
    MaxRiskEvents = 1
    MaxPositions = 3
    MaxEvents = 2
    EntryQty <- MCEntryQty
    Named = {1, 2}
    ExitQty <- MCExitQty
    ExitOf <- MCExitOf
    External <- MCExternal
    ExposureLimit = 4
    Estimate <- MCEstimate
    AccountLimits <- MCAccountLimits
    Configs <- MCConfigs
    Balance = 100
    Gains <- MCGains
    Prices = {1, 2}
    Quantities <- MCQuantities
    Rate = 6
    MaxFills = 3
    ReadLimit = 2
    Kept = 2
    MaxOrders = 2
    MaxClosed = 2
SPECIFICATION Spec
SYMMETRY Symmetry
INVARIANTS
    TypesOK
    AccountedOnce
    TradesMatched
    TradesRecorded
    
    RowsTellLoops
    OrderOnce
PROPERTIES
    RiskStops
    LimitsKept
CHECK_DEADLOCK FALSE
