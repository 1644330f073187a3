CONSTANTS
    Sides <- MCLong
    MaxLots = 3
    MaxCandles = 2
    MaxTroubles = 2
SPECIFICATION Spec
INVARIANTS
    TypeOK
    SinglePosition
    OwnedIsRecorded
PROPERTIES
    ExitsReduce
    ExitsTakeOwnLots
    RowSettles
