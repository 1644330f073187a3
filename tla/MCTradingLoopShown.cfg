CONSTANTS
    Sides <- MCLong
    MaxLots = 2
    MaxCandles = 2
    MaxTroubles = 2
SPECIFICATION Spec
PROPERTY RecordedIsShown
