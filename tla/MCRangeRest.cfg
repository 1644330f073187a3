CONSTANTS
    Uses <- Live
    MaxInvalid = 2
    EnableShort = TRUE
    MaxCandle = 5
    MaxRestarts = 1
SPECIFICATION Spec
INVARIANTS WaitsNoLonger
CHECK_DEADLOCK FALSE
