CONSTANTS
    Algo = TRUE
    MaxPositions = 2
SPECIFICATION Spec
PROPERTY
    OnlyOwnOrdersClose
CHECK_DEADLOCK FALSE
