CONSTANTS
    Calls = {c1, c2, c3}
    FailureThreshold <- MCFailureThreshold
    SuccessThreshold <- MCSuccessThreshold
SPECIFICATION Spec
PROPERTY
    HalfOpenEnds
CHECK_DEADLOCK FALSE
