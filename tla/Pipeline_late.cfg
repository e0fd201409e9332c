SPECIFICATION Spec
CONSTANTS
    e1 = e1
    Evidence = {e1}
    MaxCands = 1
    MaxTries = 2
    MaxOps = 0
    LateFailures = TRUE
PROPERTY
    SkippedIsPast
CHECK_DEADLOCK FALSE
