SPECIFICATION FairSpec
CONSTANTS
    e1 = e1
    Evidence = {e1}
    MaxCands = 1
    MaxTries = 1
    MaxOps = 1
    LateFailures = TRUE
INVARIANTS
    TypeOK
    RowsBehindState
CHECK_DEADLOCK FALSE
