SPECIFICATION FairSpec
CONSTANTS
    e1 = e1
    Evidence = {e1}
    MaxCands = 2
    MaxTries = 2
    MaxOps = 0
    LateFailures = FALSE
INVARIANTS
    FirstAttemptRuns
    NothingLost
PROPERTIES
    StateAdvances
    JobsSettle
CHECK_DEADLOCK FALSE
