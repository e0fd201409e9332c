SPECIFICATION FairSpec
CONSTANTS
    Callers = {c1, c2}
    Capacity = 1
    Tokens = {t1, t2, t3, t4, t5}
    NoToken = NoToken
    Flows = {f1}
    NoFlow = NoFlow
    MaxCalls = 3
    MaxFaults = 1
INVARIANTS
    BudgetKept
    BearerAccepted
    UsableUntilFault
PROPERTY
    CallsEnd
