SPECIFICATION FairSpec
CONSTANTS
    c1 = c1
    c2 = c2
    c3 = c3
    e1 = e1
    e2 = e2
    m1 = m1
    p1 = p1
    p2 = p2
    p3 = p3
    Candidates = {c1, c2, c3}
    Cand <- Triage
    Matters = {m1}
    NoMatter = NoMatter
    LockIds = {u1, u2}
    NoId = NoId
    MaxRetries = 1
    Overrunners = {}
    MaxTries = 1
    MaxStalls = 0
    MaxEdits = 0
    NoTask = NoTask
PROPERTY
    JobsSettle
CHECK_DEADLOCK FALSE
