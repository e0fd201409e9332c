SPECIFICATION FairSpec
CONSTANTS
    m1 = m1
    m2 = m2
    r = r
    p = p
    n = n
    u = u
    v = v
    c1 = c1
    c2 = c2
    e1 = e1
    e2 = e2
    Nothing = Nothing
    Refs = {m1, m2, r}
    Matters = {m1, m2}
    Exact <- MCExact
    Alike <- MCAlike
    People = {p}
    Names = {n}
    Users = {u, v}
    Called <- MCCalled
    Roles <- MCRoles
    Events = {e1, e2}
    Cands = {c1, c2}
    CandsOf <- MCCandsOf
    Extracted <- MCExtracted
    Assignee <- MCAssignee
    Contact <- MCContact
    Participant <- MCParticipant
    Known = {m2}
    MaxEdits = 1
    MaxFaults = 1
INVARIANTS
    UnknownWasQuestioned
    GuessWasQuestioned
PROPERTIES
    MovedOnlyByStaleGuess
    CacheForgets
    JobsSettle
