SPECIFICATION FairSpec
CONSTANTS
    w = w
    r1 = r1
    t1 = t1
    Manual = {r1}
    Worker = w
    TaskId = t1
    CandidateIds = {}
    MaxEdits = 2
    MaxFaults = 1
INVARIANTS
    TypeOK
    DuplicatesBounded
PROPERTIES
    ForeignEditKept
    HumanVersionArrives
