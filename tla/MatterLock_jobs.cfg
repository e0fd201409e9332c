SPECIFICATION FairSpec
CONSTANTS
    j1 = j1
    j2 = j2
    j3 = j3
    j4 = j4
    m1 = m1
    Jobs = {j1, j2, j3, j4}
    Matters = {m1}
    NoMatter = NoMatter
    MatterOf <- MCMatterOf
    LockIds = {u1, u2, u3, u4}
    NoId = NoId
    MaxRetries = 2
    Overrunners = {j3}
INVARIANTS
    MutexUnlessOverrun
    SingleOwner
PROPERTIES
    OnlyExpiryEvicts
    WaiterAnswered
    LockComesFree
