CONSTANTS
    c1 = c1
    c2 = c2
    t1 = t1
    t2 = t2
    Client = {c1, c2}
    Token = {t1, t2}
    Name <- MCName
    Resource <- MCResource
    InitTree <- MCInitTree
    Requests <- MCLockRequests
    Unreliable <- MCUnreliable
    MaxLocks = 2
    Timeouts = {0}
    MaxTime = 1
SYMMETRY MCSymmetry
SPECIFICATION Spec
INVARIANTS
    TypeOK
    ActsWithinLocks
PROPERTIES
    ReleasedOnlyWhenGone
    LocksGoWithTheirResource
