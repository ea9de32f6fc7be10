CONSTANTS
    t1 = t1
    t2 = t2
    t3 = t3
    Token = {t1, t2, t3}
    Name <- MCName
    Resource <- MCResource
    MaxLocks = 2
    Timeouts <- MCTimeouts
    MaxTime = 1
SYMMETRY MCSymmetry
SPECIFICATION Spec
INVARIANTS
    TypeOK
    IndexesAgree
    Exclusive
    Bounded
PROPERTY ImplementsWriteLocks
