CONSTANTS
    c1 = c1
    c2 = c2
    t1 = t1
    Client = {c1, c2}
    Token = {t1}
    Name <- MCName
    Resource <- MCResource
    InitTree <- MCInitTree
    Requests <- MCTreeRequests
    Unreliable <- MCTreeUnreliable
    MaxLocks = 1
    Timeouts = {0}
    MaxTime = 0
SPECIFICATION FairSpec
INVARIANTS
    RefusalsChangeNothing
PROPERTIES
    RowsTellWhatIsLeft
    StalledUploadsBlockNobody
