CONSTANTS
    c1 = c1
    c2 = c2
    Client = {c1, c2}
    Headers <- MCHeaders
    Plain = {0, 1}
    InitSize = 1
    MaxBody = 2
    MaxInt = 7
SYMMETRY MCSymmetry
SPECIFICATION Spec
INVARIANTS
    TypeOK
    HandlesClosed
    RefusalsChangeNothing
    AcknowledgedIsDurable
    NoUnsentBytes
