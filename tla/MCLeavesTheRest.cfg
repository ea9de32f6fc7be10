CONSTANTS
    c1 = c1
    c2 = c2
    Client = {c1, c2}
    Headers <- MCAppends
    Plain = {0, 1}
    InitSize = 1
    MaxBody = 2
    MaxInt = 7
SPECIFICATION Spec
PROPERTY LeavesTheRest
