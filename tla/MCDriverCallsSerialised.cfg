CONSTANTS
    c1 = c1
    c2 = c2
    Client = {c1, c2}
    f = f
    Name = {f}
    Size <- MCSize
    Asks = {"allprop"}
SPECIFICATION Spec
INVARIANTS
    DriverCallsSerialised
