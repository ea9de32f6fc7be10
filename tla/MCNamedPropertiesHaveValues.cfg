CONSTANTS
    c1 = c1
    Client = {c1}
    f = f
    Name = {f}
    Size <- MCSize
    Asks = {"allprop"}
SPECIFICATION Spec
INVARIANT NamedPropertiesHaveValues
