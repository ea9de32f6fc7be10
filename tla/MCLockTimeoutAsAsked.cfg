CONSTANTS
    MaxPath = 6
    Nul = "nul"
    Second = 4
    MaxTimeout = 12
    DefaultTimeout = 8
    MaxInt = 31
    Exchanges <- MCExchanges
SPECIFICATION Spec
INVARIANTS
    LockTimeoutAsAsked
CHECK_DEADLOCK FALSE
