CONSTANTS
    MaxPath = 6
    Nul = "nul"
    Second = 4
    MaxTimeout = 12
    DefaultTimeout = 8
    MaxInt = 31
    Exchanges <- MCExchanges
SPECIFICATION Spec
INVARIANTS
    TypeOK
    OnlyTheAuthorised
    AllowTellsTheTruth
    PathsAreClean
    HrefsComeBack
    TokensAsStated
    BodiesAsWritten
    TimeoutsAreCapped
CHECK_DEADLOCK FALSE
