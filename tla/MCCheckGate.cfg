\* One path, two contents of which one passes; the last stamp is kept.
CONSTANTS
    p = p
    good = good
    bad = bad
    worse = worse
    NoEntry = NoEntry
    Path = {p}
    Blob = {good, bad}
    Passing <- MCPassing
    Lines <- MCLines
    StampLimit = 1
    OthersMove = TRUE
SPECIFICATION Spec
INVARIANTS
    TypeOK
    StampsAreGreen
PROPERTIES
    CommitsAttested
CHECK_DEADLOCK FALSE
