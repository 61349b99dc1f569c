\* A line that passes over its check, one that edits, stages and commits, and a
\* check alone; nobody else writes.
CONSTANTS
    p = p
    good = good
    bad = bad
    worse = worse
    NoEntry = NoEntry
    Path = {p}
    Blob = {good, bad, worse}
    Passing <- MCPassing
    Lines <- MCGapLines
    StampLimit = 1
    OthersMove = FALSE
SPECIFICATION Spec
PROPERTIES
    FalseGreenClosed
CHECK_DEADLOCK FALSE
