\* A cancelled phase that drops its tail batch may still end at 100%.
CONSTANTS
    Workers = 2
    Table <- MCTable
    Classes <- MCClasses
    ClaimB = 2
    GranC = 1
    CapK = 1
SPECIFICATION Spec
INVARIANTS
    DroppedStaysBelowFull
CHECK_DEADLOCK FALSE
