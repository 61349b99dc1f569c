\* The 5x5 board.
SPECIFICATION Spec
CONSTANTS
    Size = 5
    NumCPU = 4
    CommandLines <- MCCommandLines
    Depths = {13, 25}
    KnownTours = 1728
INVARIANTS
    TotalExact
    ReversalExact
    WholeOrbits
CHECK_DEADLOCK FALSE
