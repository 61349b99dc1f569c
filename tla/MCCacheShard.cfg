\* Three masks of up to five classes, contributions of 1 and 2 and sums of up to 3.
CONSTANTS
    m1 = m1
    m2 = m2
    m3 = m3
    Mask = {m1, m2, m3}
    Rep = {0, 1, 2, 3, 4}
    Weight = {0, 1, 2}
    WBase = 64
    RepLimit = 16
    MaxLog = 3
    MaxWeight = 3
SPECIFICATION PeakSpec
CONSTRAINTS
    MCClassesAscend
    MCOneSum
    MCClasses
SYMMETRY MCSymmetry
INVARIANTS
    TypeOK
    BlocksTileSlab
    ReadersAgree
    BlocksAtPeak
PROPERTIES
    ImplementsHistogram
CHECK_DEADLOCK FALSE
