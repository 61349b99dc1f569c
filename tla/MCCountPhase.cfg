\* Batches of two, one slot, two consumers: every full batch can block.
CONSTANTS
    Workers = 2
    Table <- MCTable
    Classes <- MCClasses
    ClaimB = 2
    GranC = 1
    CapK = 1
SPECIFICATION FairSpec
INVARIANTS
    TypeOK
    TaskAccounted
    RegisteredFirst
    CompleteRun
    TotalIsPublished
PROPERTIES
    Terminates
    ImplementsWorkOnce
CHECK_DEADLOCK FALSE
