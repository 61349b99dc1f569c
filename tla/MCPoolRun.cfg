CONSTANTS
    Workers = 3
    N = 4
SPECIFICATION FairSpec
INVARIANTS
    TypeOK
    HandedOncePrefix
    ClaimedIsOwned
    Barrier
    LateClaimsBounded
PROPERTIES
    Terminates
    ImplementsWorkOnce
CHECK_DEADLOCK FALSE
