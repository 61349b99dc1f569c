SPECIFICATION SuffixSpec
CONSTANTS
    Size = 4
    MaxTodo = 15
INVARIANTS
    VisitCutsSound
    GateCutsSound
    ClassIsCanonical
CHECK_DEADLOCK FALSE
