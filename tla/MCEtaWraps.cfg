\* The estimate of a long phase with many tasks left wraps.
CONSTANTS
    Width = 9
    MaxElapsed = 60
    MaxTasks = 12
SPECIFICATION Spec
INVARIANTS
    NeverNegative
CHECK_DEADLOCK FALSE
