\* The reporter may be between its look at started and its print when Finish runs.
CONSTANTS
    Worker = {w1}
    NumPhases = 1
    MaxTasks = 1
SPECIFICATION Spec
INVARIANTS
    NothingAfterFinalReport
CHECK_DEADLOCK FALSE
