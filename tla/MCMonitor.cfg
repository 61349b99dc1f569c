\* Two phases, two workers, two tasks each.
CONSTANTS
    Worker = {w1, w2}
    NumPhases = 2
    MaxTasks = 2
SPECIFICATION FairSpec
INVARIANTS
    TypeOK
    LineBelowFull
    FinalReportComplete
PROPERTIES
    ClosedPhaseFrozen
    SnapshotsGrow
    ReporterStops
CHECK_DEADLOCK FALSE
