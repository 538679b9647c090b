SPECIFICATION FairSpec
CONSTANTS
    N = 2
    Units = 2
    MaxSignals = 2
INVARIANTS
    FairStart
    SuccessIsComplete
    SoloIsSolo
PROPERTIES
    NothingRuns
    SchedulerReleased
CHECK_DEADLOCK FALSE
