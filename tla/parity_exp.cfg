SPECIFICATION FairSpec
CONSTANTS
    N = 4
    Even = 2
    Odd = 1
    MaxSignals = 2
INVARIANTS
    NoneRunsUnchosen
    SuccessIsExact
PROPERTIES
    NothingRuns
    SchedulerReleased
CHECK_DEADLOCK FALSE
