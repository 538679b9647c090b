SPECIFICATION FairSpec
CONSTANTS
    N = 3
    Units = 1
    MaxSignals = 1
INVARIANTS
    FairArrival
    SuccessIsWhole
PROPERTIES
    NothingRuns
CHECK_DEADLOCK FALSE
