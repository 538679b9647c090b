SPECIFICATION Spec
CONSTANTS
    N = 2
    Units = 1
    MaxSignals = 0
INVARIANTS
    StoppedMeansIncomplete
CHECK_DEADLOCK FALSE
