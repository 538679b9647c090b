SPECIFICATION Spec
CONSTANTS
    N = 2
    Even = 1
    Odd = 1
    MaxSignals = 0
INVARIANTS
    ReleasedAtEnd
CHECK_DEADLOCK FALSE
