SPECIFICATION Spec
CONSTANTS
    Commands <- MCCommands
    UnitCosts = {1, 2, 3}
    Second = 12
    Limit = 4
    MaxHeld = 5
INVARIANTS
    SleepIndependent
    LateIsBacklog
    MeasuresInClass
    RateIsOfCpuTime
CHECK_DEADLOCK FALSE
