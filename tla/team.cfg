SPECIFICATION RaceSpec
CONSTANTS
    c1 = c1
    A1 = A1
    A2 = A2
    A3 = A3
    B1 = B1
    None = None
    TheCpu = c1
    Cpus <- MCCpus
    Tasks <- MCTasks
    Allowed <- MCAllowed
    Keys <- MCKeys
    InitKey <- MCInitKey
    Class <- MCClass
    Renamers = {}
    Sleepers <- MCTasks
INVARIANTS
    EqualShare
PROPERTIES
    RoundRobin
