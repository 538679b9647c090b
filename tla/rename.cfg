SPECIFICATION FairSpec
CONSTANTS
    c1 = c1
    c2 = c2
    p = p
    q = q
    r = r
    None = None
    Cpus <- MCCpus
    Tasks <- MCTasks
    Allowed <- MCAllowed
    Keys <- MCKeys
    InitKey <- MCInitKey
    Class <- MCClass
    Renamers = {p}
    Sleepers = {p, q}
INVARIANTS
    AlternationBound
PROPERTIES
    EveryTaskServed
