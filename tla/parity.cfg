SPECIFICATION Spec
CONSTANTS
    c1 = c1
    c2 = c2
    None = None
    Cpus <- MCCpus
    Tasks <- MCTasks
    Allowed <- MCAllowed
    Keys <- MCTasks
    InitKey <- MCInitKey
    Class <- MCClass
    Renamers = {}
    Sleepers <- MCSleepers
INVARIANTS
    TypeOK
    ExactlyOnce
    Affinity
    NoStranded
PROPERTIES
    SharesCpus
