SPECIFICATION BenchSpec
CONSTANT MaxSignals = 2
INVARIANTS
    EndedClean
    NoResultAfterTrap
