SPECIFICATION FairSpec
CONSTANTS
    NumWorkers = 2
    PoolSize = 2
    Outer = 2
    Inner = 1
    Programs <- MCPrograms
INVARIANTS
    TypeOK
    RemainingIsRight
PROPERTIES
    LoopSpec
    EveryCallReturns
