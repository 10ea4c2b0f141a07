SPECIFICATION Spec
CONSTANTS
    NumWorkers = 2
    PoolSize = 1
    Outer = 2
    Inner = 1
    Programs <- MCForFor
INVARIANTS
    ReassignedGroupIsComplete
