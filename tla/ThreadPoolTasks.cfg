SPECIFICATION FairSpec
CONSTANTS
    NumWorkers = 2
    Script <- MCScript
INVARIANTS
    TypeOK
    NoUseAfterDelete
    OncePerWorker
    CleanlyKilled
PROPERTIES
    ProgramEnds
