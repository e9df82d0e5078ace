SPECIFICATION FairSpec
CONSTANTS
    Worker = {n1, n2}
    MaxJobs = 2
    Batches = 2
    Entities = 2
    MaxEvents = 2
CHECK_DEADLOCK FALSE
INVARIANTS
    TypeOK
    OneWorker
    OneMigration
    SuccessIsComplete
PROPERTIES
    FinalStays
    JobEnds
