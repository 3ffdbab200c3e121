SPECIFICATION FairSpec
CONSTANTS
    Runs <- OneRun
    FakeRuns <- NoRuns
    FormerRuns <- OneRun
    Workers <- TwoWorkers
    Operations <- RaceOperations
    Answers <- EveryAnswer
    KeepFailed <- Either
    MaxRetries = 1
    MaxStarts = 2
    MaxCrashes = 1
INVARIANTS TypeOK EdxEvidence
PROPERTIES FailedIsRepaired EventuallyAgrees
CHECK_DEADLOCK FALSE
