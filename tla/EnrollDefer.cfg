SPECIFICATION Spec
CONSTANTS
    Runs <- TwoRuns
    FakeRuns <- NoRuns
    FormerRuns <- NoRuns
    Workers <- OneWorker
    Operations <- DeferOperations
    Answers <- EveryAnswer
    KeepFailed <- Either
    MaxRetries = 2
    MaxStarts = 5
    MaxCrashes = 2
PROPERTY SeatKept
CHECK_DEADLOCK FALSE
