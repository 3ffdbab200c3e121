SPECIFICATION FairSpec
CONSTANTS
    Workers = {w1, w2}
    NoWorker = NoWorker
    MinDelay = 1
    Window = 2
    MaxRequests = 2
    Lifetime = 3
    MaxRetries = 1
    MaxChanges = 2
    MaxErrors = 2
    MaxFaults = 1
INVARIANTS DuplicatesHaveCauses
PROPERTIES SlotsSpaced LastStateArrives
CHECK_DEADLOCK FALSE
