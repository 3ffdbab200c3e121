SPECIFICATION Spec
CONSTANTS
    Users = {u1, u2}
    Visitors = {u1}
    Registered = {u2}
    Names <- NameSet
    Desired <- Wanted
    Others <- TakenInEdx
    LtiUsers = {u1}
    Workers = {w1, w2}
    NoName = NoName
    Nobody = Nobody
    MaxAttempts = 2
    MaxRequests = 1
    MaxGenerated = 1
    MaxFaults = 1
    MaxEdits = 1
INVARIANTS SyncedNameIsInEdx
PROPERTIES OnceSynced EveryLearnerSettles
CHECK_DEADLOCK FALSE
