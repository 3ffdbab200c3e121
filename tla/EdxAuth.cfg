SPECIFICATION Spec
CONSTANTS
    Workers = {w1, w2, w3}
    NoWorker = NoWorker
    MaxRequests = 5
    MaxExpiries = 2
    MaxRevoked = 1
    MaxFaults = 2
INVARIANTS StoredTokensComplete NoThunderingHerd StoredTokenIsLive
CHECK_DEADLOCK FALSE
SYMMETRY WorkerSymmetry
