SPECIFICATION Spec
CONSTANTS
    Users = {u1, u2, u3}
    NoUser = NoUser
    Workers = {w1, w2}
    SeatChoices <- OneSeatOrAny
    FirstCodes <- NoneOrThree
    MaxCodes = 3
    MaxRecords = 3
    MaxOps = 4
    MaxMails = 2
    MaxTime = 2
    MaxCrashes = 1
INVARIANTS RedeemerIsMember SeatsNearlyKept SecretOnlyForAssignee StatusIsNewest
PROPERTIES RedemptionKept 
CHECK_DEADLOCK FALSE
SYMMETRY CodeSymmetry
