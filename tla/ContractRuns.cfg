SPECIFICATION FairSpec
CONSTANTS
    Workers = {w1, w2}
    FirstRuns = {"none", "in_use", "last_try", "taken_out"}
    ContractDates = {"dated", "undated"}
    Options = {"skip_edx", "keep_contract", "no_reruns", "force", "enrolled"}
    MaxRetries = 1
    MaxRuns = 2
    MaxCommands = 2
    MaxFaults = 1
INVARIANTS LiveOnlyUnderContract RunsHaveCauses
PROPERTIES SchedulesAgree RetirementHolds CloneSettles
CHECK_DEADLOCK FALSE
