SPECIFICATION FairSpec
CONSTANTS
    N = 2
    MaxCalls = 3
    MaxPolls = 1
    UserCalls = {"validate", "load"}
    Writes = {}
    Faults = {"publish", "job_crash", "slow"}
INVARIANTS
    SuccessIsExact
    AppliedAtMostOnce
    OutcomeIsTrue
PROPERTIES
    RunsEnd
CHECK_DEADLOCK FALSE
