SPECIFICATION Spec
CONSTANTS
    N = 2
    MaxCalls = 2
    MaxPolls = 1
    UserCalls = {"validate", "run"}
    Writes = {}
    Faults = {}
INVARIANTS
    OutcomeIsTrue
CHECK_DEADLOCK FALSE
