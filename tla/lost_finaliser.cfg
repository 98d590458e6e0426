SPECIFICATION FairSpec
CONSTANTS
    N = 2
    MaxCalls = 1
    MaxPolls = 1
    UserCalls = {"validate", "options"}
    Writes = {}
    Faults = {}
PROPERTIES
    RunsEnd
CHECK_DEADLOCK FALSE
