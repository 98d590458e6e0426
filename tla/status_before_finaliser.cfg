SPECIFICATION Spec
CONSTANTS
    N = 2
    MaxCalls = 2
    MaxPolls = 1
    UserCalls = {"validate", "load", "status"}
    Writes = {}
    Faults = {}
INVARIANTS
    ImportsOnlyWhileImporting
CHECK_DEADLOCK FALSE
