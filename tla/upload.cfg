SPECIFICATION Spec
CONSTANTS
    N = 2
    MaxCalls = 2
    MaxPolls = 1
    UserCalls = {"validate", "load", "upload"}
    Writes = {}
    Faults = {}
PROPERTIES
    PurgeSparesImports
CHECK_DEADLOCK FALSE
