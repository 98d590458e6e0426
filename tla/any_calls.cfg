SPECIFICATION Spec
CONSTANTS
    N = 1
    MaxCalls = 3
    MaxPolls = 0
    UserCalls = {"validate", "load", "status", "upload", "run", "delete"}
    Writes = {"validated"}
    Faults = {}
INVARIANTS
    OnlyValidatedIsApplied
    LinkedWasApplied
PROPERTIES
    PurgedStaysPurged
    DeletedStaysDeleted
CHECK_DEADLOCK FALSE
