SPECIFICATION Spec
CONSTANTS
    N = 2
    MaxCalls = 3
    MaxPolls = 1
    UserCalls = {"validate", "load", "options"}
    Writes = {}
    Faults <- AllFaults
INVARIANTS
    TypeOK
    ImportsOnlyWhileImporting
    SettledIsQuiet
    ValidatedIsWhole
    SuccessIsExact
    AppliedAtMostOnce
PROPERTIES
    ImplementsLifecycle
    PurgeSparesImports
    DamagedIsTerminal
CHECK_DEADLOCK FALSE
