SPECIFICATION Spec
CONSTANT MaxRecords = 4
INVARIANTS
    TypeOK
    NeverDamaged
    StatusDescribesRecords
PROPERTIES
    ProgressIsForward
CHECK_DEADLOCK FALSE
