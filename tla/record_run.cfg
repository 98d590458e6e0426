SPECIFICATION ValidatedSpec
CONSTANTS
    File <- MCFile
    Community = {c1, c2}
    UnknownCommunity = {c3}
    RestrictedCommunity = {c2}
    CommunityRequired = FALSE
    Group = {g1, g2}
    Role = {g1}
    SubmittedRow <- MCRow
    MaxRuns = 2
    MaxRecords = 2
INVARIANTS
    TypeOK
    RecordTypeOK
    ValidatedNamesExisting
    ValidatedIsComplete
    NothingIsRefused
PROPERTIES
    ImplementsAtomicRun
    OutcomeIsHonest
    NoSecondRecord
    GrantsAreKept
    RestrictionsHold
    ImportsWereChecked
CHECK_DEADLOCK FALSE
