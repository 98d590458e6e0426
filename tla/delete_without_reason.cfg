SPECIFICATION ValidatedSpec
CONSTANTS
    File <- MCFile
    Community = {c1}
    UnknownCommunity = {}
    RestrictedCommunity = {}
    CommunityRequired = FALSE
    Group = {g1}
    Role = {g1}
    SubmittedRow <- MCRow
    MaxRuns = 2
    MaxRecords = 2
PROPERTIES
    DeletionNeedsOnlyAnId
CHECK_DEADLOCK FALSE
