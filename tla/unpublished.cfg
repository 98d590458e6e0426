SPECIFICATION ValidatedSpec
CONSTANTS
    File <- MCFile
    Community = {c1}
    UnknownCommunity = {}
    RestrictedCommunity = {}
    CommunityRequired = FALSE
    Group = {g1}
    Role = {g1}
    SubmittedRow <- MCRow
    MaxRuns = 1
    MaxRecords = 1
PROPERTIES
    ImportsArePublished
CHECK_DEADLOCK FALSE
