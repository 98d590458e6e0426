SPECIFICATION Spec
CONSTANTS
    None = None
    PdfName = {"b.pdf"}
    Roles <- MCRoles
    LicenceId <- MCLicenceId
    Vocabulary <- MCVocabulary
    Message <- MCUpload
    Replacement <- MCReplacement
    Extension = {None, "csv", "xml"}
    RecordId = {1, 2, 3}
    MaxUploads = 3
    UploadsWhileReading = FALSE
INVARIANTS
    TypeOK
    GroupsFollowFile
    LinksMeet
    NobodyIsLost
    FilesKeepTheirNames
    WithdrawnIsNotImported
    ExportReimports
    LatestIsRead
CHECK_DEADLOCK FALSE
