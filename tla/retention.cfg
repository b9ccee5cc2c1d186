SPECIFICATION Spec
CONSTANTS
    Nothing = Nothing
    Jobs = {j1, j2}
    Owners = {ann, bob}
    Folders = {f1, f2}
    Names = {n1, n2}
    Keys = {k1}
    Params = {p1}
    Submitter <- TwoSubmitters
    Keep = {}
    SqlStore = TRUE
    MaxCrashes = 1
    MaxRequeues = 1
INVARIANTS
    RetentionTypeOK
    OneJobPerKey
    RetriesDoNotRerun
    FiledInOwnFolder
    FolderNamesDistinct
PROPERTIES
    ArchivedSurviveCleanup
CHECK_DEADLOCK FALSE
SYMMETRY InterchangeableFolders
