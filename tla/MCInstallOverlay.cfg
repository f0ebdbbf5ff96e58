CONSTANTS
    Files <- MCFiles
    OldManaged <- MCOldManaged
    Candidate <- MCCandidate
    UserFiles <- MCUserFiles
    UploadFiles <- MCUploadFiles
    Faults = {"restore", "removal"}
    MaxCrashes = 2
SPECIFICATION FairSpec
INVARIANTS
    PreviousTreeSurvives
    SettledTreeIsExact
PROPERTIES
    UserFilesAreKept
    TransactionEnds
    ImplementsAtomicSwitch
