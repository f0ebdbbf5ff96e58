CONSTANTS
    RootEntries <- MCRootEntries
    ControlEntries <- MCControlEntries
    StateEntry = 4
    KeptEntries <- MCKeptEntries
    OldEntries <- MCOldEntries
    SameIdentity = FALSE
    Legacy = FALSE
    WindowShut = FALSE
    UploadEntries = {}
    MaxCrashes = 2
SPECIFICATION Spec
INVARIANT OldDataSurvives
