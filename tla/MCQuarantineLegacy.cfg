CONSTANTS
    RootEntries <- MCRootEntries
    ControlEntries <- MCControlEntries
    StateEntry = 4
    KeptEntries <- MCKeptEntries
    OldEntries <- MCOldEntries
    SameIdentity = FALSE
    Legacy = TRUE
    WindowShut = TRUE
    UploadEntries = {}
    MaxCrashes = 1
SPECIFICATION FairSpec
PROPERTY ResetResolves
