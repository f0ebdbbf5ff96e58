CONSTANTS
    RootEntries <- MCRootEntries
    ControlEntries <- MCControlEntries
    StateEntry = 4
    KeptEntries <- MCKeptEntries
    OldEntries <- MCOldEntries
    SameIdentity = FALSE
    Legacy = TRUE
    WindowShut = TRUE
    UploadEntries = {1, 2}
    MaxCrashes = 2
SPECIFICATION Spec
INVARIANTS
    OldDataSurvives
    RunsOnOneInstallation
