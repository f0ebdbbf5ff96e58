CONSTANTS
    RootEntries <- MCRootEntries
    ControlEntries <- MCControlEntries
    StateEntry = 4
    KeptEntries <- MCKeptEntries
    OldEntries <- MCOldEntries
    SameIdentity = FALSE
    Legacy = FALSE
    WindowShut = TRUE
    UploadEntries = {}
    MaxCrashes = 2
SPECIFICATION FairSpec
INVARIANTS
    TypeOK
    OldDataSurvives
    RunsOnOneInstallation
    RestoreJournalIsAccurate
PROPERTIES
    CommitIsFinal
    ResetResolves
    ImplementsAtomicSwitch
