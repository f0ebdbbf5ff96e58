CONSTANTS
    world = world
    config = config
    Names <- MCNames
    Dirs <- MCDirs
    EntryChanges = FALSE
    MaxCrashes = 2
SPECIFICATION Spec
INVARIANTS
    MadeIsComplete
PROPERTIES
    UserDataSurvives
    ReleaseSurvives
