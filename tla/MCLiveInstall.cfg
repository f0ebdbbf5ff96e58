CONSTANTS
    MaxCrashes = 2
SPECIFICATION LiveSpec
INVARIANTS
    PublishIsNeverLost
    GameIsWhole
PROPERTIES
    UserFilesSurvive
