CONSTANTS
    Installs <- MCInstalls
    ResetPairs <- MCResetPairs
    Modes <- MCModes
    MaxNonces = 2
    MaxCrashes = 2
SPECIFICATION FairSpec
INVARIANTS
    RunsCompleteInstallation
    PartialTreeIsGuarded
    NonceIsUsedOnce
PROPERTIES
    InstallationIsNeverForgotten
    ResetIsConfirmed
    OperationsResolve
