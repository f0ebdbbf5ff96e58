CONSTANTS
    Modes <- MCModes
    PipeCapacity = 1
    MaxLines = 2
SPECIFICATION FairSpec
INVARIANTS
    StopCommandIsLast
    NothingOutlivesRun
PROPERTIES
    StopEnds
    RelayIsReleased
