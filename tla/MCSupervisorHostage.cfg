CONSTANTS
    Modes <- MCModes
    PipeCapacity = 1
    MaxLines = 2
SPECIFICATION FairSpec
PROPERTY EscalationIsNotHeldHostage
