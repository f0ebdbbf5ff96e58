CONSTANTS
    d = d
    f = f
    c = c
    Paths <- MCPaths
    Above <- MCAbove
    Configs <- MCConfigs
    Unsafe = Unsafe
    Stripped = Stripped
    Sizes <- MCSizes
    MaxEntries = 3
    MaxTotal = 4
    MaxFile = 2
    MaxLinks = 1
    MaxRatio = 2
    MaxCrashes = 1
SPECIFICATION Spec
INVARIANTS
    DoneIsComplete
PROPERTIES
    ExistingIsKept
