CONSTANTS
    a = a
    b = b
    c = c
    d = d
    Releases <- MCReleases
    None = None
    MaxCrashes = 3
SPECIFICATION Spec
SYMMETRY Symmetry
INVARIANTS
    InstalledReleaseIsWhole
    NeverRefused
    RunsTidy
PROPERTIES
    UpdateKeepsPrevious
