CONSTANTS
    debian = debian
    ubuntu = ubuntu
    alpine = alpine
    Requests <- MCRequests
    None = None
    MaxKills = 2
SPECIFICATION VMSpec
SYMMETRY Symmetry
INVARIANTS
    CommittedVMIsComplete
PROPERTIES
    GuestDiskSurvives
