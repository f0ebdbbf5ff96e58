CONSTANTS
    java = java
    node = node
    python = python
    t1 = t1
    t2 = t2
    Runtimes <- MCRuntimes
    Stagings <- MCStagings
    None = None
    MaxCrashes = 0
    MaxPrunes = 0
SPECIFICATION Spec
SYMMETRY Symmetry
INVARIANTS
    ActiveRuntimeIsKept
