CONSTANTS
    java = java
    node = node
    python = python
    t1 = t1
    t2 = t2
    Runtimes <- MCRuntimes
    Stagings <- MCStagings
    None = None
    MaxCrashes = 2
    MaxPrunes = 1
SPECIFICATION Spec
SYMMETRY Symmetry
INVARIANTS
    RuntimeIsUsable
    CacheIsTidy
