--------------------------- MODULE MCRuntimeCache ----------------------------
(***************************************************************************)
(* RuntimeCache with three runtimes, one more than the cache keeps, and    *)
(* two names for the staging directories crashes leave behind.             *)
(***************************************************************************)
EXTENDS RuntimeCache, TLC

CONSTANTS java, node, python, t1, t2

MCRuntimes == {java, node, python}
MCStagings == {t1, t2}
Symmetry == Permutations(MCRuntimes) \cup Permutations(MCStagings)

==============================================================================
