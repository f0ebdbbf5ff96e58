--------------------------- MODULE MCReleaseStore ----------------------------
(***************************************************************************)
(* ReleaseStore with one release more than a prune keeps, and one that the *)
(* kept ones can be removed for.                                           *)
(***************************************************************************)
EXTENDS ReleaseStore, TLC

CONSTANTS a, b, c, d

MCReleases == {a, b, c, d}
Symmetry == Permutations(MCReleases)

==============================================================================
