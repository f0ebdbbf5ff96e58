----------------------------- MODULE MCVMInstall -----------------------------
(***************************************************************************)
(* VMInstall with three requests, so that a stage, a committed machine and *)
(* the request of a boot can all differ.                                   *)
(***************************************************************************)
EXTENDS VMInstall, TLC

CONSTANTS debian, ubuntu, alpine

MCRequests == {debian, ubuntu, alpine}
Symmetry == Permutations(MCRequests)

==============================================================================
