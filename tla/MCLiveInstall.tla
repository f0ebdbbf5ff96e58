----------------------------- MODULE MCLiveInstall -----------------------------
(***************************************************************************)
(* LiveInstall needs no constants but the bound on crashes.                *)
(***************************************************************************)
EXTENDS LiveInstall

==============================================================================
