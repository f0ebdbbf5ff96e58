-------------------------- MODULE MCInstallOverlay ---------------------------
(***************************************************************************)
(* InstallOverlay on five files: one the update replaces (1), one it       *)
(* removes (2), two it adds (3 and 4), and one of the user (5). The user   *)
(* may upload to 2 and to 4.                                               *)
(***************************************************************************)
EXTENDS InstallOverlay

MCFiles == 1 .. 5
MCOldManaged == {1, 2}
MCCandidate == {1, 3, 4}
MCUserFiles == {5}
MCUploadFiles == {2, 4}

==============================================================================
