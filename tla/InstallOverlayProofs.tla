------------------------- MODULE InstallOverlayProofs -------------------------
(***************************************************************************)
(* Proofs about InstallOverlay: the files of the old release survive until *)
(* the commit, a settled server root holds exactly one release, the user's *)
(* files are kept, and the update is an atomic switch for the server.      *)
(***************************************************************************)
EXTENDS InstallOverlay, TLAPS

USE DEF loop, kills

(***************************************************************************)
(* The inductive invariant.                                                *)
(***************************************************************************)

\* Every file of the old release can be written back.
Intact == \A f \in OldManaged : backup[f] = "old"

\* Beside what the transaction touches there are only files of the user.
Beside == \A f \in Files \ Paths : live[f] \in {"none", "user"}

Written(f) == IF f \in Candidate THEN "new" ELSE "none"
Restored(f) == IF f \in OldManaged THEN "old" ELSE "none"

\* What transactions/<provider> holds. Once transaction.json exists no file of
\* the user is among those that the transaction touches.
Journal ==
    /\ \A f \in Files : backup[f] = "old" => f \in OldManaged
    /\ ~root => phase = "none" /\ \A f \in Files : backup[f] = "none"
    /\ phase = "none" => hadOld = {}
    /\ phase # "none" => root /\ hadOld = OldManaged /\ \A f \in Paths : live[f] # "user"
    /\ phase = "prepared" => state = "old"

\* How far each loop has come.
BackingUp ==
    pc = "backup" =>
        /\ root /\ state = "old" /\ phase = "none" /\ Sealed
        /\ \A f \in done : IF f \in OldManaged THEN backup[f] = "old" ELSE live[f] = "none"

Writing ==
    /\ pc = "write" => /\ phase = "prepared" /\ Intact
                       /\ \A f \in done : live[f] = Written(f)
    /\ pc = "installed" => /\ phase = "applied" /\ state = "old" /\ Intact
                           /\ \A f \in Paths : live[f] = Written(f)
    /\ pc = "commit" => phase = "applied" /\ state = "new"

Restoring ==
    pc = "restore" =>
        /\ phase # "none" /\ state = "old"
        /\ cont = "discard" => Intact
        /\ \A f \in done : live[f] = Restored(f)

\* The file that is being replaced is the one whose turn it is.
Replacing ==
    put # "none" => /\ pc \in {"write", "restore"}
                    /\ \E f \in Files : NextPath(f) /\ f \in Copied

Control ==
    /\ pc \in {"ready", "start", "running"} => ~root
    /\ pc \in {"backup", "write", "installed", "commit", "restore", "remove"} => root
    /\ BackingUp /\ Writing /\ Restoring /\ Replacing

\* Every file of the old release is in place or can be written back.
Recoverable == \A f \in OldManaged : live[f] = "old" \/ backup[f] = "old"

\* What the tree is good for when backups can always be written back.
Exact ==
    "restore" \notin faults =>
        /\ state = "old" /\ (phase = "none" \/ pc = "remove") => WholeOld
        /\ state = "old" /\ phase # "none" => Beside /\ Recoverable
        /\ state = "new" => WholeNew

\* A kill leaves at most one temporary.
Kills == crashes \in 0 .. MaxCrashes /\ orphans \in 0 .. crashes

Inv == TypeOK /\ Journal /\ Control /\ Exact /\ Kills

------------------------------------------------------------------------------

LEMMA InitEstablishesInv == Init => Inv
<1> SUFFICES ASSUME Init PROVE Inv
  OBVIOUS
<1> USE FilesAreRanks, OverlayFaults DEF Init
<1>1. TypeOK
  <2>1. live \in [Files -> Content] /\ backup \in [Files -> {"old", "none"}]
    BY DEF Content
  <2>2. crashes \in 0 .. MaxCrashes /\ hadOld \subseteq Paths /\ done \subseteq Paths
    OBVIOUS
  <2> QED BY <2>1, <2>2 DEF TypeOK, Steps, Continuations
<1>2. Journal /\ Control
  BY DEF Journal, Control, BackingUp, Writing, Restoring, Replacing
<1>3. WholeOld
  BY DEF WholeOld
<1>4. Kills
  BY DEF Kills
<1> QED BY <1>1, <1>2, <1>3, <1>4 DEF Inv, Exact

(***************************************************************************)
(* Steps that leave the disk alone.                                        *)
(***************************************************************************)

\* No file is being replaced outside the two loops, or at the end of one.
LEMMA Quiet == ASSUME Inv, pc \notin {"write", "restore"} \/ done = Paths PROVE put = "none"
BY DEF Inv, Control, Replacing, NextPath

LEMMA SameKills == ASSUME Inv, UNCHANGED kills PROVE Kills'
BY DEF Inv, Kills

LEMMA DiskUnchanged ==
    ASSUME Inv, UNCHANGED <<disk, faults>>, pc' \in Steps, done' \subseteq Paths,
           put' \in {"none", "temporary", "cleared"}, cont' \in Continuations, Kills', Control',
           "restore" \notin faults /\ pc' = "remove" /\ state = "old" => WholeOld
    PROVE  Inv'
BY OverlayFaults
   DEF Inv, TypeOK, Kills, Journal, Exact, WholeOld, WholeNew, Beside, Intact, Recoverable, disk

\* What the launcher may do next as long as nothing of it hangs on a loop.
LEMMA Idle ==
    ASSUME Inv, UNCHANGED disk, put' = "none",
           \/ pc' \in {"down", "recover"}
           \/ pc' \in {"ready", "start", "running"} /\ ~root
           \/ pc' = "remove" /\ root
    PROVE  Control'
BY DEF Control, BackingUp, Writing, Restoring, Replacing, disk

\* The same, for a step that leaves the kills alone, too.
LEMMA IdleKeepsInv ==
    ASSUME Inv, UNCHANGED <<disk, faults, kills>>, put' = "none", done' = done,
           pc' \in Steps, cont' \in Continuations,
           \/ pc' \in {"down", "recover"}
           \/ pc' \in {"ready", "start", "running"} /\ ~root
           \/ pc' = "remove" /\ root /\ ("restore" \notin faults /\ state = "old" => WholeOld)
    PROVE  Inv'
<1>1. Control'
  BY Idle
<1>2. Kills' /\ done' \subseteq Paths
  BY DEF Inv, TypeOK, Kills
<1> QED BY <1>1, <1>2, DiskUnchanged

LEMMA RecoveryKeepsInv == ASSUME Inv, Recovery PROVE Inv'
<1> USE DEF Steps, Continuations
<1>0. TypeOK /\ Kills
  BY DEF Inv
<1>1. CASE Boot \/ RecoverNothing
  <2>1. put' = "none"
    BY <1>1, Quiet DEF Boot, RecoverNothing
  <2> QED BY <1>0, <1>1, <2>1, IdleKeepsInv DEF Boot, RecoverNothing, TypeOK
<1>2. CASE RecoverByRemoval
  <2>1. put' = "none"
    BY <1>2, Quiet DEF RecoverByRemoval
  <2>2. "restore" \notin faults /\ state = "old" => WholeOld
    BY <1>2 DEF RecoverByRemoval, Inv, Exact
  <2> QED BY <1>2, <2>1, <2>2, IdleKeepsInv DEF RecoverByRemoval
<1>3. CASE RecoverByRestore
  <2>1. phase # "none" /\ state = "old"
    BY <1>0, <1>3 DEF RecoverByRestore, Inv, Journal, TypeOK
  <2>2. Control'
    BY <1>3, <2>1
       DEF RecoverByRestore, Inv, Journal, Control, BackingUp, Writing, Restoring, Replacing, disk
  <2> QED BY <1>0, <1>3, <2>2, DiskUnchanged DEF RecoverByRestore, Kills, disk
<1> QED BY <1>1, <1>2, <1>3 DEF Recovery

LEMMA FailureKeepsInv ==
    ASSUME Inv, Collision \/ BackupFails \/ WriteFails \/ InstallFails PROVE Inv'
<1> USE DEF Steps, Continuations
<1>0. TypeOK /\ Control /\ Kills
  BY DEF Inv
<1>1. CASE Collision \/ BackupFails
  <2>1. /\ pc = "backup" /\ pc' = "remove" /\ cont' = "failed"
        /\ UNCHANGED <<disk, loop, faults, kills>>
    BY <1>1 DEF Collision, BackupFails
  <2>2. root /\ ("restore" \notin faults => WholeOld)
    BY <1>0, <2>1 DEF Inv, Control, BackingUp, Exact
  <2> QED BY <2>1, <2>2, Quiet, IdleKeepsInv
<1>2. CASE WriteFails \/ InstallFails
  <2>1. /\ pc \in {"write", "installed"} /\ pc' = "restore" /\ done' = {} /\ put' = "none"
        /\ cont' \in {"discard", "failed"} /\ UNCHANGED <<disk, faults, kills>>
    BY <1>2 DEF WriteFails, InstallFails
  <2>2. phase # "none" /\ root /\ state = "old" /\ Intact
    BY <1>0, <2>1 DEF Inv, Journal, Control, Writing
  <2>3. Control'
    BY <2>1, <2>2 DEF Control, BackingUp, Writing, Restoring, Replacing, Intact, disk
  <2> QED BY <1>0, <2>1, <2>3, DiskUnchanged DEF Kills, disk
<1> QED BY <1>1, <1>2

\* A restore that goes through every path has the old release back.
LEMMA RestoredIsWhole ==
    ASSUME Inv, pc = "restore", done = Paths, "restore" \notin faults
    PROVE  WholeOld
<1>1. Beside /\ \A f \in Paths : live[f] = Restored(f)
  BY DEF Inv, Control, Restoring, Exact, TypeOK
<1> QED BY <1>1, FilesAreRanks DEF WholeOld, Beside, Restored, Paths

LEMMA RestoreEndKeepsInv ==
    ASSUME Inv, BackupMissing \/ RestoreFails \/ RestoreDone PROVE Inv'
<1> USE DEF Steps, Continuations
<1>0. TypeOK /\ Control /\ pc = "restore" /\ root
  BY DEF Inv, Control, BackupMissing, RestoreFails, RestoreDone
<1>1. CASE RestoreDone
  BY <1>0, <1>1, Quiet, IdleKeepsInv, RestoredIsWhole DEF RestoreDone
<1>2. CASE BackupMissing \/ RestoreFails
  <2>1. GiveUpRestore
    BY <1>2 DEF BackupMissing, RestoreFails
  <2>2. cont = "discard" => "restore" \in faults
    BY <1>0, <1>2 DEF BackupMissing, RestoreFails, Inv, Journal, Control, Restoring, Intact
  <2> QED BY <1>0, <2>1, <2>2, IdleKeepsInv DEF GiveUpRestore
<1> QED BY <1>1, <1>2

LEMMA LaunchKeepsInv == ASSUME Inv, Launch \/ RefuseLaunch \/ Stop \/ Crash PROVE Inv'
<1> USE DEF Steps, Continuations
<1>0. TypeOK /\ Control /\ Kills
  BY DEF Inv
<1>1. CASE Launch \/ RefuseLaunch \/ Stop
  <2>1. put' = "none" /\ (Launch => ~root)
    BY <1>0, <1>1, Quiet DEF Launch, RefuseLaunch, Stop, Control
  <2> QED BY <1>0, <1>1, <2>1, IdleKeepsInv DEF Launch, RefuseLaunch, Stop, TypeOK
<1>2. CASE Crash
  <2>1. Kills'
    BY <1>0, <1>2, OverlayFaults DEF Crash, Kills
  <2>2. Control'
    BY <1>2, Idle DEF Crash
  <2> QED BY <1>2, <2>1, <2>2, DiskUnchanged DEF Crash
<1> QED BY <1>1, <1>2

LEMMA CommitKeepsInv == ASSUME Inv, CommitOverlay PROVE Inv'
<1>1. root /\ state = "new" /\ put = "none"
  BY Quiet DEF CommitOverlay, Inv, Control, Writing
<1> QED BY <1>1, IdleKeepsInv DEF CommitOverlay, Steps, Continuations

(***************************************************************************)
(* Steps that change it.                                                   *)
(***************************************************************************)

LEMMA BeginKeepsInv == ASSUME Inv, BeginUpdate PROVE Inv'
<1> USE FilesAreRanks DEF BeginUpdate
<1>1. TypeOK'
  BY DEF Inv, TypeOK, Steps
<1>2. Journal'
  BY DEF Inv, Journal
<1>3. phase = "none" /\ Sealed'
  BY DEF Inv, Control, Journal, Sealed
<1>4. Control'
  BY <1>3, Quiet DEF Control, BackingUp, Writing, Restoring, Replacing
<1>5. Exact'
  BY <1>3 DEF Inv, Exact, WholeOld, WholeNew
<1> QED BY <1>1, <1>2, <1>4, <1>5, SameKills DEF Inv

LEMMA BackupKeepsInv == ASSUME Inv, NEW f \in Files, BackupFile(f) PROVE Inv'
<1> USE FilesAreRanks DEF BackupFile
<1>0. TypeOK /\ Journal /\ Control /\ Exact /\ BackingUp
  BY DEF Inv, Control
<1>1. /\ root /\ state = "old" /\ phase = "none" /\ f \in Paths
      /\ \A g \in OldManaged : live[g] = "old"
  BY <1>0 DEF BackingUp, Sealed, NextPath
<1>2. backup'[f] = IF f \in OldManaged THEN "old" ELSE "none"
  BY <1>0, <1>1 DEF TypeOK
<1>3. \A g \in Files \ {f} : backup'[g] = backup[g]
  BY <1>0 DEF TypeOK
<1>4. TypeOK'
  BY <1>0, <1>1, <1>2 DEF TypeOK
<1>5. Journal'
  BY <1>0, <1>1, <1>2, <1>3 DEF Journal, Paths
<1>6. BackingUp'
  BY <1>0, <1>1, <1>2, <1>3 DEF BackingUp, Sealed, TypeOK, Paths
<1>7. Control'
  BY <1>0, <1>6, Quiet DEF Control, Writing, Restoring, Replacing
<1>8. Exact'
  BY <1>0, <1>1 DEF Exact, WholeOld, WholeNew
<1> QED BY <1>4, <1>5, <1>7, <1>8, SameKills DEF Inv

LEMMA PrepareKeepsInv == ASSUME Inv, Prepare PROVE Inv'
<1> USE FilesAreRanks DEF Prepare
<1>0. TypeOK /\ Journal /\ BackingUp /\ Exact
  BY DEF Inv, Control
<1>1. /\ root /\ state = "old" /\ Sealed
      /\ \A f \in Paths : IF f \in OldManaged THEN backup[f] = "old" ELSE live[f] = "none"
  BY <1>0 DEF BackingUp
<1>2. Intact /\ \A f \in Paths : live[f] # "user"
  BY <1>1 DEF Intact, Sealed, Paths
<1>3. hadOld' = OldManaged
  <2>1. \A f \in Paths : backup[f] # "none" <=> f \in OldManaged
    BY <1>0, <1>1 DEF TypeOK, Journal, Paths
  <2> QED BY <2>1 DEF Paths
<1>4. TypeOK'
  BY <1>0 DEF TypeOK, Steps
<1>5. Journal'
  BY <1>0, <1>1, <1>2, <1>3 DEF Journal
<1>6. Control'
  BY <1>1, <1>2, Quiet DEF Control, BackingUp, Writing, Restoring, Replacing, Intact
<1>7. Exact'
  BY <1>0, <1>1, <1>2 DEF Exact, BackingUp, WholeOld, Beside, Intact, Recoverable, Paths
<1> QED BY <1>4, <1>5, <1>6, <1>7, SameKills DEF Inv

\* Only one file has its turn.
LEMMA OneNextPath == \A f, g \in Files : NextPath(f) /\ NextPath(g) => f = g
BY FilesAreRanks DEF NextPath

LEMMA ReplaceKeepsInv == ASSUME Inv, NEW f \in Files, StartFile(f) \/ ClearFile(f) PROVE Inv'
<1> USE FilesAreRanks
<1>0. TypeOK /\ Journal /\ Control /\ Exact /\ Kills
  BY DEF Inv
<1>1. /\ pc \in {"write", "restore"} /\ UNCHANGED <<backup, root, phase, hadOld, state, pc, done>>
      /\ NextPath(f) /\ f \in Copied /\ f \in Paths \ done
      /\ put' \in {"temporary", "cleared"} /\ UNCHANGED <<cont, faults, kills>>
  <2>1. CASE StartFile(f)
    BY <2>1 DEF StartFile, Copied, NextPath, disk
  <2>2. CASE ClearFile(f)
    BY <1>0, <2>2, OneNextPath DEF ClearFile, Control, Replacing, NextPath
  <2> QED BY <2>1, <2>2
<1>2. \A g \in Files \ {f} : live'[g] = live[g]
  BY <1>0 DEF StartFile, ClearFile, TypeOK, disk
<1>3. live'[f] \in {live[f], "none"} /\ live' \in [Files -> Content]
  BY <1>0 DEF StartFile, ClearFile, TypeOK, Content, disk
<1>4. /\ phase # "none" /\ root /\ state = "old"
      /\ f \in OldManaged => backup[f] = "old"
  <2>1. CASE pc = "write"
    BY <1>0, <1>1, <2>1 DEF Journal, Control, Writing, Intact
  <2>2. CASE pc = "restore"
    <3>1. f \in hadOld /\ backup[f] # "none"
      BY <1>1, <2>2 DEF Copied
    <3> QED BY <1>0, <2>2, <3>1 DEF TypeOK, Control, Restoring
  <2> QED BY <1>1, <2>1, <2>2
<1>5. TypeOK' /\ Kills'
  <2>1. TypeOK'
    BY <1>0, <1>1, <1>3 DEF TypeOK, Steps
  <2> QED BY <1>1, <2>1, SameKills
<1>6. Journal'
  <2>1. \A g \in Paths : live'[g] # "user"
    BY <1>0, <1>2, <1>3, <1>4 DEF Journal, Paths
  <2> QED BY <1>0, <1>1, <2>1 DEF Journal
<1>7. Replacing'
  BY <1>1 DEF Replacing, NextPath, Copied
<1>8. (BackingUp /\ Writing /\ Restoring)'
  BY <1>0, <1>1, <1>2
     DEF Control, BackingUp, Writing, Restoring, Intact, Written, Restored, TypeOK, Paths
<1>9. Control'
  BY <1>0, <1>1, <1>7, <1>8 DEF Control
<1>10. Exact'
  BY <1>0, <1>1, <1>2, <1>3, <1>4 DEF Exact, Beside, Recoverable
<1> QED BY <1>5, <1>6, <1>9, <1>10 DEF Inv

LEMMA WriteKeepsInv == ASSUME Inv, NEW f \in Files, WriteFile(f) PROVE Inv'
<1> USE FilesAreRanks DEF WriteFile, Replaces
<1>0. TypeOK /\ Journal /\ Control /\ Exact
  BY DEF Inv
<1>1. /\ root /\ state = "old" /\ phase = "prepared" /\ Intact /\ f \in Paths
      /\ \A g \in done : live[g] = Written(g)
  BY <1>0 DEF Control, Writing, Journal, NextPath
<1>2. live'[f] = Written(f) /\ \A g \in Files \ {f} : live'[g] = live[g]
  BY <1>0 DEF TypeOK, Written
<1>3. TypeOK'
  BY <1>0, <1>1 DEF TypeOK, Content
<1>4. Journal'
  BY <1>0, <1>1, <1>2 DEF Journal, Written, Paths
<1>5. Control'
  BY <1>0, <1>1, <1>2
     DEF Control, BackingUp, Writing, Restoring, Replacing, Intact, TypeOK, Written, Paths
<1>6. Exact'
  BY <1>0, <1>1, <1>2 DEF Exact, Beside, Intact, Recoverable
<1> QED BY <1>3, <1>4, <1>5, <1>6, SameKills DEF Inv

LEMMA AppliedKeepsInv == ASSUME Inv, Applied PROVE Inv'
<1> USE DEF Applied
<1>0. TypeOK /\ Journal /\ Control /\ Exact
  BY DEF Inv
<1>1. TypeOK'
  BY <1>0 DEF TypeOK, Steps
<1>2. Journal'
  BY <1>0 DEF Journal, Control, Writing
<1>3. Control'
  BY <1>0, Quiet DEF Control, Journal, BackingUp, Writing, Restoring, Replacing, Intact, Written
<1>4. Exact'
  BY <1>0 DEF Exact, Control, Writing, Beside, Intact, Recoverable, WholeOld, WholeNew
<1> QED BY <1>1, <1>2, <1>3, <1>4, SameKills DEF Inv

LEMMA ActivateKeepsInv == ASSUME Inv, Activate PROVE Inv'
<1> USE FilesAreRanks DEF Activate
<1>0. TypeOK /\ Journal /\ Control /\ Exact
  BY DEF Inv
<1>1. phase = "applied" /\ \A f \in Paths : live[f] = Written(f)
  BY <1>0 DEF Control, Writing
<1>2. TypeOK'
  BY <1>0 DEF TypeOK, Steps
<1>3. Journal'
  BY <1>0, <1>1 DEF Journal
<1>4. Control'
  BY <1>0, <1>1, Quiet DEF Control, BackingUp, Writing, Restoring, Replacing
<1>5. Exact'
  <2>1. state = "old"
    BY <1>0 DEF Control, Writing
  <2>2. ASSUME "restore" \notin faults PROVE WholeNew
    BY <1>0, <1>1, <2>1, <2>2 DEF Exact, Beside, WholeNew, Written, Paths
  <2> QED BY <2>2 DEF Exact, WholeNew
<1> QED BY <1>2, <1>3, <1>4, <1>5, SameKills DEF Inv

LEMMA RestoreKeepsInv == ASSUME Inv, NEW f \in Files, RestoreFile(f) PROVE Inv'
<1> USE FilesAreRanks DEF RestoreFile, Replaces
<1>0. TypeOK /\ Journal /\ Control /\ Exact
  BY DEF Inv
<1>1. /\ root /\ state = "old" /\ phase # "none" /\ hadOld = OldManaged /\ f \in Paths
      /\ \A g \in done : live[g] = Restored(g)
  BY <1>0 DEF Control, Restoring, Journal, NextPath
<1>2. f \in OldManaged => backup[f] = "old"
  BY <1>0, <1>1 DEF TypeOK
<1>3. live'[f] = Restored(f) /\ \A g \in Files \ {f} : live'[g] = live[g]
  BY <1>0, <1>1, <1>2 DEF TypeOK, Restored
<1>4. TypeOK'
  BY <1>0, <1>1, <1>2 DEF TypeOK, Content
<1>5. Journal'
  BY <1>0, <1>1, <1>3 DEF Journal, Restored, Paths
<1>6. Control'
  BY <1>0, <1>1, <1>3
     DEF Control, BackingUp, Writing, Restoring, Replacing, Intact, TypeOK, Restored, Paths
<1>7. Exact'
  <2>1. WholeOld => WholeOld'
    BY <1>3 DEF WholeOld, Restored
  <2>2. Recoverable => Recoverable'
    BY <1>3 DEF Recoverable, Restored
  <2> QED BY <1>0, <1>1, <1>3, <2>1, <2>2 DEF Exact, Beside
<1> QED BY <1>4, <1>5, <1>6, <1>7, SameKills DEF Inv

LEMMA RemoveKeepsInv == ASSUME Inv, Remove PROVE Inv'
<1>0. TypeOK /\ Journal /\ Control /\ Exact /\ Kills' /\ pc = "remove" /\ root /\ put' = "none"
  BY Quiet, SameKills DEF Inv, Remove, RemoveMetadata, RemoveDone, RemoveBackup, Control
<1>1. "restore" \notin faults => IF state = "old" THEN WholeOld ELSE WholeNew
  BY <1>0 DEF Exact, TypeOK
<1>2. CASE RemoveMetadata
  <2>1. TypeOK' /\ Journal'
    BY <1>0, <1>2 DEF RemoveMetadata, TypeOK, Journal
  <2>2. Control'
    BY <1>0, <1>2 DEF RemoveMetadata, Control, BackingUp, Writing, Restoring, Replacing
  <2>3. Exact'
    BY <1>0, <1>1, <1>2 DEF RemoveMetadata, Exact, WholeOld, WholeNew
  <2> QED BY <1>0, <2>1, <2>2, <2>3 DEF Inv
<1>3. CASE RemoveDone
  <2>1. TypeOK' /\ Journal'
    BY <1>0, <1>3 DEF RemoveDone, TypeOK, Journal, Steps, Continuations
  <2>2. Control'
    BY <1>0, <1>3 DEF RemoveDone, Control, BackingUp, Writing, Restoring, Replacing
  <2>3. Exact'
    BY <1>0, <1>1, <1>3 DEF RemoveDone, Exact, WholeOld, WholeNew
  <2> QED BY <1>0, <2>1, <2>2, <2>3 DEF Inv
<1>4. ASSUME NEW f \in Files, RemoveBackup(f) PROVE Inv'
  <2>1. /\ backup' \in [Files -> {"old", "none"}]
        /\ \A g \in Files : backup'[g] = "old" => backup[g] = "old"
    BY <1>0, <1>4 DEF RemoveBackup, TypeOK
  <2>2. TypeOK'
    BY <1>0, <1>4, <2>1 DEF RemoveBackup, TypeOK
  <2>3. Journal'
    BY <1>0, <1>4, <2>1 DEF RemoveBackup, Journal, TypeOK
  <2>4. Control'
    BY <1>0, <1>4 DEF RemoveBackup, Control, BackingUp, Writing, Restoring, Replacing
  <2>5. Exact'
    BY <1>0, <1>1, <1>4 DEF RemoveBackup, Exact, WholeOld, WholeNew, Beside, Recoverable
  <2> QED BY <1>0, <2>2, <2>3, <2>4, <2>5 DEF Inv
<1> QED BY <1>2, <1>3, <1>4 DEF Remove

\* An upload makes a whole tree neither less nor more whole.
LEMMA UploadKeepsWhole ==
    ASSUME TypeOK, NEW f \in UploadFiles, Upload(f)
    PROVE  (WholeOld' <=> WholeOld) /\ (WholeNew' <=> WholeNew)
<1>1. live[f] = "none" /\ live'[f] = "user" /\ \A g \in Files \ {f} : live'[g] = live[g]
  BY FilesAreRanks DEF Upload, TypeOK
<1> QED BY <1>1, FilesAreRanks DEF WholeOld, WholeNew

LEMMA UploadKeepsInv == ASSUME Inv, NEW f \in UploadFiles, Upload(f) PROVE Inv'
<1> USE FilesAreRanks DEF Upload
<1>0. TypeOK /\ Journal /\ Control /\ Exact /\ phase = "none"
  BY DEF Inv, Journal
<1>1. TypeOK'
  BY <1>0 DEF TypeOK, Content
<1>2. Journal'
  BY <1>0 DEF Journal
<1>3. Control'
  BY <1>0 DEF Control, BackingUp, Writing, Restoring, Replacing
<1>4. Exact'
  BY <1>0, UploadKeepsWhole DEF Exact
<1> QED BY <1>1, <1>2, <1>3, <1>4, SameKills DEF Inv

LEMMA StepKeepsInv == ASSUME Inv, [Next]_vars PROVE Inv'
<1>1. CASE Recovery
  BY <1>1, RecoveryKeepsInv
<1>9. CASE Replace
  BY <1>9, ReplaceKeepsInv DEF Replace
<1>2. CASE Apply
  BY <1>2, BeginKeepsInv, FailureKeepsInv, PrepareKeepsInv, AppliedKeepsInv, BackupKeepsInv,
     WriteKeepsInv DEF Apply
<1>3. CASE Transaction
  BY <1>3, FailureKeepsInv, ActivateKeepsInv, CommitKeepsInv DEF Transaction
<1>4. CASE Restore
  BY <1>4, RestoreEndKeepsInv, RestoreKeepsInv DEF Restore
<1>5. CASE Remove
  BY <1>5, RemoveKeepsInv
<1>6. CASE Launch \/ RefuseLaunch \/ Stop \/ Crash
  BY <1>6, LaunchKeepsInv
<1>7. ASSUME NEW f \in UploadFiles, Upload(f) PROVE Inv'
  BY <1>7, UploadKeepsInv
<1>8. CASE UNCHANGED vars
  BY <1>8
     DEF vars, Inv, Kills, Replacing, NextPath, Copied, TypeOK, Journal, Control, BackingUp,
         Sealed, Writing, Written, Restoring,
              Restored, Exact, WholeOld, WholeNew, Beside, Intact, Recoverable
<1> QED BY <1>1, <1>2, <1>3, <1>4, <1>5, <1>6, <1>7, <1>8, <1>9 DEF Next, Launcher

\* What is known of the disk at each step of the update and of the recovery
\* (install_overlay.go) is inductive, for every pair of releases.
THEOREM Invariance == Spec => []Inv
BY InitEstablishesInv, StepKeepsInv, PTL DEF Spec

------------------------------------------------------------------------------
(***************************************************************************)
(* The theorems.                                                           *)
(***************************************************************************)

\* The disk, the steps of the launcher and the files a loop has visited are of
\* their types (install_overlay.go, app.go).
THEOREM TypeCorrect == Spec => []TypeOK
BY Invariance, PTL DEF Inv

\* Until state.json names the candidate, every file of the old release is live
\* or backed up, however the transaction is interrupted
\* (install_overlay.go:48, the backups are kept until the activation).
THEOREM PreviousTreeAlwaysSurvives == Spec => []PreviousTreeSurvives
<1>1. Inv => PreviousTreeSurvives
  BY FilesAreRanks DEF Inv, Exact, WholeOld, Recoverable, PreviousTreeSurvives
<1> QED BY <1>1, Invariance, PTL

\* Whenever no transaction is open the files of the server root are exactly
\* those of the release of state.json and the user's, nothing stale of the other
\* release, and for each kill at most one temporary of a replacement that it cut
\* short (writeArchiveRegularAt, archive_fs.go).
THEOREM SettledTreeIsAlwaysExact == Spec => []SettledTreeIsExact
<1>1. Inv => SettledTreeIsExact
  BY DEF Inv, TypeOK, Kills, Journal, Exact, SettledTreeIsExact
<1> QED BY <1>1, Invariance, PTL

\* What is installed verifies against its receipt whenever the launcher is
\* about to start it, unless a restore failed: no update and no crash makes
\* runState (services.go) refuse the server.
THEOREM ReceiptAlwaysVerifies ==
    Spec => [](pc \in {"ready", "start"} /\ "restore" \notin faults => Sealed)
<1>1. Inv => (pc \in {"ready", "start"} /\ "restore" \notin faults => Sealed)
  BY FilesAreRanks DEF Inv, TypeOK, Journal, Control, Exact, WholeOld, WholeNew, Sealed
<1> QED BY <1>1, Invariance, PTL

\* No step overwrites or removes a file of the user, whatever the candidate
\* holds (install_overlay.go:109, a collision aborts the update).
THEOREM UserFilesAreAlwaysKept == Spec => UserFilesAreKept
<1> DEFINE Kept == \A f \in Files : live[f] = "user" => live'[f] = "user"
<1>1. ASSUME Inv, [Next]_vars PROVE Kept
  <2>0. TypeOK /\ Journal /\ Control
    BY <1>1 DEF Inv
  <2>1. ASSUME NEW f \in Files, ClearFile(f) \/ WriteFile(f) \/ RestoreFile(f) PROVE Kept
    <3>1. f \in Paths /\ \A g \in Files \ {f} : live'[g] = live[g]
      BY <2>0, <2>1 DEF ClearFile, WriteFile, RestoreFile, Replaces, NextPath, TypeOK
    <3>2. phase # "none"
      BY <2>0, <2>1
         DEF ClearFile, WriteFile, RestoreFile, Control, Writing, Restoring, Replacing
    <3> QED BY <2>0, <3>1, <3>2 DEF Journal
  <2>2. ASSUME NEW f \in UploadFiles, Upload(f) PROVE Kept
    BY <2>0, <2>2 DEF Upload, TypeOK
  <2>3. CASE UNCHANGED live
    BY <2>3
  <2> QED
    BY <1>1, <2>1, <2>2, <2>3
       DEF Next, Launcher, Recovery, Apply, Transaction, Replace, Restore, Remove, Boot,
           RecoverNothing,
           StartFile, RecoverByRemoval, RecoverByRestore, BeginUpdate, Collision, BackupFails, Prepare,
           WriteFails, Applied, BackupFile, InstallFails, Activate, CommitOverlay, BackupMissing,
           RestoreFails, GiveUpRestore, RestoreDone, RemoveMetadata, RemoveDone, RemoveBackup,
           Launch, RefuseLaunch, Stop, Crash, disk, vars
<1> QED BY <1>1, Invariance, PTL DEF Spec, UserFilesAreKept

(***************************************************************************)
(* The refinement: to the server the update is one step.                   *)
(***************************************************************************)

\* A tree that no transaction works on is whole, or a restore failed.
LEMMA ServedTreeIsWhole == ASSUME Inv, ~root PROVE "restore" \in faults \/ Whole
BY DEF Inv, TypeOK, Journal, Exact, Whole

\* Every step but the commit, a launch and the end of the server stutters.
LEMMA StepServes ==
    ASSUME Inv, [Next]_vars
    PROVE  \/ Launch \/ Stop \/ Activate
           \/ pc # "running" /\ pc' # "running" /\ state' = state
           \/ \E f \in UploadFiles : Upload(f)
           \/ UNCHANGED vars
<1>1. put # "none" => pc # "running"
  BY DEF Inv, Control, Replacing
<1> QED
  BY <1>1
     DEF Next, Launcher, Recovery, Apply, Transaction, Replace, Restore, Remove, Boot,
         RecoverNothing, RecoverByRemoval, RecoverByRestore, BeginUpdate, Collision, BackupFails,
         Prepare, StartFile, ClearFile, Copied, WriteFails, WriteFile, Applied, BackupFile,
         InstallFails, CommitOverlay, BackupMissing, RestoreFails, GiveUpRestore, RestoreDone,
         RestoreFile, RemoveMetadata, RemoveDone, RemoveBackup, RefuseLaunch, Crash, disk, vars

\* The update implements an atomic switch: SaveState is the switch, and a
\* server never finds a mixture of two releases, unless a restore failed.
THEOREM UpdateIsAtomicSwitch == Spec => ImplementsAtomicSwitch
<1>1. Init => Abstract!Init
  BY DEF Init, Abstract!Init, Serving
<1>2. ASSUME Inv, [Next]_vars PROVE [Abstract!Next]_<<state, Serving>>
  <2>0. TypeOK
    BY <1>2 DEF Inv
  <2>1. CASE Launch
    <3>1. Serving = "none" /\ state' = state /\ faults' = faults /\ Whole' = Whole
      BY <2>1 DEF Launch, Serving, disk, Whole, WholeOld, WholeNew
    <3>2. "restore" \in faults \/ Whole
      BY <1>2, <2>1, ServedTreeIsWhole DEF Launch, Inv, Control
    <3>3. Serving' \in {state, "none"}
      BY <2>1, <3>1, <3>2 DEF Launch, Serving
    <3> QED BY <3>1, <3>3 DEF Abstract!Next, Abstract!Serve
  <2>2. CASE Stop
    BY <2>2 DEF Stop, Serving, disk, Abstract!Next, Abstract!Stop
  <2>3. CASE Activate
    <3>1. state = "old"
      BY <1>2, <2>3 DEF Activate, Inv, Control, Writing
    <3> QED BY <2>3, <3>1 DEF Activate, Serving, Abstract!Next, Abstract!Switch
  <2>4. CASE pc # "running" /\ pc' # "running" /\ state' = state
    BY <2>4 DEF Serving
  <2>5. ASSUME NEW f \in UploadFiles, Upload(f) PROVE UNCHANGED <<state, Serving>>
    BY <2>0, <2>5, UploadKeepsWhole DEF Upload, Serving, Whole
  <2>6. CASE UNCHANGED vars
    BY <2>6 DEF vars, Serving, Whole, WholeOld, WholeNew
  <2> QED BY <1>2, <2>1, <2>2, <2>3, <2>4, <2>5, <2>6, StepServes
<1> QED BY <1>1, <1>2, Invariance, PTL
       DEF Spec, ImplementsAtomicSwitch, Abstract!Spec, Abstract!vars

==============================================================================
