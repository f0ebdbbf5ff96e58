--------------------------- MODULE InstallOverlay ----------------------------
(***************************************************************************)
(* A staged update of files in the live server root: install_overlay.go,   *)
(* driven by installTransaction of app.go (Modrinth packs, Paper with      *)
(* Geyser and the way back to plain Paper).                                *)
(*                                                                         *)
(* The candidate tree is complete in transactions/<provider>/new. Every    *)
(* target is backed up, transaction.json makes the transaction durable     *)
(* ("prepared"), the candidate is written over the live files one after    *)
(* the other ("applied"), and saving state.json commits it. Any failure    *)
(* before that restores the backups, and so does the next boot when the    *)
(* launcher was killed. Files are known by their rank in the sorted order  *)
(* in which the code visits them.                                          *)
(*                                                                         *)
(* A file is replaced in three steps (writeArchiveRegularAt): a temporary  *)
(* is made beside it in the server root, the file is removed, and the      *)
(* temporary is renamed. An error removes the temporary, a kill leaves it, *)
(* and nothing ever removes it then.                                       *)
(***************************************************************************)
EXTENDS Integers

CONSTANTS
    Files,          \* the paths of the server root the model looks at
    OldManaged,     \* the files the installed release owns
    Candidate,      \* the files of the candidate
    UserFiles,      \* the files the user had when the model starts
    UploadFiles,    \* the paths the user may upload a file to
    Faults,         \* "restore": writing a backup back may fail (disk full);
                    \* "removal": a crash may fall into RemovalWindow, below
    MaxCrashes      \* bound on the crashes of a behaviour

ASSUME FilesAreRanks ==
    /\ Files \subseteq Nat
    /\ OldManaged \subseteq Files /\ Candidate \subseteq Files
    /\ UserFiles \subseteq Files \ OldManaged /\ UploadFiles \subseteq Files

ASSUME OverlayFaults == Faults \subseteq {"restore", "removal"} /\ MaxCrashes \in Nat

VARIABLES
    live,       \* the server root: what each file holds
    backup,     \* transactions/<provider>/backup
    root,       \* whether transactions/<provider> exists
    phase,      \* phase in transaction.json, "none" when there is no file
    hadOld,     \* the entries of transaction.json that have a backup
    state,      \* the installation state.json names
    pc,         \* next step of the launcher, "down" when it is not running
    done,       \* the files the current loop has visited
    put,        \* the replacement of a file that is under way
    orphans,    \* number of the temporaries that kills left in the server root
    cont,       \* what the end of the transaction is followed by
    faults,     \* those of Faults that a behaviour has, chosen in Init
    crashes     \* number of crashes so far

disk == <<live, backup, root, phase, hadOld, state>>
loop == <<done, put>>
kills == <<crashes, orphans>>
vars == <<live, backup, root, phase, hadOld, state, pc, done, put, cont, faults, crashes, orphans>>

Content == {"old", "new", "user", "none"}

Steps == {"down", "recover", "ready", "backup", "write", "installed", "commit", "restore",
          "remove", "start", "running"}

\* Why the launcher restores or removes: recovery at boot; apply failed, and
\* its caller removes the transaction whatever comes of the restore; the
\* installation failed later; commit.
Continuations == {"none", "recover", "discard", "failed", "run"}

\* Every path the transaction touches, stale files of the old release included.
Paths == OldManaged \cup Candidate

\* f is the file a loop over the sorted paths visits next.
NextPath(f) == f \in Paths \ done /\ \A g \in Paths \ done : f <= g

Init ==
    /\ live = [f \in Files |-> IF f \in OldManaged THEN "old"
                               ELSE IF f \in UserFiles THEN "user" ELSE "none"]
    /\ backup = [f \in Files |-> "none"]
    /\ root = FALSE /\ phase = "none" /\ hadOld = {}
    /\ state = "old"
    /\ pc = "down" /\ done = {} /\ put = "none" /\ cont = "none" /\ crashes = 0 /\ orphans = 0
    /\ faults \in SUBSET Faults

\* The files of the installation state.json names are as its receipt seals them.
Sealed == IF state = "old" THEN \A f \in OldManaged : live[f] = "old"
                           ELSE \A f \in Candidate : live[f] = "new"

------------------------------------------------------------------------------
(***************************************************************************)
(* Boot: recoverPendingInstallOverlays comes before anything else.         *)
(***************************************************************************)

Boot ==
    /\ pc = "down"
    /\ pc' = "recover"
    /\ UNCHANGED <<disk, loop, cont, faults, kills>>

RecoverNothing ==
    /\ pc = "recover" /\ ~root
    /\ pc' = "ready"
    /\ UNCHANGED <<disk, loop, cont, faults, kills>>

\* Mutant: takes a prepared transaction for one that has touched nothing.
RecoverPreparedByRemoval ==
    /\ pc = "recover" /\ root
    /\ phase \in {"none", "prepared"} \/ (phase = "applied" /\ state = "new")
    /\ pc' = "remove" /\ cont' = "recover"
    /\ UNCHANGED <<disk, loop, faults, kills>>

\* Mutant: a transaction directory without transaction.json is an error.
RecoverInsistingOnMetadata ==
    /\ pc = "recover" /\ root
    /\ phase = "none" \/ (phase = "applied" /\ state = "new")
    /\ IF phase = "none" THEN pc' = "down" /\ UNCHANGED cont
                         ELSE pc' = "remove" /\ cont' = "recover"
    /\ UNCHANGED <<disk, loop, faults, kills>>

\* No live write occurs before transaction.json is durable; and an applied
\* transaction whose candidate state.json names is finished.
RecoverByRemoval ==
    /\ pc = "recover" /\ root
    /\ phase = "none" \/ (phase = "applied" /\ state = "new")
    /\ pc' = "remove" /\ cont' = "recover"
    /\ UNCHANGED <<disk, loop, faults, kills>>

RecoverByRestore ==
    /\ pc = "recover" /\ root
    /\ phase # "none" /\ ~(phase = "applied" /\ state = "new")
    /\ pc' = "restore" /\ cont' = "recover" /\ done' = {} /\ put' = "none"
    /\ UNCHANGED <<disk, faults, kills>>

------------------------------------------------------------------------------
(***************************************************************************)
(* applyInstallOverlay.                                                    *)
(***************************************************************************)

\* The provider verifies the files of the old release before it stages.
BeginUpdate ==
    /\ pc = "ready" /\ state = "old" /\ Sealed
    /\ root' = TRUE
    /\ pc' = "backup" /\ done' = {}
    /\ UNCHANGED <<live, backup, phase, hadOld, state, put, cont, faults, kills>>

\* Mutant: a user-owned file in the way is backed up like a managed one.
BackupAnyFile(f) ==
    /\ pc = "backup" /\ NextPath(f)
    /\ backup' = [backup EXCEPT ![f] = live[f]]
    /\ done' = done \cup {f}
    /\ UNCHANGED <<live, root, phase, hadOld, state, pc, put, cont, faults, kills>>

BackupFile(f) ==
    /\ pc = "backup" /\ NextPath(f)
    /\ live[f] # "none" => f \in OldManaged
    /\ backup' = [backup EXCEPT ![f] = live[f]]
    /\ done' = done \cup {f}
    /\ UNCHANGED <<live, root, phase, hadOld, state, pc, put, cont, faults, kills>>

\* A file the release does not own is in the way of the candidate.
Collision ==
    /\ pc = "backup" /\ \E f \in Candidate \ OldManaged : NextPath(f) /\ live[f] # "none"
    /\ pc' = "remove" /\ cont' = "failed"
    /\ UNCHANGED <<disk, loop, faults, kills>>

BackupFails ==
    /\ pc = "backup"
    /\ pc' = "remove" /\ cont' = "failed"
    /\ UNCHANGED <<disk, loop, faults, kills>>

\* transaction.json is written: from here on the transaction is recovered.
Prepare ==
    /\ pc = "backup" /\ done = Paths
    /\ phase' = "prepared"
    /\ hadOld' = {f \in Paths : backup[f] # "none"}
    /\ pc' = "write" /\ done' = {}
    /\ UNCHANGED <<live, backup, root, state, put, cont, faults, kills>>

\* The files of which the current loop has a copy to put in place.
Copied == CASE pc = "write" -> Candidate
            [] pc = "restore" -> {f \in hadOld : backup[f] # "none"}
            [] OTHER -> {}

\* The copy is written to a temporary in the directory of the file.
StartFile(f) ==
    /\ put = "none" /\ NextPath(f) /\ f \in Copied
    /\ put' = "temporary"
    /\ UNCHANGED <<disk, pc, done, cont, faults, kills>>

\* What has the file's name is removed before the rename.
ClearFile(f) ==
    /\ put = "temporary" /\ NextPath(f)
    /\ live' = [live EXCEPT ![f] = "none"]
    /\ put' = "cleared"
    /\ UNCHANGED <<backup, root, phase, hadOld, state, pc, done, cont, faults, kills>>

\* f has its turn, and its copy, if there is one, only has to be renamed.
Replaces(f) ==
    /\ NextPath(f)
    /\ f \in Copied => put = "cleared"
    /\ done' = done \cup {f} /\ put' = "none"

\* Mutant: the stale files of the old release stay.
WriteCandidateFile(f) ==
    /\ pc = "write" /\ Replaces(f)
    /\ live' = IF f \in Candidate THEN [live EXCEPT ![f] = "new"] ELSE live
    /\ UNCHANGED <<backup, root, phase, hadOld, state, pc, cont, faults, kills>>

\* A candidate file gets the name of the live one; a stale managed file is
\* removed.
WriteFile(f) ==
    /\ pc = "write" /\ Replaces(f)
    /\ live' = [live EXCEPT ![f] = IF f \in Candidate THEN "new" ELSE "none"]
    /\ UNCHANGED <<backup, root, phase, hadOld, state, pc, cont, faults, kills>>

\* A write fails, at any of its steps: its temporary is removed, the backups are
\* restored, and then, restored or not, the provider's deferred RemoveAll
\* deletes the transaction.
WriteFails ==
    /\ pc = "write"
    /\ pc' = "restore" /\ cont' = "discard" /\ done' = {} /\ put' = "none"
    /\ UNCHANGED <<disk, faults, kills>>

Applied ==
    /\ pc = "write" /\ done = Paths
    /\ phase' = "applied"
    /\ pc' = "installed"
    /\ UNCHANGED <<live, backup, root, hadOld, state, loop, cont, faults, kills>>

------------------------------------------------------------------------------
(***************************************************************************)
(* installTransaction around it.                                           *)
(***************************************************************************)

\* Sealing, validation or activation of the candidate fails.
InstallFails ==
    /\ pc = "installed"
    /\ pc' = "restore" /\ cont' = "failed" /\ done' = {} /\ put' = "none"
    /\ UNCHANGED <<disk, faults, kills>>

\* SaveState: the commit point.
Activate ==
    /\ pc = "installed"
    /\ state' = "new"
    /\ pc' = "commit"
    /\ UNCHANGED <<live, backup, root, phase, hadOld, loop, cont, faults, kills>>

\* commitPendingInstallOverlay wants an applied transaction of this candidate.
CommitOverlay ==
    /\ pc = "commit" /\ phase = "applied"
    /\ pc' = "remove" /\ cont' = "run"
    /\ UNCHANGED <<disk, loop, faults, kills>>

------------------------------------------------------------------------------
(***************************************************************************)
(* restoreInstallOverlay.                                                  *)
(***************************************************************************)

\* Mutant: what the candidate added is left in place.
RestoreBackedUpFile(f) ==
    /\ pc = "restore" /\ Replaces(f)
    /\ f \in hadOld => backup[f] # "none"
    /\ live' = [live EXCEPT ![f] = IF f \in hadOld THEN backup[f] ELSE @]
    /\ UNCHANGED <<backup, root, phase, hadOld, state, pc, cont, faults, kills>>

RestoreFile(f) ==
    /\ pc = "restore" /\ Replaces(f)
    /\ f \in hadOld => backup[f] # "none"
    /\ live' = [live EXCEPT ![f] = IF f \in hadOld THEN backup[f] ELSE "none"]
    /\ UNCHANGED <<backup, root, phase, hadOld, state, pc, cont, faults, kills>>

\* A restore that cannot go on ends the launcher, or goes back to the
\* provider that removes the transaction.
GiveUpRestore ==
    /\ IF cont = "discard" THEN pc' = "remove" /\ cont' = "failed"
                           ELSE pc' = "down" /\ cont' = "none"
    /\ put' = "none"
    /\ UNCHANGED <<disk, done, faults, kills>>

BackupMissing ==
    /\ pc = "restore" /\ \E f \in hadOld : NextPath(f) /\ backup[f] = "none"
    /\ GiveUpRestore

RestoreFails ==
    /\ pc = "restore" /\ "restore" \in faults
    /\ GiveUpRestore

RestoreDone ==
    /\ pc = "restore" /\ done = Paths
    /\ pc' = "remove"
    /\ cont' = IF cont = "recover" THEN "recover" ELSE "failed"
    /\ UNCHANGED <<disk, loop, faults, kills>>

------------------------------------------------------------------------------
(***************************************************************************)
(* os.RemoveAll of the transaction, file by file in any order.             *)
(***************************************************************************)

RemoveBackup(f) ==
    /\ pc = "remove" /\ backup[f] # "none"
    /\ backup' = [backup EXCEPT ![f] = "none"]
    /\ UNCHANGED <<live, root, phase, hadOld, state, pc, loop, cont, faults, kills>>

RemoveMetadata ==
    /\ pc = "remove" /\ phase # "none"
    /\ phase' = "none" /\ hadOld' = {}
    /\ UNCHANGED <<live, backup, root, state, pc, loop, cont, faults, kills>>

\* After a failure the previous release is started, if there is one and the
\* failure was not that of SaveState; or the launcher ends.
RemoveDone ==
    /\ pc = "remove" /\ phase = "none" /\ \A f \in Files : backup[f] = "none"
    /\ root' = FALSE
    /\ pc' \in IF cont = "recover" THEN {"recover"}
               ELSE IF cont = "failed" THEN {"start", "down"} ELSE {"start"}
    /\ cont' = "none"
    /\ UNCHANGED <<live, backup, phase, hadOld, state, loop, faults, kills>>

------------------------------------------------------------------------------

\* runState verifies the receipt before it launches.
Launch ==
    /\ pc \in {"ready", "start"} /\ Sealed
    /\ pc' = "running"
    /\ UNCHANGED <<disk, loop, cont, faults, kills>>

RefuseLaunch ==
    /\ pc \in {"ready", "start"} /\ ~Sealed
    /\ pc' = "down"
    /\ UNCHANGED <<disk, loop, cont, faults, kills>>

Stop ==
    /\ pc = "running"
    /\ pc' = "down"
    /\ UNCHANGED <<disk, loop, cont, faults, kills>>

\* The backups are going while transaction.json still says that they are
\* needed.
RemovalWindow ==
    /\ pc = "remove" /\ phase # "none" /\ state = "old"
    /\ \E f \in hadOld : backup[f] = "none"

Crash ==
    /\ pc \notin {"down", "running"} /\ crashes < MaxCrashes
    /\ RemovalWindow => "removal" \in faults
    /\ crashes' = crashes + 1
    /\ orphans' = orphans + (IF put = "none" THEN 0 ELSE 1)
    /\ pc' = "down" /\ cont' = "none" /\ done' = {} /\ put' = "none"
    /\ UNCHANGED <<disk, faults>>

\* The user uploads a file of their own, while no update is under way.
Upload(f) ==
    /\ pc \in {"down", "running"} /\ ~root
    /\ live[f] = "none"
    /\ live' = [live EXCEPT ![f] = "user"]
    /\ UNCHANGED <<backup, root, phase, hadOld, state, pc, loop, cont, faults, kills>>

Recovery == Boot \/ RecoverNothing \/ RecoverByRemoval \/ RecoverByRestore

Apply ==
    \/ BeginUpdate \/ Collision \/ BackupFails \/ Prepare \/ WriteFails \/ Applied
    \/ \E f \in Files : BackupFile(f) \/ WriteFile(f)

Transaction == InstallFails \/ Activate \/ CommitOverlay

Replace == \E f \in Files : StartFile(f) \/ ClearFile(f)

Restore ==
    \/ BackupMissing \/ RestoreFails \/ RestoreDone
    \/ \E f \in Files : RestoreFile(f)

Remove ==
    \/ RemoveMetadata \/ RemoveDone
    \/ \E f \in Files : RemoveBackup(f)

Launcher == Recovery \/ Apply \/ Transaction \/ Replace \/ Restore \/ Remove
            \/ Launch \/ RefuseLaunch \/ Stop

Next == Launcher \/ Crash \/ \E f \in UploadFiles : Upload(f)

Spec == Init /\ [][Next]_vars

\* The panel starts the launcher again whenever it ends, and no step of it
\* waits for anyone.
FairSpec == Spec /\ WF_vars(Launcher)

------------------------------------------------------------------------------
(***************************************************************************)
(* Properties.                                                             *)
(***************************************************************************)

TypeOK ==
    /\ live \in [Files -> Content]
    /\ backup \in [Files -> {"old", "none"}]
    /\ root \in BOOLEAN
    /\ phase \in {"none", "prepared", "applied"}
    /\ hadOld \subseteq Paths
    /\ state \in {"old", "new"}
    /\ pc \in Steps
    /\ done \subseteq Paths
    /\ put \in {"none", "temporary", "cleared"} /\ cont \in Continuations
    /\ faults \subseteq Faults /\ crashes \in 0 .. MaxCrashes /\ orphans \in Nat

\* Until the commit point every file of the old release is live or backed up
\* (install_overlay.go:48, "The backup is retained until canonical state
\* activation"), unless writing a backup back may fail: the provider removes
\* the transaction then, too.
PreviousTreeSurvives ==
    state = "old" /\ "restore" \notin faults =>
        \A f \in OldManaged : live[f] = "old" \/ backup[f] = "old"

\* The server root holds one release and, but for temporaries, beside it only
\* what is the user's.
WholeOld == \A f \in Files : IF f \in OldManaged THEN live[f] = "old"
                                                 ELSE live[f] \in {"none", "user"}
WholeNew == \A f \in Files : IF f \in Candidate THEN live[f] = "new"
                                                ELSE live[f] \in {"none", "user"}

\* Whenever no transaction is open the files are exactly those of the release
\* state.json names and the user's: nothing stale of the other release is left,
\* not only the files the receipt of the launch verifies. The one thing beside
\* them is a temporary of a replacement that was cut short, which no rollback
\* and no recovery removes: one for a kill at most, and none for an error.
SettledTreeIsExact ==
    ~root =>
        /\ "restore" \notin faults => IF state = "old" THEN WholeOld ELSE WholeNew
        /\ orphans <= crashes

\* A file of the user is never overwritten or removed, whether or not the
\* candidate has a file of that name (install_overlay.go:109, "collides with a
\* user-owned file; update aborted").
UserFilesAreKept == [][\A f \in Files : live[f] = "user" => live'[f] = "user"]_vars

\* Every transaction, interrupted or not, comes to its end, but for one whose
\* restore keeps failing, or whose backups were removed before its metadata.
TransactionEnds == (root /\ faults = {}) ~> ~root

\* The update is atomic for whoever sees only the server run: the files of one
\* release, temporaries aside. A restore that failed leaves a mixture, and the
\* receipt may not tell.
Whole == IF state = "old" THEN WholeOld ELSE WholeNew

Serving == IF pc # "running" THEN "none"
           ELSE IF Whole THEN state
           ELSE IF "restore" \in faults THEN "none" ELSE "mixed"

Abstract == INSTANCE AtomicSwitch WITH installed <- state, serving <- Serving

ImplementsAtomicSwitch == Abstract!Spec

==============================================================================
