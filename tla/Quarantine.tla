----------------------------- MODULE Quarantine ------------------------------
(***************************************************************************)
(* The destructive reset of PCVM at the granularity of directory entries:  *)
(* operation.go (journal, quarantine, restore, recovery) driven by         *)
(* installWithReset of app.go.                                             *)
(*                                                                         *)
(* A reset moves every entry of the server root, then of the control       *)
(* directory .pcvm, into .pcvm/quarantine/<id>, one rename at a time;      *)
(* installs the candidate into the emptied tree; and either commits by     *)
(* replacing state.json and deleting the quarantine, or restores the       *)
(* entries. The launcher may be killed between any two of these steps      *)
(* (a step that fails with an I/O error ends the process, which is the     *)
(* same thing), and the next boot recovers from what is on disk.           *)
(*                                                                         *)
(* An entry is represented by its rank in the order in which os.ReadDir    *)
(* lists it, root entries before control entries, which is the order every *)
(* loop of the code visits them in. Only the process holding the launcher  *)
(* lock runs any of this, so there is one program counter.                 *)
(***************************************************************************)
EXTENDS Integers

CONSTANTS
    RootEntries,        \* entry names of the server root, .pcvm left out
    ControlEntries,     \* entry names of .pcvm
    StateEntry,         \* state.json
    KeptEntries,        \* control entries a reset leaves alone (cache)
    OldEntries,         \* the entries of the installation being reset
    SameIdentity,       \* TRUE when the candidate's install ID equals the old one
    Legacy,             \* TRUE when the old state.json has an older schema
    WindowShut,         \* TRUE when no crash falls into RemovalWindow, below
    UploadEntries,      \* root entries the user may put back between two boots
    MaxCrashes          \* bound on the crashes of a behaviour

Entries == RootEntries \cup ControlEntries

ASSUME EntriesAreRanks ==
    /\ RootEntries \subseteq Nat /\ ControlEntries \subseteq Nat
    /\ \A r \in RootEntries, c \in ControlEntries : r < c

ASSUME StateIsAControlEntry ==
    /\ StateEntry \in ControlEntries \cap OldEntries
    /\ KeptEntries \subseteq ControlEntries \ {StateEntry}
    /\ OldEntries \subseteq Entries
    /\ UploadEntries \subseteq RootEntries

ASSUME FlagsAreBoolean ==
    /\ SameIdentity \in BOOLEAN /\ Legacy \in BOOLEAN /\ WindowShut \in BOOLEAN
    /\ MaxCrashes \in Nat

VARIABLES
    live,       \* the server root and .pcvm: what each entry holds
    held,       \* quarantine/<id>/root and /control: what each entry holds
    exists,     \* whether the directory quarantine/<id> is there
    journal,    \* stage of operation.json, "none" when there is no file
    progress,   \* restore.json, NoProgress when there is no file
    pc,         \* next step of the launcher, "down" when it is not running
    cont,       \* what the deletion of the quarantine is followed by
    crashes     \* number of crashes so far

disk == <<live, held, exists, journal, progress>>
vars == <<live, held, exists, journal, progress, pc, cont, crashes>>

\* "user" is a file uploaded while an operation is unfinished.
Content == {"old", "new", "user", "none"}

Stages == {"none", "prepared", "quarantine", "installing", "validating", "validated", "installed"}

Phases == {"prepared", "root-cleared", "targets-cleared", "restored"}

NoEntry == -1

NoProgress == [phase |-> "none", entries |-> {}, completed |-> {}, current |-> NoEntry]

Steps == {"down", "boot", "ready", "begun", "mkdir", "move", "moved", "install",
          "validate", "activate", "activated", "partial", "restore", "rename", "record",
          "purge", "complete", "running"}

Continuations == {"none", "recover", "abort", "failed", "commit"}

\* The entries present in a tree, and the ones a reset may touch.
Present(tree) == {e \in Entries : tree[e] # "none"}
Movable == Entries \ KeptEntries

\* e is the entry a loop over S, in directory order, visits next.
First(e, S) == e \in S /\ \A f \in S : e <= f

\* state.json names the candidate: the reset is past its commit point.
Committed == live[StateEntry] = "new"

Init ==
    /\ live = [e \in Entries |-> IF e \in OldEntries THEN "old" ELSE "none"]
    /\ held = [e \in Entries |-> "none"]
    /\ exists = FALSE
    /\ journal = "none"
    /\ progress = NoProgress
    /\ pc = "down"
    /\ cont = "none"
    /\ crashes = 0

------------------------------------------------------------------------------
(***************************************************************************)
(* Boot and recovery.                                                      *)
(***************************************************************************)

\* LoadState answers an error for the state of an older schema: the boot
\* never reaches the recovery and goes to the legacy reset flow instead.
StateIsLegacy == Legacy /\ live[StateEntry] = "old"

\* The install ID of state.json is the one the journal was sealed with. The
\* ID hashes the artifact, not the configuration, so a reset to the artifact
\* that is installed already gives the candidate the old ID.
StateMatchesJournal ==
    \/ live[StateEntry] = "new"
    \/ live[StateEntry] = "old" /\ SameIdentity

Boot ==
    /\ pc = "down"
    /\ pc' = IF StateIsLegacy THEN "ready" ELSE "boot"
    /\ UNCHANGED <<disk, cont, crashes>>

RecoverNothing ==
    /\ pc = "boot" /\ journal = "none"
    /\ pc' = "ready"
    /\ UNCHANGED <<disk, cont, crashes>>

\* Mutant: a quarantine that is gone is an error.
RecoverInsistingOnQuarantine ==
    /\ pc = "boot" /\ journal # "none"
    /\ journal = "prepared" \/ ~exists
    /\ pc' = "down"
    /\ UNCHANGED <<disk, cont, crashes>>

\* No quarantine was named yet, or its directory was never made or is gone.
RecoverWithoutQuarantine ==
    /\ pc = "boot" /\ journal # "none"
    /\ journal = "prepared" \/ ~exists
    /\ journal' = "none"
    /\ pc' = "ready"
    /\ UNCHANGED <<live, held, exists, progress, cont, crashes>>

\* Mutant: an unfinished move is restored like a finished one.
RecoverByRestoreOnly ==
    /\ pc = "boot" /\ journal \notin {"none", "prepared"} /\ exists
    /\ pc' = IF journal \in {"validated", "installed"} /\ StateMatchesJournal THEN "purge"
             ELSE "restore"
    /\ cont' = "recover"
    /\ UNCHANGED <<disk, crashes>>

\* Mutant: only the stage after the commit counts as committed.
RecoverInstalledOnly ==
    /\ pc = "boot" /\ journal \notin {"none", "prepared"} /\ exists
    /\ pc' = IF journal = "installed" THEN "purge"
             ELSE IF journal = "quarantine" THEN "partial"
             ELSE "restore"
    /\ cont' = "recover"
    /\ UNCHANGED <<disk, crashes>>

RecoverQuarantine ==
    /\ pc = "boot" /\ journal \notin {"none", "prepared"} /\ exists
    /\ pc' = IF journal \in {"validated", "installed"} /\ StateMatchesJournal THEN "purge"
             ELSE IF journal = "quarantine" THEN "partial"
             ELSE "restore"
    /\ cont' = "recover"
    /\ UNCHANGED <<disk, crashes>>

\* journal.Complete, after which the caller goes on booting, returns the
\* error that made it restore, or starts the new installation.
Complete ==
    /\ pc = "complete"
    /\ journal' = "none"
    /\ pc' = IF cont = "recover" THEN "ready"
             ELSE IF cont = "abort" THEN "down" ELSE "running"
    /\ cont' = "none"
    /\ UNCHANGED <<live, held, exists, progress, crashes>>

------------------------------------------------------------------------------
(***************************************************************************)
(* The reset.                                                              *)
(***************************************************************************)

\* BeginOperation refuses while a journal exists (OPERATION_BUSY).
BeginReset ==
    /\ pc = "ready" /\ live[StateEntry] = "old"
    /\ IF journal = "none"
       THEN journal' = "prepared" /\ pc' = "begun"
       ELSE pc' = "down" /\ UNCHANGED journal
    /\ UNCHANGED <<live, held, exists, progress, cont, crashes>>

AdvanceQuarantine ==
    /\ pc = "begun"
    /\ journal' = "quarantine"
    /\ pc' = "mkdir"
    /\ UNCHANGED <<live, held, exists, progress, cont, crashes>>

MakeQuarantine ==
    /\ pc = "mkdir"
    /\ exists' = TRUE
    /\ pc' = "move"
    /\ UNCHANGED <<live, held, journal, progress, cont, crashes>>

MoveEntry(e) ==
    /\ pc = "move" /\ First(e, Present(live) \cap Movable)
    /\ held' = [held EXCEPT ![e] = live[e]]
    /\ live' = [live EXCEPT ![e] = "none"]
    /\ UNCHANGED <<exists, journal, progress, pc, cont, crashes>>

\* A rename fails: the entries already moved are merged back at once, and the
\* journal stays for the next boot whether or not that works.
MoveFails ==
    /\ pc = "move"
    /\ pc' = "partial"
    /\ cont' = "failed"
    /\ UNCHANGED <<disk, crashes>>

MoveDone ==
    /\ pc = "move" /\ Present(live) \cap Movable = {}
    /\ pc' = "moved"
    /\ UNCHANGED <<disk, cont, crashes>>

AdvanceInstalling ==
    /\ pc = "moved"
    /\ journal' = "installing"
    /\ pc' = "install"
    /\ UNCHANGED <<live, held, exists, progress, cont, crashes>>

\* provider.Install creates the candidate's entries, one at a time.
InstallEntry(e) ==
    /\ pc = "install" /\ e \in Movable \ {StateEntry}
    /\ live[e] # "new"
    /\ live' = [live EXCEPT ![e] = "new"]
    /\ UNCHANGED <<held, exists, journal, progress, pc, cont, crashes>>

\* sealInstalled names the candidate in the journal.
Seal ==
    /\ pc = "install"
    /\ journal' = "validating"
    /\ pc' = "validate"
    /\ UNCHANGED <<live, held, exists, progress, cont, crashes>>

AdvanceValidated ==
    /\ pc = "validate"
    /\ journal' = "validated"
    /\ pc' = "activate"
    /\ UNCHANGED <<live, held, exists, progress, cont, crashes>>

\* The commit point: state.json is replaced atomically.
SaveState ==
    /\ pc = "activate"
    /\ live' = [live EXCEPT ![StateEntry] = "new"]
    /\ pc' = "activated"
    /\ UNCHANGED <<held, exists, journal, progress, cont, crashes>>

\* Mutant: a stage that LoadOperation rejects.
AdvanceCommitted ==
    /\ pc = "activated"
    /\ journal' = "committed"
    /\ pc' = "purge"
    /\ cont' = "commit"
    /\ UNCHANGED <<live, held, exists, progress, crashes>>

\* Mutant: the quarantine is left to a later cleanup.
AdvanceWithoutPurge ==
    /\ pc = "activated"
    /\ journal' = "installed"
    /\ pc' = "complete"
    /\ cont' = "commit"
    /\ UNCHANGED <<live, held, exists, progress, crashes>>

AdvanceInstalled ==
    /\ pc = "activated"
    /\ journal' = "installed"
    /\ pc' = "purge"
    /\ cont' = "commit"
    /\ UNCHANGED <<live, held, exists, progress, crashes>>

\* Mutant: the restore closure is used after the commit point, too.
AbortCommitted ==
    /\ pc \in {"moved", "install", "validate", "activate", "activated"}
    /\ pc' = "restore"
    /\ cont' = "abort"
    /\ UNCHANGED <<disk, crashes>>

\* The restore closure: a failure before the commit point puts the old
\* installation back.
Abort ==
    /\ pc \in {"moved", "install", "validate", "activate"}
    /\ pc' = "restore"
    /\ cont' = "abort"
    /\ UNCHANGED <<disk, crashes>>

------------------------------------------------------------------------------
(***************************************************************************)
(* RestorePartial: merge back the entries an unfinished move has taken.    *)
(***************************************************************************)

PartialEntry(e) ==
    /\ pc = "partial" /\ First(e, Present(held))
    /\ IF live[e] = "none"
       THEN /\ live' = [live EXCEPT ![e] = held[e]]
            /\ held' = [held EXCEPT ![e] = "none"]
            /\ UNCHANGED <<pc, cont>>
       ELSE /\ pc' = "down" /\ cont' = "none"      \* target exists: refused
            /\ UNCHANGED <<live, held>>
    /\ UNCHANGED <<exists, journal, progress, crashes>>

PartialDone ==
    /\ pc = "partial" /\ Present(held) = {}
    /\ pc' = "purge"
    /\ UNCHANGED <<disk, cont, crashes>>

------------------------------------------------------------------------------
(***************************************************************************)
(* Restore: clear the live tree, then rename every entry back, recording   *)
(* each phase and each entry in restore.json.                              *)
(***************************************************************************)

RestorePrepare ==
    /\ pc = "restore" /\ progress = NoProgress
    /\ progress' = [phase |-> "prepared", entries |-> Present(held),
                    completed |-> {}, current |-> NoEntry]
    /\ UNCHANGED <<live, held, exists, journal, pc, cont, crashes>>

\* Mutant: the entries of the candidate in the server root are not cleared.
ClearTargetsOnly == IF progress.phase = "root-cleared" THEN ControlEntries \ KeptEntries
                    ELSE {}

\* What the current phase of the restore has to clear.
ClearArea == IF progress.phase = "prepared" THEN RootEntries
             ELSE IF progress.phase = "root-cleared" THEN ControlEntries \ KeptEntries
             ELSE {}

ClearEntry(e) ==
    /\ pc = "restore" /\ First(e, Present(live) \cap ClearArea)
    /\ live' = [live EXCEPT ![e] = "none"]
    /\ UNCHANGED <<held, exists, journal, progress, pc, cont, crashes>>

ClearDone ==
    /\ pc = "restore" /\ progress.phase \in {"prepared", "root-cleared"}
    /\ Present(live) \cap ClearArea = {}
    /\ progress' = [progress EXCEPT !.phase =
                      IF @ = "prepared" THEN "root-cleared" ELSE "targets-cleared"]
    /\ UNCHANGED <<live, held, exists, journal, pc, cont, crashes>>

\* Mutant: an entry is recorded as completed with the intent to rename it.
RestoreIntentEarly(e) ==
    /\ pc = "restore" /\ progress.phase \in {"targets-cleared", "restored"}
    /\ First(e, progress.entries \ progress.completed)
    /\ progress' = [progress EXCEPT !.current = e, !.completed = @ \cup {e}]
    /\ pc' = "rename"
    /\ UNCHANGED <<live, held, exists, journal, cont, crashes>>

RestoreIntent(e) ==
    /\ pc = "restore" /\ progress.phase \in {"targets-cleared", "restored"}
    /\ First(e, progress.entries \ progress.completed)
    /\ progress' = [progress EXCEPT !.current = e]
    /\ pc' = "rename"
    /\ UNCHANGED <<live, held, exists, journal, cont, crashes>>

\* The four cases of restoreArea: rename; already renamed before a crash;
\* and the two refusals.
RestoreRename ==
    /\ pc = "rename"
    /\ LET e == progress.current IN
       \/ /\ held[e] # "none" /\ live[e] = "none"
          /\ live' = [live EXCEPT ![e] = held[e]]
          /\ held' = [held EXCEPT ![e] = "none"]
          /\ pc' = "record" /\ UNCHANGED cont
       \/ /\ held[e] = "none" /\ live[e] # "none"
          /\ pc' = "record" /\ UNCHANGED <<live, held, cont>>
       \/ /\ (held[e] = "none") = (live[e] = "none")
          /\ pc' = "down" /\ cont' = "none" /\ UNCHANGED <<live, held>>
    /\ UNCHANGED <<exists, journal, progress, crashes>>

RestoreRecord ==
    /\ pc = "record"
    /\ progress' = [progress EXCEPT !.completed = @ \cup {progress.current},
                                    !.current = NoEntry]
    /\ pc' = "restore"
    /\ UNCHANGED <<live, held, exists, journal, cont, crashes>>

RestoreFinish ==
    /\ pc = "restore" /\ progress.phase \in {"targets-cleared", "restored"}
    /\ progress.entries \subseteq progress.completed
    /\ progress' = [progress EXCEPT !.phase = "restored"]
    /\ pc' = "purge"
    /\ UNCHANGED <<live, held, exists, journal, cont, crashes>>

------------------------------------------------------------------------------
(***************************************************************************)
(* os.RemoveAll(q.Root): not one step but a deletion per file, in an order *)
(* the file system chooses.                                                *)
(***************************************************************************)

PurgeEntry(e) ==
    /\ pc = "purge" /\ e \in Present(held)
    /\ held' = [held EXCEPT ![e] = "none"]
    /\ UNCHANGED <<live, exists, journal, progress, pc, cont, crashes>>

PurgeProgress ==
    /\ pc = "purge" /\ progress # NoProgress
    /\ progress' = NoProgress
    /\ UNCHANGED <<live, held, exists, journal, pc, cont, crashes>>

PurgeDone ==
    /\ pc = "purge" /\ Present(held) = {} /\ progress = NoProgress
    /\ exists' = FALSE
    /\ IF cont = "failed" THEN pc' = "down" /\ cont' = "none"
                          ELSE pc' = "complete" /\ UNCHANGED cont
    /\ UNCHANGED <<live, held, journal, progress, crashes>>

------------------------------------------------------------------------------

\* A boot that plans no reset starts what is installed; a legacy state is
\* never started.
Launch ==
    /\ pc = "ready" /\ live[StateEntry] # "none" /\ ~StateIsLegacy
    /\ pc' = "running"
    /\ UNCHANGED <<disk, cont, crashes>>

\* A boot that cannot run and is not asked for a reset ends.
Refuse ==
    /\ pc = "ready" /\ StateIsLegacy
    /\ pc' = "down"
    /\ UNCHANGED <<disk, cont, crashes>>

Stop ==
    /\ pc = "running"
    /\ pc' = "down"
    /\ UNCHANGED <<disk, cont, crashes>>

\* The old entries are back, restore.json is deleted and its directory is not
\* yet: what is on disk looks like a restore that has not begun.
RemovalWindow ==
    pc = "purge" /\ progress = NoProgress /\ journal # "quarantine" /\ ~Committed

Crash ==
    /\ pc \notin {"down", "running"} /\ crashes < MaxCrashes
    /\ WindowShut => ~RemovalWindow
    /\ crashes' = crashes + 1
    /\ pc' = "down" /\ cont' = "none"
    /\ UNCHANGED disk

\* While the launcher is down the user still reaches the server root: files
\* can be uploaded into a tree an interrupted reset has emptied, and removed.
Upload(e) ==
    /\ pc = "down" /\ journal # "none" /\ ~Committed
    /\ e \in UploadEntries
    /\ \/ live[e] = "none" /\ live' = [live EXCEPT ![e] = "user"]
       \/ live[e] = "user" /\ live' = [live EXCEPT ![e] = "none"]
    /\ UNCHANGED <<held, exists, journal, progress, pc, cont, crashes>>

Recovery == Boot \/ RecoverNothing \/ RecoverWithoutQuarantine \/ RecoverQuarantine \/ Complete

Reset ==
    \/ BeginReset \/ AdvanceQuarantine \/ MakeQuarantine
    \/ \E e \in Entries : MoveEntry(e)
    \/ MoveFails \/ MoveDone \/ AdvanceInstalling
    \/ \E e \in Entries : InstallEntry(e)
    \/ Seal \/ AdvanceValidated \/ SaveState \/ AdvanceInstalled \/ Abort

Restore ==
    \/ \E e \in Entries : PartialEntry(e)
    \/ PartialDone \/ RestorePrepare
    \/ \E e \in Entries : ClearEntry(e)
    \/ ClearDone
    \/ \E e \in Entries : RestoreIntent(e)
    \/ RestoreRename \/ RestoreRecord \/ RestoreFinish

Purge ==
    \/ \E e \in Entries : PurgeEntry(e)
    \/ PurgeProgress \/ PurgeDone

Launcher == Recovery \/ Reset \/ Restore \/ Purge \/ Launch \/ Refuse \/ Stop

Environment == Crash \/ \E e \in UploadEntries : Upload(e)

Next == Launcher \/ Environment

Spec == Init /\ [][Next]_vars

\* The launcher is a sequential program the panel starts again whenever it
\* ends; nothing in it waits for anyone.
FairSpec == Spec /\ WF_vars(Launcher)

------------------------------------------------------------------------------
(***************************************************************************)
(* Properties.                                                             *)
(***************************************************************************)

TypeOK ==
    /\ live \in [Entries -> Content]
    /\ held \in [Entries -> Content]
    /\ exists \in BOOLEAN
    /\ journal \in Stages
    /\ progress \in [phase : Phases \cup {"none"}, entries : SUBSET Entries,
                     completed : SUBSET Entries, current : Entries \cup {NoEntry}]
    /\ pc \in Steps
    /\ cont \in Continuations
    /\ crashes \in 0 .. MaxCrashes

\* Until the commit point every entry of the old installation is on disk with
\* its own content, in the live tree or in the quarantine, whatever crashed:
\* "Any failed installation restores the old data" (README.md:110).
OldDataSurvives ==
    ~Committed => \A e \in OldEntries : live[e] = "old" \/ held[e] = "old"

\* The whole old installation and nothing else, or the candidate without any
\* entry of the old one.
WholeOld == \A e \in Entries : IF e \in OldEntries THEN live[e] = "old"
                                                   ELSE live[e] \in {"none", "user"}
WholeNew == Committed /\ \A e \in Movable : live[e] # "old"

\* A server runs only on one whole installation, with no unfinished operation
\* and no quarantined data left behind.
RunsOnOneInstallation ==
    pc = "running" => /\ WholeOld \/ WholeNew
                      /\ journal = "none"
                      /\ Present(held) = {}

\* restore.json is right: an entry it calls completed is no longer held and,
\* when it is an old one, back; and of the others only the one it names as
\* current may have moved (operation.go:376, "the persisted current-entry intent
\* makes this state unambiguous"). An operation still in stage quarantine is
\* recovered by RestorePartial, which takes no notice of restore.json.
RestoreJournalIsAccurate ==
    progress.phase \in {"targets-cleared", "restored"} /\ journal # "quarantine" /\ ~Committed =>
        \A e \in progress.entries :
            /\ e \in progress.completed => held[e] = "none" /\ (e \in OldEntries => live[e] = "old")
            /\ e \notin progress.completed /\ e # progress.current
                 => held[e] # "none" /\ live[e] # "old"

\* Once state.json names the candidate nothing is ever put back over it
\* (app.go:398, "callers must never restore an overlay or quarantine over the
\* newly committed state").
CommitIsFinal == [][Committed => live' = live]_vars

\* Every reset, interrupted or not, is resolved: its journal goes away.
ResetResolves == (journal # "none") ~> (journal = "none")

\* The reset is atomic: hiding the mechanism leaves AtomicSwitch. A tree that
\* is neither installation maps to no value of AtomicSwitch.
Serving == IF pc # "running" THEN "none"
           ELSE IF WholeOld THEN "old"
           ELSE IF WholeNew THEN "new" ELSE "mixed"

Abstract == INSTANCE AtomicSwitch
                WITH installed <- IF Committed THEN "new" ELSE "old", serving <- Serving

ImplementsAtomicSwitch == Abstract!Spec

==============================================================================
