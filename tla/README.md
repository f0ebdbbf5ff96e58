# PCVM: TLA+ models and proofs

PCVM is the launcher inside a Pterodactyl container: on every boot it reads
the startup variables, decides whether the server software in
`/home/container` has to be run, updated, or replaced, does so, and supervises
the server process. This directory models the part where a mistake costs a
user their data: installing, updating, resetting, and recovering from a
container that was killed at the wrong moment.

Paths below are relative to `src/internal/pcvm` unless they say otherwise.

## 1. Inventory of the system

| Component | Source | State it keeps | Operations | What makes it correct |
| --- | --- | --- | --- | --- |
| Launch decision and installation transaction | `app.go`, `reconcile.go` | `.pcvm/state.json` | `Run`, `installTransaction`, `installWithReset`, `runState` | a server runs only on a whole, validated installation; a failed update falls back or is refused |
| Operation journal and reset quarantine | `operation.go` | `.pcvm/operation.json`, `.pcvm/quarantine/<id>` and its `restore.json` | `BeginOperation`, `Advance`, `Complete`, `moveIntoQuarantine`, `Restore`, `RestorePartial`, `Commit`, `RecoverOperation` | the reset is atomic whatever kills it: old data survives until the commit, nothing is undone after it, every reset is resolved |
| Reset authorization | `reset.go`, `app.go` | `.pcvm/pending-switch.json` | `NewPending`, `ValidateResetBinding` | only the reset the user confirmed, from exactly this installation to exactly this target |
| Install overlay | `install_overlay.go` (used by `modrinth.go`, `providers_v2.go`) | `.pcvm/transactions/<provider>`: `new`, `backup`, `transaction.json` | `applyInstallOverlay`, `restoreInstallOverlay`, `rollbackPending…`, `commitPending…`, `recoverPending…` | the files of one release, never a mixture; user files untouched |
| Release store | `release_store.go` | `.pcvm/releases/<provider>/<id>`, `index.json` | `activateStagedRelease`, `recordReleaseActivation`, `repairReleaseActivation`, `pruneProviderReleases` | the release of `state.json` is always there and whole |
| Runtime cache | `runtime.go`, `cache.go`, `diagnostics.go` | `.pcvm/cache` trees, blobs, receipts | `Ensure`, `Prune`, `PruneCache` | a runtime that is installed with or launched is whole; the cache stays small |
| Launcher lock | `process_lock_unix.go` | `flock` on `.pcvm/lock` | `AcquireProcessLock`, `Release` | one launcher at a time changes an installation |
| Process supervisor, console relay, stdin | `supervisor.go`, `control.go`, `qmp.go` | child process, goroutines, pipes | `Run`, `startConsoleRelay`, `sendWithRetry`, `synchronizedProcessStdin` | every stop ends, no process of the server's group is left behind, no console command races the stop command |
| VM installation | `vm.go` | `vm/disk.qcow2` and metadata | `installVM`, `vmDirectoryStatus` | a disk is created whole or not at all; a guest's disk is kept until the machine that replaces it is committed |
| Installers | `services.go`, `generic_apps.go`, `provider.go`, `registry.go`, `providers_v2.go` | `.pcvm/managed/<provider>`, the home directory, the live tree | one `install…` per kind of provider | what is handed on is complete, over the remains of killed attempts too; the user's files survive |
| Archive extraction | `archive_fs.go` | the destination tree, a budget per archive | `extractZipSafe`, `extractTar…`, `writeArchiveRegularAt` | every admitted entry is in place once; directories, links and kept configurations are not replaced |
| Receipts and state schema | `receipt.go`, `state.go`, `types.go` | `.pcvm/receipts`, `state.json` | `buildInstallReceipt`, `verifyInstallReceipt`, `LoadState`, `writeJSONAtomic` | what is launched is what was sealed |
| Legacy reset flow | `app.go` | `.multiegg`, older `state.json` | `runLegacyResetFlow`, `installWithLegacyReset` | as the reset, from a control directory it cannot read |
| Version order, memory plan | `version.go`, `memory.go` | none | pure functions | downgrades are recognised; the plan fits the container |
| Safe proxy, HTTP client, allocation, menu, catalog, registry, configuration, log, disk, EULA, command-line tools | the remaining files | little or none | I/O, tables, text | see `PROJECT.json` for each |

How they interact: the panel starts a container and so a launcher; `Run` takes
the lock, recovers overlays (`recoverPendingInstallOverlays`), then the
journalled operation (`RecoverOperation`), reads `state.json` again and plans.
A transaction calls the provider, which writes into the live tree directly
(in-place), through the overlay, or beside it (release store). `SaveState` is
the commit point of everything: overlay, quarantine and release index are each
reconciled at the next boot with the install ID in `state.json`. The calls are
sequential; what interleaves is the *environment*: a kill between any two file
operations, an I/O error at any of them, and the user, who can reach the
server root (but not `.pcvm`) over SFTP whenever they like. Real concurrency
exists in the supervisor (goroutines around one child process) and in
`pcvm cache prune`, which takes no lock.

The hazards that follow from this are listed, each at its line, in
`PROJECT.json` under `hazards`, with the properties that watch them.

## 2. Plan

1. **Core (done).** `Quarantine` with its proofs, `InstallOverlay`,
   `Lifecycle`, and the abstract `AtomicSwitch` the first two refine.
2. **Concurrency and stores (done).** `Supervisor`, `ReleaseStore` with its
   proofs, `RuntimeCache`.
3. **Installers (done).** `Extraction`; `Recipes`, `Installers`, `LiveInstall`;
   `VMInstall`.
4. **Proofs (done for safety).** Every invariant and action property that a
   passing run checks is a theorem, and both refinements of `AtomicSwitch`.
   Open: that `Quarantine` implements the single steps `Lifecycle` takes for a
   move, a restore and a purge.

## 3. Modules

**`AtomicSwitch`** is the promise: a root holds one installation, it is
switched once, in one step, never while a server runs, and a server finds
exactly the installed one.

**`Quarantine`** (`operation.go`, `installWithReset`) is the reset at the
granularity of directory entries. `live` and `held` say what each entry of the
server root and of `.pcvm` holds, and what its place in the quarantine holds;
`journal` is the stage in `operation.json` ("none" without a file); `progress`
is `restore.json`; `exists` is the directory `quarantine/<id>`; `pc` is where
the one launcher stands and `cont` what a purge is followed by. An entry is its
rank in `os.ReadDir` order, root entries first, which is the order in which all
loops go. Actions are the file operations: one rename (`MoveEntry`,
`PartialEntry`, `RestoreRename`), one removal (`ClearEntry`, `PurgeEntry`), one
atomic JSON replacement (`AdvanceInstalling`, `RestoreIntent`, `SaveState`, …). `os.RemoveAll`
deletes in any order. `MoveFails` and `Abort` are the code's two reactions to an
error; an error anywhere else ends the launcher, which is `Crash`. `Boot` skips
the recovery when `state.json` is of an older schema (`Legacy`), and
`StateMatchesJournal` is true of the *old* state too when the candidate hashes
to the same install ID (`SameIdentity`).

**`InstallOverlay`** (`install_overlay.go`, `installTransaction`) is the update
of live files: `live`, `backup`, the phase in `transaction.json` and its
`HadOld` entries, and the installation in `state.json`. Files are backed up,
written and restored in the code's sorted order, and removed in any order. The
write and the restore of a file are the three steps of `writeArchiveRegularAt`:
its content goes to a temporary beside it (`StartFile`), the old file is removed
(`ClearFile`), the temporary is renamed (`WriteFile`, `RestoreFile`); `put` is
where this stands, and `orphans` counts the temporaries that kills have left in
the server root. A backup is one step, since what a kill leaves of it goes with
the transaction. The candidate's content is complete in `new` before the model's
first step, since no live file depends on it earlier.

**`Lifecycle`** (`app.go`, `reconcile.go`, `reset.go`, the end of
`operation.go`) is the sequence of boots. Disk state: `state`, `complete` (the
installations whose files are whole in the live tree), `pending`, `quar`,
`journal`; per boot: `want`, `confirm`, `tainted`. A move, a restore and a purge
are single steps, which is what `Quarantine` justifies. `mode`, chosen in `Init`
from `Modes`, says whether the provider is staged or in-place and whether the
two error paths that lose the taint (section 6) can be taken; `GuardHolds` is
the premise of the two properties they break. Error paths are the actions
`…Fails`; what each does to the journal is the point of the module. `issued`
and `spent` are history variables.

**`Supervisor`** (`supervisor.go`, `control.go`, `qmp.go`,
`process_group_unix.go`) is one `ProcessSupervisor.Run`. `pc` is the main
goroutine; the console relay (`relay`), the output pumps and the readiness probe
(`lines`, `ready`, `announced`) and the waiter of `cmd.Wait` (`reaped`) are
processes of their own. `pipe` is the child's stdin with a capacity, so that a
write blocks; `stdinClosed` is the flag `Close` sets without the write mutex.
The child hangs, forks, exits or survives a SIGKILL as it likes. A deadline
(`ReadyTimeout`, `JoinTimesOut`, `Terminate`, `Kill`, `GiveUp`) may pass at any
time.

**`ReleaseStore`** (`release_store.go`) is one provider's releases: `tree` says
what each release directory holds, a removal that was cut short included;
`index` is `index.json`, `state` the release of `state.json`. `Record` is
`recordReleaseActivation`, which `RecordInstall` and `Repair` share, and `Prune`
one deletion of `pruneProviderReleases`. `IndexNamesWholeReleases` is the
invariant behind `NeverRefused`, and part of the proof.

**`RuntimeCache`** (`runtime.go`, `cache.go`, `diagnostics.go`) has two
processes, the launcher, which holds the lock, and `pcvm cache prune`, which
does not take it. `dirs` is `trees/sha256` in order of modification, staging
directories of killed downloads included; `whole` are the trees a verification
would accept; `receipts` and `blobs` are the files beside them. The prune is
taken apart into listing, removal of each tree, blobs, receipts and size limit.
`disturbed` marks launches that a prune overlapped: the code promises nothing of
them, and a launch after them repairs the cache.

**`VMInstall`** (`vm.go` inside `app.go`'s transaction) follows
`.pcvm/staging/vm` and `vm` file by file through `installVM`, each file with the
request it was made for, and through the boots: resumption of a stage, refusal
of one for another request, commit by rename, reset with quarantine. The
quarantine is one step here.

**`Extraction`** (`archive_fs.go`) extracts an archive whose entries are chosen
freely, one at a time, over a tree that may hold anything. `Admits` is the
budget and the path check; the four kinds of entry are predicates of one
action, and the replacement of a file is two steps (`Replace`, `Rename`) with a
kill between them.

**`Recipes`**, **`Installers`** and **`LiveInstall`** (`services.go`,
`generic_apps.go`, `provider.go`, `registry.go`, `providers_v2.go`). `Recipes`
gives each installer as a sequence of named steps and says where an attempt is in
it; the other two have one action for each step. In `Installers` (`Spec`) the
result is a tree for the release store (`root`: where it is, how complete, and
for each name of `linkMutableData` whether it is packaged, a link, or absent)
and the user's data in `home`. What the code looks for and then writes
(`linkMutableData`, `copyTreeMissing`, `ensureEndstoneProperties`, `installJar`)
is two steps, with `cursor` between them, and the user may save a file there.
`release` says whether the artifact has a release and whether it is as it was
activated; an attempt that reuses it (`reused`) works in the release itself
(`root.at = "release"`), so that the deferred removals and the builds, which the
code guards by `!reused`, have something to destroy. In `LiveInstall`
(`LiveSpec`) it is what the server runs from: entry files of starters, `venv` and
`modules`, the two .NET publish directories, and a Steam game with its overlay
and marker. A killed attempt is repeated, in `Installers` over a fixed directory
with whatever it left.

**`…Proofs`** hold the theorems, one module for each component:
`QuarantineProofs`, `InstallOverlayProofs`, `LifecycleProofs`,
`SupervisorProofs`, `ReleaseStoreProofs`, `RuntimeCacheProofs`,
`ExtractionProofs`, and `InstallerProofs` for `Installers`, `LiveInstall` and
`VMInstall`, whose names do not overlap: what two of them have is prefixed in
`LiveInstall` (`LiveInit`, `LiveSpec`) and `VMInstall` (`VMInit`, `VMSpec`), or
differs (a crash is `Crash`, `Kill` and `CrashVM`).

`MC*` modules give the constants their values. Operators headed "Mutant" are
plausible mistakes; no action uses them, and `PROJECT.json` says which definition
each would replace and which property must then fail. The files stand beside each
other as the code's components do: `ReleaseStore` takes up what `Installers`
hands on, `Lifecycle` what an installer's failure means for the next boot,
`Quarantine` what `Lifecycle` and `VMInstall` take for one step.

## 4. Runs

| Run | Configuration | Distinct states | Shows |
| --- | --- | --- | --- |
| `reset` | `MCQuarantine.cfg` | 2 348 | 5 entries, 2 crashes: old data survives, one installation runs, `restore.json` is accurate, commit is final, resets resolve, refinement of `AtomicSwitch` |
| `reset_refusals` | `MCQuarantineRefusals.cfg` | 5 041 | uploads between boots and a legacy state: recovery may refuse ("target exists", "disappeared") but data survives |
| `reset_removal` | `MCQuarantineRemoval.cfg` | stops at the violation | the first disagreement of section 6 |
| `overlay` | `MCInstallOverlay.cfg` | 14 854 | 5 files, 2 crashes, every subset of the faults "restore" and "removal": rollback, exactness, user files, termination, refinement of `AtomicSwitch` |
| `lifecycle` | `MCLifecycle.cfg` | 228 510 | 3 installations, 2 nonces, 2 crashes, 3 modes, every failure: taint and journal guards, nonces, confirmation, no lost installation, resolution |
| `supervisor` | `MCSupervisor.cfg` | 229 886 | 4 control modes, 2 readiness sources, a pipe of one command and 2 typed lines: stop order, no survivors, stop ends, relay is released |
| `releases` | `MCReleaseStore.cfg` | 8 256, up to symmetry | 4 releases, 3 crashes: installed release whole, never refused, tidy, previous kept |
| `runtime_cache` | `MCRuntimeCache.cfg` | 2 099 470, up to symmetry | 3 runtimes, 2 staging names, 2 crashes, 1 prune beside the launcher: usable runtimes, bounded cache |
| `vm` | `MCVMInstall.cfg` | 1 068, up to symmetry | 3 requests, 2 crashes: committed machines complete, guest disks kept |
| `extraction` | `MCExtraction.cfg` | 34 296 | every archive of 3 entries over every tree of a directory, a file in it and a configuration, 1 crash |
| `installers` | `MCInstallers.cfg` | 74 966 | 14 recipes, a data directory and a configuration file, 2 crashes, the user saving files at any time, between a look and a write too, and removing them between attempts: what is made is complete, user data and reused releases survive |
| `live_install` | `MCLiveInstall.cfg` | 44 654 | the recipes on the live tree, 2 crashes |

The type invariant of every module, `TypeOK`, documents its variables. The run
`reset` checks Quarantine's; each of the others holds under the configuration of
its module's run when it is added there, and is proved (section 5).

**Bounds.** Two crashes: a first one inside an operation and a second inside
the recovery from it; every property is about this nesting, and a third adds
only another recovery of the same kind (the proofs have no bound). Three for the
releases, which cost little: one in a prune, one in the prune that repeats it,
one after. One for the extraction: the next starts from any tree as it is.
Entries of the reset: a root entry of the old installation, one only the
candidate has, the kept cache, `state.json`, and one control entry that sorts
after it, so that a kill can fall on either side of `state.json`. Files of the
overlay: one replaced, one removed, two added, one of the user's; uploads go to
a removed and to an added path. Installations of the lifecycle: three, each an
update of the ones before it, so that a confirmation for one downgrade can be
presented for another. Two nonces (`MaxNonces`): an old and a new one; when they
are used up, creating another fails (`RequestFails`), which the code can do
anyway. Releases: four, the two that are kept, the one being installed and one
that is being removed. Runtimes: three, one more than the cache keeps; one
`MaxPrunes`, since a second command repeats the first. Requests of the VM: three,
so that the stage, the committed machine and the boot's request all differ.
Archive limits: as small as makes each of them reachable in three entries
(a total of 4, files of 2, one link, a ratio of 2). Lines at the console: two,
one that fills the pipe and one that blocks.

**Environment restrictions, by name.** `WindowShut` of Quarantine keeps crashes
out of `RemovalWindow` (old entries are back, `restore.json` is gone, the
directory is not). It is TRUE where the passing runs claim data survival and
FALSE in `reset_removal`. `Faults` of InstallOverlay are what `Init` may choose
from: "restore", a restore that fails, and "removal", a kill between the removal
of a backup and that of `transaction.json`. Every subset is explored;
`PreviousTreeSurvives` and `SettledTreeIsExact` are claimed without "restore",
`TransactionEnds` without either. Uploads in `InstallOverlay` happen while no
transaction is open, since the code cannot tell a later upload from a
candidate's file; see the hazards. `HeldHostage` of Supervisor and `GuardHolds`
of Lifecycle are the exceptions of `StopEnds` and of the taint properties.
`EntryChanges` of Installers is FALSE in its run: with TRUE, which section 6
explains, `ReleaseSurvives` fails. `Unseen` of Installers is what
`UserDataSurvives` exempts, a file saved between a look and the write after it.
`PruneCommand` is explored at every point, but `RuntimeIsUsable` and
`CacheIsTidy` are claimed of launches it did not overlap (`disturbed`).

**Fairness.** `WF_vars(Launcher)`: the launcher is a sequential program that
waits for no one, and the panel (Wings) starts the container again when it
ends. No fairness is assumed of crashes, uploads, expiry, or of any particular
choice of the launcher: which boot the user asks for and which step fails stay
free. `ResetResolves`, `TransactionEnds` and `OperationsResolve` hold under it
because the crashes are bounded. In `Supervisor`, `WF_vars` of the main
goroutine, of the relay and of the waiter of `cmd.Wait`: the Go runtime runs a
goroutine that can run, and Run's timers fire. None is assumed of the child, of
its output, of the console or of the panel. The other modules are checked for
safety only. No run disables deadlock checking.

## 5. Proofs

TLAPS proves every safety property that a passing run checks, for every value
of the constants: every set of entries, files, releases, runtimes, requests or
names, every archive and destination, and any number of crashes, where the runs
have the handful of section 4. The assumptions are the `ASSUME`s of the modules,
which TLC evaluates in every run, and two more for the reset, named below.
Each proof has the same shape: an invariant that adds to the properties what is
known at each step of the code, shown to hold initially (`InitEstablishesInv`)
and to be kept by each action (a lemma per action or group of actions, combined
in `StepKeepsInv`), and then the theorems as its consequences.

**`QuarantineProofs`.**

* `TypeCorrect`: `Spec => []TypeOK`, with no assumption but those of the module.
* `OldDataSurvival`, `OneInstallation`, `CommitFinal`, `ResetIsAtomic`,
  `RestoreJournalIsAlwaysAccurate`:
  `OldDataSurvives`, `RunsOnOneInstallation`, `CommitIsFinal`,
  `ImplementsAtomicSwitch` (initial states map to initial states, every step to
  a step or a stutter) and `RestoreJournalIsAccurate`, under
  `Assumed == WindowShut /\ ~SameIdentity`. The first four need both
  conditions: the run `reset_removal` violates the first, and
  `MCQuarantine.cfg` with `SameIdentity = TRUE` fails on `OldDataSurvives`
  (section 6). `Legacy` is arbitrary: the legacy flaw costs
  liveness, not data.

The properties are far from inductive. The invariant `IInv` adds, for each
stage of the journal, what the trees look like: during the move an old entry is
in exactly one of `live` and `held`, and the ones before the current rank are
held; during an installation all movable old entries are held; while the
restore clears, nothing held has been touched, and afterwards `live` holds
old entries for what is completed; a purge only follows a commit or a finished
restore; and what `journal` and `exists` can be at each `pc`. `Accuracy` builds
on it: an entry that is live and old is not held as well, and what
`restore.json` lists, but has neither completed nor as current, is held. Users
who upload into the emptied tree do not disturb it, since an upload is no
old entry.

**`InstallOverlayProofs`.** `TypeCorrect`, `PreviousTreeAlwaysSurvives`,
`SettledTreeIsAlwaysExact`, `UserFilesAreAlwaysKept`, the refinement
`UpdateIsAtomicSwitch`, and `ReceiptAlwaysVerifies`: no update makes the launch
find the receipt violated. `Journal` says what a transaction's phase implies of
the backups and of user files (once `transaction.json` exists none is at a path
it touches), `Control` how far each loop has come, and `Exact` why an open
transaction can always be taken back: all of the old release is backed up
(`Intact`) or all of it is in place (`WholeOld`). `Exact` has the premise of the
properties, that no restore failed. `Replacing` says that a replacement is under way of
the next path only, and of one that has a copy; `Recoverable` that every old file
is live or backed up, so that a kill between the removal and the rename costs
none; and `Kills` that there is no orphan without a kill.

**`LifecycleProofs`.** `TypeCorrect`, `RunsAlwaysComplete`,
`PartialTreeIsAlwaysGuarded`, `NonceIsAlwaysUsedOnce`, `InstallationIsNeverLost`,
`ResetIsAlwaysConfirmed`. The journal, the quarantine and `state.json` are three
files that are written at different steps; `JournalIsSound`,
`QuarantineIsSound` and `NoncesAreSound` say what each implies of the others.
`WholeOrGuarded` is why a server only runs on a whole installation: what is
installed is whole, or the journal of the update that was cut short says so
(`CutShort`), or the launcher that holds its taint is in the midst of resetting
it; the same of what is in the quarantine. It needs `GuardHolds`, the premise
that section 6 explains.

**`SupervisorProofs`.** `TypeCorrect`, `StopCommandIsAlwaysLast`,
`NothingEverOutlivesRun`, for every capacity of the pipe and every number of
lines. `StopCommandIsLast` is inductive with the types; for the other, `Group`
says what the process group is at the end of each path through Run: killed and
without descendants, but for a leader that SIGKILL did not end.

**`ReleaseStoreProofs`.** `TypeCorrect`, `InstalledReleaseWhole`,
`LaunchesAreNotRefused`, `ServersRunTidy` and `UpdatesKeepPrevious`.
The invariant `Inv` joins to the properties that both pointers of the index name
whole releases (`IndexNamesWholeReleases`), that a saved state is one of the two
(`StateIsIndexed`, without which a prune could remove it), and what an installing
and a launching launcher know (`Installing`, `Launching`): from the write of the
index to its prune, `want` and `keep` are the two pointers, so that the prune
spares what the index names. `PruneSparesOthers` and `RecordNamesWhole` are the
two lemmas about the store; `PruneKeepsInv` and `RecordKeepsInv` serve the four
actions that prune or record.

**`RuntimeCacheProofs`.** `TypeCorrect`, `RuntimeIsAlwaysUsable`,
`CacheIsAlwaysTidy`, for every catalog of runtimes. `dirs` is a sequence without
repetitions, and a first section of lemmas says what becoming the newest and
being removed do to its elements. `Round` says that a prune spares the tree it
keeps and the prior one, `Beside` when the command may be under way beside an
undisturbed launcher, `Made` from which step on the tree in preparation is
usable, and `Tidying` what each step of the prune before a launch has left over.

**`ExtractionProofs`.** `TypeCorrect`, `DoneIsAlwaysComplete`,
`ExistingIsAlwaysKept`, for every archive, destination and limit, when a
directory above a directory above a path is above the path
(`ExtractionAssumption`). `Placement` says that the result of every admitted
entry is there but for the file in writing; `Current`, that this file has a
place to go to that nothing protected is in; `Sourced`, that what is at a path
and not old comes from an entry that the budget has seen, for which reason no
second entry of that path is admitted.

**`InstallerProofs`** holds three, about `VMSpec`, `Spec` and `LiveSpec`; their
invariants are `VMInv`, `StagedInv` and `LiveInv`.

* `VMInstall`: `TypeCorrect`, `CommittedVMIsAlwaysComplete`,
  `GuestDiskAlwaysSurvives`. `Machines`: what was committed is whole, and what
  a stage has is for the request it names. `Building`: what the attempt has put
  together at each step. `Holding`: a quarantine belongs to the reset of the
  journal, to another request than the one it moved away.
* `Installers`: `StagedTypeCorrect`, `MadeIsAlwaysComplete`,
  `UserDataAlwaysSurvives`, `ReleaseAlwaysSurvives`. A recipe is data, so the
  proof is about all recipes that are `WellFormed`, and the fourteen are
  (`RecipesAreWellFormed`). `Placed`, `Filled`, `Packed` and `Linked` say what
  the set of the steps done so far implies of the tree, `Looking` that a name
  which is looked for or written to belongs to the step, and `Reusing` that the
  tree of an attempt is the release exactly when it is reused, for which reason
  no removal or build of another attempt can reach it. `ReleaseAlwaysSurvives`
  has the premise `~EntryChanges`.
* `LiveInstall`: `LiveTypeCorrect`, `PublicationIsNeverLost`,
  `GameIsAlwaysWhole`, `UserFilesAlwaysSurvive`. The steps of every recipe follow one another as
  `Follows` says (`LiveRecipesAreFormed`), so that what a step leaves
  (`PublishIsSafe`, `GameIsSound`) is what the next finds. A remainder of a
  removal, "torn", is only ever beside a whole publish; an entry file of this
  attempt is no file of the user (`EntryIsOurs`).

Model-checked only: liveness (`ResetResolves`, `TransactionEnds`,
`OperationsResolve`, `StopEnds`, `RelayIsReleased`), which needs fairness and
`ENABLED` and is out of the prover's reach. No module needs induction over data
or a RECURSIVE operator: the recipes, ranks and loops of the models are
functions, sets and sequences whose elements are quantified over.

## 6. Disagreements found

The first is the run `reset_removal`, and `PROJECT.json` quotes the lines. The
others are met by the configurations or premises named with them.

1. `operation.go:225`: the removal of a restored quarantine is not atomic, and a
   kill inside it makes the next boot clear the restored data
   (`operation.go:195`: "recovery must not clear that already-restored entry on
   its next attempt").
2. `app.go:48`: an interrupted legacy reset whose old `state.json` is still in
   place is never recovered (`MCQuarantineLegacy.cfg` violates `ResetResolves`;
   `app.go:490`: "the next boot must verify/finish recovery").
3. `install_overlay.go:138`: a failed restore is ignored and the backups are
   removed (`PreviousTreeSurvives` without its premise on "restore";
   `install_overlay.go:49`: "The backup is retained until canonical state
   activation").
4. `install_overlay.go:218`: a kill amid the removal of a transaction can leave
   one that no boot gets past (`TransactionEnds` without its premise).
5. `app.go:293`: an in-place update that fails at sealing leaves no taint, and
   `app.go:473`: the reset of a tainted installation gives up the taint before
   it has succeeded (`RunsCompleteInstallation` without `GuardHolds`;
   `README.md:78`, "PCVM refuses to start the possibly partial installation").
6. `supervisor.go:314`: the stop command is written before the stop timer is
   started, and waits for room in the pipe of a child that no longer reads
   (`MCSupervisorHostage.cfg` violates `EscalationIsNotHeldHostage`;
   `supervisor.go:39`: "supervisor escalation is never held hostage by console
   input").
7. `runtime.go:144`: the prune after the preparation of a reset's target evicts
   the active runtime before the reset is confirmed (`MCRuntimeCacheEviction.cfg`
   violates `ActiveRuntimeIsKept`; `README.md:141`: "keeps only the active
   runtime tree and … one previous verified tree"). The next launch downloads it
   again.

8. `generic_apps.go:127`: the directory for a .NET publish is made in the source
   before `!reused` is asked. When the commit of the request has a release, the
   source is that release; if it was made from a `.dll` entry and the entry is a
   `.csproj` now (the entry is no part of the artifact's identity), the release
   gains an empty `.pcvm-publish`, its tree digest differs from then on, and
   every later installation and launch refuses it (`MCInstallers.cfg` with
   `EntryChanges = TRUE` violates `ReleaseSurvives`; `release_store_test.go:34`:
   "never replaces an already activated release in place").

Smaller things the models show, about which no document of the repository says
otherwise: a reset to the artifact that is installed already gives both sides
one install ID (`operation.go:488`, `state.go:298`), so that after a failed reset
a restore killed with `state.json` already back is taken for a commit
(`SameIdentity`); a `.tree-*` directory of a killed download can be kept as the
previous tree in place of a verified one (`runtime.go:528`); a failed first VM
installation leaves a stage that refuses every other image (`vm.go:252`); Quilt
takes the launcher of a killed attempt for a finished installation
(`providers_v2.go:200`); a link of an earlier attempt whose data was removed is
moved into the home directory and leads to itself (`provider.go:939`); a killed
`python -m venv` without pip is never made again (`provider.go:785`); a kill
between the steps of an overlay's replacement leaves a `.pcvm-extract-*` file in
the server root that no rollback and no recovery removes (`archive_fs.go:293`);
and a file that the user saves after an installer has looked for it is
overwritten, by a rename (`provider.go:939`, `services.go:422`,
`provider.go:686`) or in place (`registry.go:460`).

What the properties exempt, in one place: `MadeIsComplete` Quilt with the
launcher it finds and the link that leads to itself; `UserDataSurvives` the
window between a look and a write; `SettledTreeIsExact` the temporaries, which
it only counts; `RuntimeIsUsable` and `CacheIsTidy` a prune that overlaps the
preparation, and `CacheIsTidy` says how many trees are kept, not which;
`ResetResolves` is checked of a `state.json` of the current schema.

## 7. Not modelled

The components with status `not_modelled` in `PROJECT.json`, each with its
reason there. Within the modelled parts: file contents, paths, digests, and
symbolic-link checks (a file is one value); the loss of a rename that was not
synced to disk (a kill of the container keeps the file system's view); several
providers' overlays at once (the code handles each alike, one after the
other); the directories an overlay adds, and the temporaries that a killed
installer leaves under names of its own (`.copy-*`, `.pcvm-*`), which nothing
reads; `flock` itself; the exchange of RCON, telnet and QMP messages, and of
bytes with the external `xz`; host policy, catalog validation, and EULA
refusals, which end a boot before it changes anything.
