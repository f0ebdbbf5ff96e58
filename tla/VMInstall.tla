------------------------------ MODULE VMInstall ------------------------------
(***************************************************************************)
(* The installation of a virtual machine (vm.go) in the transaction that   *)
(* surrounds it (app.go, operation.go).                                    *)
(*                                                                         *)
(* The VM is put together in .pcvm/staging/vm and renamed to vm in the     *)
(* server root. A failed attempt leaves its stage, which the next attempt  *)
(* resumes when it is for the same request. The move into and out of the   *)
(* quarantine is one step here: Quarantine.tla takes it apart.             *)
(***************************************************************************)
EXTENDS Naturals

CONSTANTS
    Requests,    \* an image with the disk size, compression and hostname asked for
    None,
    MaxKills     \* bound on the kills of a behaviour

ASSUME VMAssumption == None \notin Requests /\ MaxKills \in Nat

VARIABLES
    stage,       \* .pcvm/staging/vm
    final,       \* vm in the server root
    state,       \* the request state.json records
    quarantine,  \* what a reset moved away
    journal,     \* the stage of operation.json
    base,        \* the image whose download is cached
    request,     \* the Startup Variables of this boot
    resumed,     \* whether the staged disk is one of an earlier attempt
    pc, kills

disk == <<stage, final, state, quarantine, journal, base>>
vmVars == <<disk, request, resumed, pc, kills>>

\* The files of a VM directory: each is absent or for the request it was made
\* for, and the disk is converted before it has its size and is used by a guest.
NoVM == [exists |-> FALSE, meta |-> None, disk |-> None, size |-> "none",
         seed |-> None, firmware |-> FALSE]
Sizes == {"none", "image", "full", "used"}
Directories == [exists : BOOLEAN, meta : Requests \cup {None}, disk : Requests \cup {None},
                size : Sizes, seed : Requests \cup {None}, firmware : BOOLEAN]
NoQuarantine == [held |-> FALSE, stage |-> NoVM, final |-> NoVM, state |-> None]

\* validateVMFiles.
Complete(vm) == vm.exists /\ vm.meta # None /\ vm.disk # None /\ vm.seed # None /\ vm.firmware

Steps == {"down", "plan", "begin", "final", "stage", "meta", "disk", "convert", "resize", "check",
          "seed", "firmware", "commit", "clean", "seal", "save", "purge", "launch", "running",
          "refused"}

VMInit ==
    /\ stage = NoVM /\ final = NoVM /\ state = None
    /\ quarantine = NoQuarantine /\ journal = "none" /\ base = None
    /\ request \in Requests /\ resumed = FALSE /\ pc = "down" /\ kills = 0

------------------------------------------------------------------------------
\* Boot, recovery and plan.

RestoreAll ==
    /\ stage' = quarantine.stage /\ final' = quarantine.final /\ state' = quarantine.state
    /\ quarantine' = NoQuarantine

\* Mutant: the journal alone decides that a reset was committed.
CommittedByJournal == journal = "validated"

\* The journal says validated or installed and state.json has its installation.
ResetCommitted == journal = "validated" /\ state # None

\* RecoverOperation: a reset is restored unless its state was saved; an
\* installation in place that was cut short lets nothing start any more.
Boot ==
    /\ pc = "down"
    /\ request' \in Requests
    /\ IF journal # "none" /\ quarantine.held
       THEN /\ pc' = "plan" /\ journal' = "none"
            /\ IF ResetCommitted THEN quarantine' = NoQuarantine /\ UNCHANGED <<stage, final, state>>
               ELSE RestoreAll
       ELSE /\ UNCHANGED <<stage, final, state, quarantine>>
            /\ IF journal \in {"installing", "validated"} /\ state = None
               THEN pc' = "refused" /\ UNCHANGED journal
               ELSE pc' = "plan" /\ journal' = "none"
    /\ resumed' = FALSE
    /\ UNCHANGED <<base, kills>>

PlanRun ==
    /\ pc = "plan" /\ state = request
    /\ pc' = "launch"
    /\ UNCHANGED <<disk, request, resumed, kills>>

\* The download precedes the transaction. Another request than the one that
\* is installed needs a confirmed reset, and may stay unconfirmed.
Prepare ==
    /\ pc = "plan" /\ state # request
    /\ \/ base' = request /\ pc' = "begin"
       \/ base' \in {base, request} /\ pc' = "down"
    /\ UNCHANGED <<stage, final, state, quarantine, journal, request, resumed, kills>>

BeginInstall ==
    /\ pc = "begin" /\ state = None
    /\ journal' \in {"prepared", "installing"}
    /\ pc' = IF journal' = "installing" THEN "final" ELSE "begin"
    /\ UNCHANGED <<stage, final, state, quarantine, base, request, resumed, kills>>

\* The quarantine takes the server root and .pcvm, but for the cache.
BeginReset ==
    /\ pc = "begin" /\ state # None
    /\ quarantine' = [held |-> TRUE, stage |-> stage, final |-> final, state |-> state]
    /\ stage' = NoVM /\ final' = NoVM /\ state' = None
    /\ journal' = "installing" /\ pc' = "final"
    /\ UNCHANGED <<base, request, resumed, kills>>

------------------------------------------------------------------------------
\* installVM.

Doing == UNCHANGED <<state, quarantine, journal, base, request, resumed, kills>>

\* Any error: a first installation completes its journal and keeps its stage, a
\* reset restores what it moved away.
FailInstall ==
    /\ pc' = "down" /\ journal' = "none" /\ resumed' = FALSE
    /\ IF quarantine.held THEN RestoreAll ELSE UNCHANGED <<final, state, quarantine>>

\* A committed VM is taken when it is the one asked for.
CheckFinal ==
    /\ pc = "final"
    /\ \/ ~final.exists /\ pc' = "stage"
       \/ final.meta = request /\ Complete(final) /\ pc' = "clean"
    /\ UNCHANGED <<stage, final>> /\ Doing

FinalRejected ==
    /\ pc = "final" /\ final.exists
    /\ FailInstall
    /\ (~quarantine.held => UNCHANGED stage)
    /\ UNCHANGED <<base, request, kills>>

\* Mutant: a stage is resumed whatever it was made for.
CheckStageAny ==
    /\ pc = "stage"
    /\ \/ /\ ~stage.exists
          /\ stage' = [stage EXCEPT !.exists = TRUE] /\ pc' = "meta" /\ UNCHANGED resumed
       \/ /\ stage.exists
          /\ resumed' = (stage.disk # None) /\ pc' = "disk" /\ UNCHANGED stage
    /\ UNCHANGED <<final, state, quarantine, journal, base, request, kills>>

CheckStage ==
    /\ pc = "stage"
    /\ \/ /\ ~stage.exists
          /\ stage' = [stage EXCEPT !.exists = TRUE] /\ pc' = "meta" /\ UNCHANGED resumed
       \/ /\ stage.exists /\ stage.meta = request
          /\ resumed' = (stage.disk # None) /\ pc' = "disk" /\ UNCHANGED stage
    /\ UNCHANGED <<final, state, quarantine, journal, base, request, kills>>

StageRejected ==
    /\ pc = "stage" /\ stage.exists /\ stage.meta # request
    /\ FailInstall
    /\ (~quarantine.held => UNCHANGED stage)
    /\ UNCHANGED <<base, request, kills>>

WriteMeta ==
    /\ pc = "meta"
    /\ stage' = [stage EXCEPT !.meta = request] /\ pc' = "disk"
    /\ UNCHANGED final /\ Doing

\* ensureVMStandaloneDisk: a staged disk that passes its check is resized, any
\* other is removed and converted anew.
ReuseDisk ==
    /\ pc = "disk" /\ stage.disk # None
    /\ pc' = "resize"
    /\ UNCHANGED <<stage, final>> /\ Doing

DropDisk ==
    /\ pc = "disk"
    /\ stage' = [stage EXCEPT !.disk = None, !.size = "none"] /\ pc' = "convert"
    /\ resumed' = FALSE
    /\ UNCHANGED <<final, state, quarantine, journal, base, request, kills>>

Convert ==
    /\ pc = "convert" /\ base = request
    /\ stage' = [stage EXCEPT !.disk = base, !.size = "image"] /\ pc' = "resize"
    /\ UNCHANGED final /\ Doing

Resize ==
    /\ pc = "resize"
    /\ stage' = [stage EXCEPT !.size = "full"] /\ pc' = "check"
    /\ UNCHANGED final /\ Doing

CheckDisk ==
    /\ pc = "check"
    /\ pc' = "seed"
    /\ UNCHANGED <<stage, final>> /\ Doing

\* The disk of a failed attempt is removed, unless an earlier attempt made it.
DiskFails ==
    /\ pc \in {"convert", "resize", "check"}
    /\ FailInstall
    /\ (~quarantine.held =>
            stage' = IF resumed THEN stage ELSE [stage EXCEPT !.disk = None, !.size = "none"])
    /\ UNCHANGED <<base, request, kills>>

\* The seed and the firmware variables of an earlier attempt are kept.
WriteSeed ==
    /\ pc = "seed"
    /\ stage' = [stage EXCEPT !.seed = IF @ = None THEN request ELSE @] /\ pc' = "firmware"
    /\ UNCHANGED final /\ Doing

Firmware ==
    /\ pc = "firmware"
    /\ stage' = [stage EXCEPT !.firmware = TRUE] /\ pc' = "commit"
    /\ UNCHANGED final /\ Doing

\* One rename. A directory of that name can only come from an upload.
Commit ==
    /\ pc = "commit" /\ ~final.exists
    /\ final' = stage /\ stage' = NoVM /\ pc' = "clean"
    /\ Doing

StepFails ==
    /\ pc \in {"meta", "seed", "firmware", "commit", "seal"}
    /\ FailInstall
    /\ (~quarantine.held => UNCHANGED stage)
    /\ UNCHANGED <<base, request, kills>>

\* A first installation whose state cannot be saved leaves its journal.
SaveFails ==
    /\ pc = "save"
    /\ IF quarantine.held THEN FailInstall
       ELSE pc' = "down" /\ UNCHANGED <<stage, final, state, quarantine, journal, resumed>>
    /\ UNCHANGED <<base, request, kills>>

RemoveBase ==
    /\ pc = "clean"
    /\ base' \in {None, base} /\ pc' = "seal"
    /\ UNCHANGED <<stage, final, state, quarantine, journal, request, resumed, kills>>

------------------------------------------------------------------------------
\* The end of the transaction, and the launch.

Seal ==
    /\ pc = "seal" /\ Complete(final)
    /\ journal' = "validated" /\ pc' = "save"
    /\ UNCHANGED <<stage, final, state, quarantine, base, request, resumed, kills>>

SaveState ==
    /\ pc = "save"
    /\ state' = request /\ pc' = "purge"
    /\ UNCHANGED <<stage, final, quarantine, journal, base, request, resumed, kills>>

Purge ==
    /\ pc = "purge"
    /\ quarantine' = NoQuarantine /\ journal' = "none" /\ pc' = "launch"
    /\ UNCHANGED <<stage, final, state, base, request, resumed, kills>>

\* buildVMProcess: install.json must be of the image state.json records.
Launch ==
    /\ pc = "launch"
    /\ IF Complete(final) /\ final.meta = state
       THEN pc' = "running" /\ final' = [final EXCEPT !.size = "used"] /\ base' = None
       ELSE pc' = "refused" /\ UNCHANGED <<final, base>>
    /\ UNCHANGED <<stage, state, quarantine, journal, request, resumed, kills>>

Stop ==
    /\ pc \in {"running", "refused"}
    /\ pc' = "down"
    /\ UNCHANGED <<disk, request, resumed, kills>>

CrashVM ==
    /\ pc # "down" /\ kills < MaxKills
    /\ pc' = "down" /\ kills' = kills + 1
    /\ UNCHANGED <<disk, request, resumed>>

InstallVM ==
    \/ CheckFinal \/ FinalRejected \/ CheckStage \/ StageRejected \/ WriteMeta
    \/ ReuseDisk \/ DropDisk \/ Convert \/ Resize \/ CheckDisk \/ DiskFails
    \/ WriteSeed \/ Firmware \/ Commit \/ StepFails \/ RemoveBase

VMNext ==
    \/ Boot \/ PlanRun \/ Prepare \/ BeginInstall \/ BeginReset
    \/ InstallVM \/ Seal \/ SaveState \/ SaveFails \/ Purge \/ Launch \/ Stop \/ CrashVM

VMSpec == VMInit /\ [][VMNext]_vmVars

------------------------------------------------------------------------------

VMTypeOK ==
    /\ stage \in Directories /\ final \in Directories
    /\ state \in Requests \cup {None} /\ base \in Requests \cup {None} /\ request \in Requests
    /\ quarantine \in [held : BOOLEAN, stage : Directories, final : Directories,
                       state : Requests \cup {None}]
    /\ ~quarantine.held => quarantine = NoQuarantine
    /\ journal \in {"none", "prepared", "installing", "validated"}
    /\ resumed \in BOOLEAN /\ pc \in Steps /\ kills \in 0 .. MaxKills

\* What stands under the name vm is a whole machine, all of its files made for
\* one request, however many attempts and requests it took.
CommittedVMIsComplete ==
    final.exists => /\ Complete(final) /\ final.size \in {"full", "used"}
                    /\ final.disk = final.meta /\ final.seed = final.meta

\* The disk a guest has used stays, or goes to the quarantine and comes back,
\* until the state of the machine that replaces it is saved.
GuestDiskSurvives ==
    [][/\ final.size = "used" /\ final' # final => quarantine'.final = final
       /\ quarantine.final.size = "used" /\ ~quarantine'.held =>
              final' = quarantine.final \/ state \notin {None, quarantine.state}]_vmVars

==============================================================================
