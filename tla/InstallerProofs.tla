---------------------------- MODULE InstallerProofs ----------------------------
(***************************************************************************)
(* Proofs about the installers that finish an installation themselves.     *)
(*                                                                         *)
(* VMInstall: the machine that stands under its name is whole and made for *)
(* one request, and the disk that a guest has used is never given up       *)
(* before the machine that replaces it is recorded.                        *)
(*                                                                         *)
(* Installers: what a successful attempt leaves has everything the launch  *)
(* looks for, and neither the user's data nor a release that an attempt    *)
(* reuses is lost.                                                         *)
(*                                                                         *)
(* LiveInstall: an application that was published is never lost, a game is *)
(* whole when its installation succeeds, and the user's entry files and    *)
(* plugins survive.                                                        *)
(*                                                                         *)
(* The three are specifications of their own, Spec, LiveSpec and VMSpec,   *)
(* and every theorem is about one of them.                                 *)
(***************************************************************************)
EXTENDS VMInstall, Installers, LiveInstall, TLAPS

(***************************************************************************)
(* VMInstall: the inductive invariant.                                     *)
(***************************************************************************)

\* A machine that was committed, in the server root or in the quarantine.
Whole(vm) == IF vm.exists
             THEN /\ Complete(vm) /\ vm.size \in {"full", "used"}
                  /\ vm.disk = vm.meta /\ vm.seed = vm.meta
             ELSE vm = NoVM

\* A stage may lack anything, but what it has is for the request it names.
Consistent(vm) == /\ vm.disk # None => vm.disk = vm.meta
                  /\ vm.seed # None => vm.seed = vm.meta
                  /\ ~vm.exists => vm = NoVM

Machines == /\ Whole(final) /\ Whole(quarantine.final)
            /\ Consistent(stage) /\ Consistent(quarantine.stage)

\* What the attempt that is under way has put together.
Building ==
    /\ pc \in {"stage", "meta", "disk", "convert", "resize", "check", "seed", "firmware", "commit"} =>
         ~final.exists
    /\ pc = "meta" => stage.exists /\ stage.meta = None
    /\ pc \in {"disk", "convert", "resize", "check", "seed", "firmware", "commit"} =>
         stage.exists /\ stage.meta = request
    /\ pc \in {"resize", "check", "seed", "firmware", "commit"} => stage.disk = request
    /\ pc \in {"seed", "firmware", "commit"} => stage.size = "full"
    /\ pc = "check" => stage.size = "full"
    /\ pc \in {"firmware", "commit"} => stage.seed = request
    /\ pc = "commit" => stage.firmware

\* A quarantine belongs to the reset of the journal, which installs another
\* request than the one it moved away; the machine it installs is not started
\* before the quarantine is purged.
Holding ==
    /\ pc = "begin" => state # request
    /\ pc = "purge" => state = request
    /\ quarantine.held =>
         /\ journal \in {"installing", "validated"}
         /\ pc \notin {"plan", "begin", "launch", "running", "refused"}
         /\ final.size # "used"
         /\ state # quarantine.state
         /\ pc \in {"final", "stage", "meta", "disk", "convert", "resize", "check", "seed",
                    "firmware", "commit", "clean", "seal", "save"} => quarantine.state # request

VMInv == VMTypeOK /\ Machines /\ Building /\ Holding

------------------------------------------------------------------------------

LEMMA NoVMIsFine == NoVM \in Directories /\ Whole(NoVM) /\ Consistent(NoVM)
BY DEF NoVM, Directories, Sizes, Whole, Consistent

LEMMA InitEstablishesInv == VMInit => VMInv
<1> SUFFICES ASSUME VMInit PROVE VMInv
  OBVIOUS
<1> USE VMAssumption DEF VMInit
<1>1. quarantine \in [held : BOOLEAN, stage : Directories, final : Directories,
                      state : Requests \cup {None}]
      /\ ~quarantine.held /\ quarantine.stage = NoVM /\ quarantine.final = NoVM
  BY NoVMIsFine DEF NoQuarantine
<1>2. kills \in 0 .. MaxKills
  OBVIOUS
<1>3. VMTypeOK
  BY <1>1, <1>2, NoVMIsFine DEF VMTypeOK, Steps
<1>4. Machines
  BY <1>1, NoVMIsFine DEF Machines
<1>5. Building /\ Holding
  BY <1>1 DEF Building, Holding
<1> QED BY <1>3, <1>4, <1>5 DEF VMInv

(***************************************************************************)
(* Steps that leave the machines and the quarantine alone.                 *)
(***************************************************************************)

LEMMA MachinesUnchanged ==
    ASSUME VMInv, UNCHANGED <<stage, final, quarantine>>,
           state' \in Requests \cup {None}, base' \in Requests \cup {None}, request' \in Requests,
           journal' \in {"none", "prepared", "installing", "validated"}, resumed' \in BOOLEAN,
           pc' \in Steps, kills' \in 0 .. MaxKills, Building', Holding'
    PROVE  VMInv'
BY DEF VMInv, VMTypeOK, Machines, Whole, Consistent, Complete

LEMMA PlanKeepsInv == ASSUME VMInv, PlanRun \/ Prepare \/ BeginInstall PROVE VMInv'
<1> USE DEF disk
<1>0. VMTypeOK /\ Holding
  BY DEF VMInv
<1>1. CASE PlanRun
  BY <1>0, <1>1, MachinesUnchanged DEF PlanRun, VMTypeOK, Steps, Building, Holding
<1>2. CASE Prepare
  BY <1>0, <1>2, MachinesUnchanged DEF Prepare, VMTypeOK, Steps, Building, Holding
<1>3. CASE BeginInstall
  BY <1>0, <1>3, MachinesUnchanged DEF BeginInstall, VMTypeOK, Steps, Building, Holding
<1> QED BY <1>1, <1>2, <1>3

LEMMA CheckKeepsInv ==
    ASSUME VMInv, CheckFinal \/ ReuseDisk \/ CheckDisk \/ RemoveBase PROVE VMInv'
<1> USE DEF Doing
<1>0. VMTypeOK /\ Building /\ Holding /\ Machines
  BY DEF VMInv
<1>1. CASE CheckFinal
  BY <1>0, <1>1, MachinesUnchanged DEF CheckFinal, VMTypeOK, Steps, Building, Holding
<1>2. CASE ReuseDisk
  <2>1. stage.disk = request
    BY <1>0, <1>2 DEF ReuseDisk, Building, Machines, Consistent
  <2> QED BY <1>0, <1>2, <2>1, MachinesUnchanged DEF ReuseDisk, VMTypeOK, Steps, Building, Holding
<1>3. CASE CheckDisk
  BY <1>0, <1>3, MachinesUnchanged DEF CheckDisk, VMTypeOK, Steps, Building, Holding
<1>4. CASE RemoveBase
  BY <1>0, <1>4, MachinesUnchanged DEF RemoveBase, VMTypeOK, Steps, Building, Holding
<1> QED BY <1>1, <1>2, <1>3, <1>4

LEMMA CommitStateKeepsInv == ASSUME VMInv, Seal \/ SaveState \/ Stop \/ CrashVM PROVE VMInv'
<1> USE VMAssumption DEF disk
<1>0. VMTypeOK /\ Holding
  BY DEF VMInv
<1>1. CASE Seal
  BY <1>0, <1>1, MachinesUnchanged DEF Seal, VMTypeOK, Steps, Building, Holding
<1>2. CASE SaveState
  BY <1>0, <1>2, MachinesUnchanged DEF SaveState, VMTypeOK, Steps, Building, Holding
<1>3. CASE Stop
  BY <1>0, <1>3, MachinesUnchanged DEF Stop, VMTypeOK, Steps, Building, Holding
<1>4. CASE CrashVM
  <2>1. kills' \in 0 .. MaxKills
    BY <1>0, <1>4 DEF CrashVM, VMTypeOK
  <2> QED BY <1>0, <1>4, <2>1, MachinesUnchanged DEF CrashVM, VMTypeOK, Steps, Building, Holding
<1> QED BY <1>1, <1>2, <1>3, <1>4

(***************************************************************************)
(* Steps of installVM that work on the stage.                              *)
(***************************************************************************)

LEMMA StageKeepsInv ==
    ASSUME VMInv, UNCHANGED <<final, state, quarantine, journal, base, request, kills>>,
           stage' \in Directories, Consistent(stage)', resumed' \in BOOLEAN,
           pc \in {"stage", "meta", "disk", "convert", "resize", "check", "seed", "firmware"},
           pc' \in {"stage", "meta", "disk", "convert", "resize", "check", "seed", "firmware",
                    "commit"},
           Building'
    PROVE  VMInv'
<1>1. VMTypeOK'
  BY DEF VMInv, VMTypeOK, Steps
<1>2. Machines'
  BY DEF VMInv, Machines, Whole, Consistent, Complete
<1>3. Holding'
  BY DEF VMInv, Holding
<1> QED BY <1>1, <1>2, <1>3 DEF VMInv

LEMMA BuildKeepsInv ==
    ASSUME VMInv, CheckStage \/ WriteMeta \/ DropDisk \/ Convert \/ Resize \/ WriteSeed \/ Firmware
    PROVE  VMInv'
<1> USE VMAssumption DEF Doing, Directories, Sizes
<1>0. VMTypeOK /\ Building /\ Consistent(stage) /\ stage \in Directories /\ request \in Requests
      /\ request # None
  BY DEF VMInv, Machines, VMTypeOK
<1>1. CASE CheckStage
  <2>1. stage' \in Directories /\ resumed' \in BOOLEAN
    BY <1>0, <1>1 DEF CheckStage, VMTypeOK
  <2>2. Consistent(stage)' /\ Building'
    BY <1>0, <1>1 DEF CheckStage, Consistent, Building, NoVM
  <2> QED BY <1>1, <2>1, <2>2, StageKeepsInv DEF CheckStage
<1>2. CASE WriteMeta
  <2>1. stage' \in Directories /\ resumed' \in BOOLEAN
    BY <1>0, <1>2 DEF WriteMeta, VMTypeOK
  <2>2. Consistent(stage)' /\ Building'
    BY <1>0, <1>2 DEF WriteMeta, Consistent, Building
  <2> QED BY <1>2, <2>1, <2>2, StageKeepsInv DEF WriteMeta
<1>3. CASE DropDisk
  <2>1. stage' \in Directories /\ resumed' \in BOOLEAN
    BY <1>0, <1>3 DEF DropDisk, VMTypeOK
  <2>2. Consistent(stage)' /\ Building'
    BY <1>0, <1>3 DEF DropDisk, Consistent, Building
  <2> QED BY <1>3, <2>1, <2>2, StageKeepsInv DEF DropDisk
<1>4. CASE Convert
  <2>1. stage' \in Directories /\ resumed' \in BOOLEAN
    BY <1>0, <1>4 DEF Convert, VMTypeOK
  <2>2. Consistent(stage)' /\ Building'
    BY <1>0, <1>4 DEF Convert, Consistent, Building
  <2> QED BY <1>4, <2>1, <2>2, StageKeepsInv DEF Convert
<1>5. CASE Resize
  <2>1. stage' \in Directories /\ resumed' \in BOOLEAN
    BY <1>0, <1>5 DEF Resize, VMTypeOK
  <2>2. Consistent(stage)' /\ Building'
    BY <1>0, <1>5 DEF Resize, Consistent, Building
  <2> QED BY <1>5, <2>1, <2>2, StageKeepsInv DEF Resize
<1>6. CASE WriteSeed
  <2>1. stage' \in Directories /\ resumed' \in BOOLEAN
    BY <1>0, <1>6 DEF WriteSeed, VMTypeOK
  <2>2. Consistent(stage)' /\ Building'
    BY <1>0, <1>6 DEF WriteSeed, Consistent, Building
  <2> QED BY <1>6, <2>1, <2>2, StageKeepsInv DEF WriteSeed
<1>7. CASE Firmware
  <2>1. stage' \in Directories /\ resumed' \in BOOLEAN
    BY <1>0, <1>7 DEF Firmware, VMTypeOK
  <2>2. Consistent(stage)' /\ Building'
    BY <1>0, <1>7 DEF Firmware, Consistent, Building
  <2> QED BY <1>7, <2>1, <2>2, StageKeepsInv DEF Firmware
<1> QED BY <1>1, <1>2, <1>3, <1>4, <1>5, <1>6, <1>7

\* What the stage has become by its last step is a whole machine.
LEMMA CommitKeepsInv == ASSUME VMInv, Commit PROVE VMInv'
<1> USE VMAssumption DEF Commit, Doing
<1>0. VMTypeOK /\ Machines /\ Building /\ Holding /\ request \in Requests
  BY DEF VMInv, VMTypeOK
<1>1. Whole(stage) /\ stage.size # "used"
  BY <1>0 DEF Building, Whole, Complete
<1>2. VMTypeOK'
  BY <1>0, NoVMIsFine DEF VMTypeOK, Steps
<1>3. Machines'
  BY <1>0, <1>1, NoVMIsFine DEF Machines, Whole, Consistent, Complete
<1>4. Building'
  BY DEF Building
<1>5. Holding'
  BY <1>0, <1>1 DEF Holding
<1> QED BY <1>2, <1>3, <1>4, <1>5 DEF VMInv

(***************************************************************************)
(* The quarantine.                                                         *)
(***************************************************************************)

LEMMA ResetKeepsInv == ASSUME VMInv, BeginReset PROVE VMInv'
<1> USE VMAssumption DEF BeginReset
<1>0. VMTypeOK /\ Machines /\ Holding
  BY DEF VMInv
<1>1. VMTypeOK'
  BY <1>0, NoVMIsFine DEF VMTypeOK, Steps
<1>2. Machines'
  BY <1>0, NoVMIsFine DEF Machines, Whole, Consistent, Complete
<1>3. Building' /\ Holding'
  BY <1>0 DEF Building, Holding, NoVM
<1> QED BY <1>1, <1>2, <1>3 DEF VMInv

\* When the quarantine is gone only the machines and the step matter.
LEMMA ReleasedKeepsInv ==
    ASSUME quarantine' = NoQuarantine, stage' \in Directories, final' \in Directories,
           Consistent(stage)', Whole(final)',
           state' \in Requests \cup {None}, base' \in Requests \cup {None}, request' \in Requests,
           journal' \in {"none", "prepared", "installing", "validated"}, resumed' \in BOOLEAN,
           pc' \in {"down", "plan", "launch", "running", "refused"}, kills' \in 0 .. MaxKills
    PROVE  VMInv'
<1>1. /\ quarantine' \in [held : BOOLEAN, stage : Directories, final : Directories,
                          state : Requests \cup {None}]
      /\ ~quarantine'.held /\ quarantine'.stage = NoVM /\ quarantine'.final = NoVM
  BY NoVMIsFine DEF NoQuarantine
<1>2. VMTypeOK'
  BY <1>1 DEF VMTypeOK, Steps
<1>3. Machines'
  BY <1>1, NoVMIsFine DEF Machines, Whole, Consistent, Complete
<1>4. Building' /\ Holding'
  BY <1>1 DEF Building, Holding
<1> QED BY <1>2, <1>3, <1>4 DEF VMInv

LEMMA RestoreKeepsInv ==
    ASSUME VMInv, RestoreAll, base' \in Requests \cup {None}, request' \in Requests,
           journal' \in {"none", "prepared", "installing", "validated"}, resumed' \in BOOLEAN,
           pc' \in {"down", "plan"}, kills' \in 0 .. MaxKills
    PROVE  VMInv'
<1>1. /\ quarantine.stage \in Directories /\ quarantine.final \in Directories
      /\ quarantine.state \in Requests \cup {None}
      /\ Consistent(quarantine.stage) /\ Whole(quarantine.final)
  BY DEF VMInv, VMTypeOK, Machines
<1>2. Consistent(stage)' /\ Whole(final)'
  BY <1>1 DEF RestoreAll, Consistent, Whole, Complete
<1> QED BY <1>1, <1>2, ReleasedKeepsInv DEF RestoreAll

LEMMA BootKeepsInv == ASSUME VMInv, Boot PROVE VMInv'
<1> USE DEF Boot
<1>0. VMTypeOK /\ Machines /\ Holding
  BY DEF VMInv
<1>1. CASE quarantine.held /\ ~ResetCommitted
  BY <1>0, <1>1, RestoreKeepsInv DEF VMTypeOK, Holding
<1>2. CASE quarantine.held /\ ResetCommitted
  <2>1. quarantine' = NoQuarantine /\ UNCHANGED <<stage, final, state>> /\ pc' = "plan"
        /\ journal' = "none"
    BY <1>0, <1>2 DEF Holding
  <2>2. Consistent(stage)' /\ Whole(final)'
    BY <1>0, <2>1 DEF Machines, Consistent, Whole, Complete
  <2> QED BY <1>0, <2>1, <2>2, ReleasedKeepsInv DEF VMTypeOK
<1>3. CASE ~quarantine.held
  <2>1. UNCHANGED <<stage, final, state, quarantine>> /\ pc' \in {"plan", "refused"}
        /\ journal' \in {"none", "prepared", "installing", "validated"}
    BY <1>0, <1>3 DEF VMTypeOK
  <2>2. Consistent(stage)' /\ Whole(final)'
    BY <1>0, <2>1 DEF Machines, Consistent, Whole, Complete
  <2>3. quarantine' = NoQuarantine
    BY <1>0, <1>3, <2>1 DEF VMTypeOK
  <2> QED BY <1>0, <2>1, <2>2, <2>3, ReleasedKeepsInv DEF VMTypeOK
<1> QED BY <1>1, <1>2, <1>3

LEMMA FailKeepsInv ==
    ASSUME VMInv, FailInstall, UNCHANGED <<base, request, kills>>,
           ~quarantine.held => stage' \in Directories /\ Consistent(stage)'
    PROVE  VMInv'
<1>0. VMTypeOK /\ Machines
  BY DEF VMInv
<1>1. CASE quarantine.held
  BY <1>0, <1>1, RestoreKeepsInv DEF FailInstall, VMTypeOK
<1>2. CASE ~quarantine.held
  <2>1. Whole(final)' /\ quarantine' = NoQuarantine
    BY <1>0, <1>2 DEF FailInstall, Machines, Whole, Complete, VMTypeOK
  <2> QED BY <1>0, <1>2, <2>1, ReleasedKeepsInv DEF FailInstall, VMTypeOK
<1> QED BY <1>1, <1>2

LEMMA FailuresKeepInv ==
    ASSUME VMInv, FinalRejected \/ StageRejected \/ DiskFails \/ StepFails \/ SaveFails PROVE VMInv'
<1>0. VMTypeOK /\ Machines /\ Consistent(stage) /\ stage \in Directories
  BY DEF VMInv, Machines, VMTypeOK
<1>1. CASE FinalRejected \/ StageRejected \/ StepFails
  <2>1. FailInstall /\ UNCHANGED <<base, request, kills>> /\ (~quarantine.held => UNCHANGED stage)
    BY <1>1 DEF FinalRejected, StageRejected, StepFails
  <2>2. ~quarantine.held => stage' \in Directories /\ Consistent(stage)'
    BY <1>0, <2>1 DEF Consistent
  <2> QED BY <2>1, <2>2, FailKeepsInv
<1>2. CASE DiskFails
  <2>1. stage.exists
    BY <1>2 DEF DiskFails, VMInv, Building
  <2>2. ~quarantine.held => stage' \in Directories /\ Consistent(stage)'
    BY <1>0, <1>2, <2>1 DEF DiskFails, Directories, Sizes, Consistent
  <2> QED BY <1>2, <2>2, FailKeepsInv DEF DiskFails
<1>3. CASE SaveFails
  <2>1. CASE quarantine.held
    BY <1>3, <2>1, FailKeepsInv DEF SaveFails
  <2>2. CASE ~quarantine.held
    <3>1. Building' /\ Holding'
      BY <1>3, <2>2 DEF SaveFails, Building, Holding
    <3> QED BY <1>0, <1>3, <2>2, <3>1, MachinesUnchanged DEF SaveFails, VMTypeOK, Steps
  <2> QED BY <2>1, <2>2
<1> QED BY <1>1, <1>2, <1>3

LEMMA PurgeKeepsInv == ASSUME VMInv, Purge PROVE VMInv'
<1>0. VMTypeOK /\ Machines
  BY DEF VMInv
<1>1. Consistent(stage)' /\ Whole(final)'
  BY <1>0 DEF Purge, Machines, Consistent, Whole, Complete
<1> QED BY <1>0, <1>1, ReleasedKeepsInv DEF Purge, VMTypeOK

LEMMA LaunchKeepsInv == ASSUME VMInv, Launch PROVE VMInv'
<1> USE DEF Launch
<1>0. VMTypeOK /\ Machines /\ Holding
  BY DEF VMInv
<1>1. final' \in Directories /\ base' \in Requests \cup {None}
  BY <1>0 DEF VMTypeOK, Directories, Sizes
<1>2. Whole(final)'
  BY <1>0 DEF VMTypeOK, Machines, Directories, Whole, Complete
<1>3. Consistent(stage)'
  BY <1>0 DEF Machines, Consistent
<1>4. quarantine' = NoQuarantine
  BY <1>0 DEF Holding, VMTypeOK
<1> QED BY <1>0, <1>1, <1>2, <1>3, <1>4, ReleasedKeepsInv DEF VMTypeOK

------------------------------------------------------------------------------

LEMMA StepKeepsInv == ASSUME VMInv, [VMNext]_vmVars PROVE VMInv'
<1>1. CASE Boot \/ PlanRun \/ Prepare \/ BeginInstall \/ BeginReset
  BY <1>1, BootKeepsInv, PlanKeepsInv, ResetKeepsInv
<1>2. CASE InstallVM
  BY <1>2, CheckKeepsInv, BuildKeepsInv, CommitKeepsInv, FailuresKeepInv DEF InstallVM
<1>3. CASE Seal \/ SaveState \/ SaveFails \/ Purge \/ Launch \/ Stop \/ CrashVM
  BY <1>3, CommitStateKeepsInv, FailuresKeepInv, PurgeKeepsInv, LaunchKeepsInv
<1>4. CASE UNCHANGED vmVars
  BY <1>4
     DEF vmVars, disk, VMInv, VMTypeOK, Machines, Whole, Consistent, Complete, Building, Holding
<1> QED BY <1>1, <1>2, <1>3, <1>4 DEF VMNext

\* What installVM (vm.go) has put together at each of its steps, and what the
\* quarantine of a reset holds, is inductive, for every set of requests.
THEOREM VMInvariance == VMSpec => []VMInv
BY InitEstablishesInv, StepKeepsInv, PTL DEF VMSpec

------------------------------------------------------------------------------

\* The machine, its stage, the quarantine and the steps are of their types.
THEOREM TypeCorrect == VMSpec => []VMTypeOK
BY VMInvariance, PTL DEF VMInv

\* What stands under the name vm is whole and all of it was made for one
\* request, for any number of requests, attempts and kills
\* (vm.go, ensureVMStandaloneDisk and the rename after it).
THEOREM CommittedVMIsAlwaysComplete == VMSpec => []CommittedVMIsComplete
<1>1. VMInv => CommittedVMIsComplete
  BY DEF VMInv, Machines, Whole, CommittedVMIsComplete
<1> QED BY <1>1, VMInvariance, PTL

\* The disk a guest has used is kept, in place or in the quarantine, until
\* state.json names another machine.
THEOREM GuestDiskAlwaysSurvives == VMSpec => GuestDiskSurvives
<1> DEFINE Kept == final.size = "used" /\ final' # final => quarantine'.final = final
<1> DEFINE Back == quarantine.final.size = "used" /\ ~quarantine'.held =>
                       final' = quarantine.final \/ state \notin {None, quarantine.state}
<1>1. ASSUME VMInv, [VMNext]_vmVars PROVE Kept /\ Back
  <2>0. VMTypeOK /\ Machines /\ Building /\ Holding
    BY <1>1 DEF VMInv
  <2>1. ~quarantine.held => quarantine.final.size = "none"
    BY <2>0 DEF VMTypeOK, NoQuarantine, NoVM
  <2>2. ASSUME quarantine.held, RestoreAll PROVE Kept /\ Back
    BY <2>0, <2>2 DEF RestoreAll, Holding
  <2>3. CASE Boot
    <3>1. CASE quarantine.held /\ ResetCommitted
      BY <2>0, <2>3, <3>1 DEF Boot, ResetCommitted, Holding
    <3>2. CASE quarantine.held /\ ~ResetCommitted
      BY <2>0, <2>2, <2>3, <3>2 DEF Boot, Holding
    <3>3. CASE ~quarantine.held
      BY <2>1, <2>3, <3>3 DEF Boot
    <3> QED BY <3>1, <3>2, <3>3
  <2>4. CASE BeginReset
    BY <2>1, <2>4 DEF BeginReset
  <2>5. CASE FailInstall
    BY <2>1, <2>2, <2>5 DEF FailInstall
  <2>6. CASE Commit
    <3>1. final = NoVM
      BY <2>0, <2>6 DEF Commit, Machines, Whole
    <3> QED BY <2>1, <2>6, <3>1 DEF Commit, Doing, NoVM
  <2>7. CASE Purge
    BY <2>0, <2>1, <2>7, VMAssumption DEF Purge, Holding, VMTypeOK
  <2>8. CASE Launch
    <3>1. final.size = "used" => final' = final
      BY <2>0, <2>8 DEF Launch, VMTypeOK, Directories
    <3> QED BY <2>1, <2>8, <3>1, <2>0 DEF Launch, Holding
  <2>9. CASE UNCHANGED <<final, quarantine>>
    BY <2>1, <2>9
  <2> QED
    BY <1>1, <2>3, <2>4, <2>5, <2>6, <2>7, <2>8, <2>9
       DEF VMNext, InstallVM, PlanRun, Prepare, BeginInstall, CheckFinal, FinalRejected,
           CheckStage,
           StageRejected, WriteMeta, ReuseDisk, DropDisk, Convert, Resize, CheckDisk, DiskFails,
           WriteSeed, Firmware, StepFails, RemoveBase, Seal, SaveState, SaveFails, Stop, CrashVM, Doing,
           disk, vmVars
<1> QED BY <1>1, VMInvariance, PTL DEF VMSpec, GuestDiskSurvives

(***************************************************************************)
(* Installers: the recipes and the inductive invariant.                    *)
(***************************************************************************)

\* What the proofs need of a recipe: what starts a tree is its first step, data
\* is linked in the last, and every recipe fills a tree in a place that stays.
WellFormed(r) ==
    /\ Len(r) \in Nat \ {0} /\ DOMAIN r = 1 .. Len(r)
    /\ \A i \in DOMAIN r : r[i] \in {"stage", "fixed", "copy", "clone"} => i = 1
    /\ \A i, j \in DOMAIN r : r[i] = "candidate" /\ j < i => r[j] = "stage"
    /\ \A i \in DOMAIN r : r[i] = "move" => r[1] = "stage"
    /\ \A i, j \in DOMAIN r : r[i] = "create" => r[1] = "copy" /\ r[j] \in {"copy", "create", "fill"}
    /\ \A i \in DOMAIN r : r[i] = "create" => i + 1 \in DOMAIN r /\ r[i + 1] = "fill"
    /\ \A i \in DOMAIN r : r[i] = "link" => i = Len(r) /\ \E j \in 1 .. i - 1 : r[j] = "extract"
    /\ \E i \in DOMAIN r : r[i] \in {"candidate", "move", "clone", "fixed", "copy"}
    /\ \E i \in DOMAIN r : r[i] \in {"extract", "clone", "copy"}

LEMMA RecipesAreWellFormed == \A p \in StagedProviders : WellFormed(Recipe[p])
<1>1. StagedProviders = {"openmp", "mtasa", "code_server", "terraria", "factorio", "tmodloader",
                         "tshock", "endstone", "zip", "java_installer", "quilt", "phar", "jar",
                         "source"}
  BY DEF StagedProviders, LiveProviders, Recipe
<1>2. WellFormed(OpenMP) /\ WellFormed(MTA) /\ WellFormed(CodeServer)
  BY DEF WellFormed, OpenMP, MTA, CodeServer
<1>3. WellFormed(Terraria) /\ WellFormed(Factorio) /\ WellFormed(TModLoader)
  BY DEF WellFormed, Terraria, Factorio, TModLoader
<1>4. WellFormed(TShock) /\ WellFormed(Endstone) /\ WellFormed(BedrockZip)
  BY DEF WellFormed, TShock, Endstone, BedrockZip
<1>5. WellFormed(JavaLoader) /\ WellFormed(Quilt) /\ WellFormed(PHAR)
  BY DEF WellFormed, JavaLoader, Quilt, PHAR
<1>6. WellFormed(Jar) /\ WellFormed(GitSource)
  BY DEF WellFormed, Jar, GitSource
<1> QED BY <1>1, <1>2, <1>3, <1>4, <1>5, <1>6 DEF Recipe

------------------------------------------------------------------------------

Underway == mode \in {"work", "made"}
Plan == Recipe[provider]

\* The steps of the recipe that this attempt has done.
Done == {Plan[i] : i \in IF mode = "made" THEN DOMAIN Plan ELSE 1 .. pos - 1}
        \ IF reused THEN {"clone"} ELSE {}

\* The place of a tree t after the steps of D, with the directories d.
Placed(D, t, d) ==
    /\ D \cap {"candidate", "move", "clone"} # {} => t.at = "candidate"
    /\ D \cap {"fixed", "copy"} # {} => t.at = "fixed"
    /\ t.at = "candidate" => "candidate" \in d

Full(t) == t.body = "whole" \/ (provider = "quilt" /\ t.body = "launcher")
Filled(D, t) == D \cap {"extract", "copy", "clone"} # {} => Full(t)

\* The data of the name has been looked at, and shared if it was local.
AtLink(n) == cursor \in {<<n, "clear">>, <<n, "make">>}

\* What the archive packed and is not linked yet is in the tree, or shared.
Packed(D, t) == "extract" \in D => \A n \in todo \cap t.packs :
                                       AtLink(n) \/ t.local[n] # "none" \/ home[n] # "none"

\* The names the server needs data for, and those that have it.
Needed(n) == n \in Dirs \cup root.packs
Shared(n) == Needed(n) => home[n] # "none"

Linked ==
    /\ mode = "work" /\ Step # "link" => todo = Names
    /\ mode = "made" /\ Uses("link") => todo = {}
    /\ \A n \in Names : /\ AtLink(n) => n \in todo /\ Shared(n)
                        /\ n \notin todo => root.local[n] = "link" /\ Shared(n)

\* A name that is looked for or written to belongs to the step; directories are
\* seeded or linked.
Looking ==
    \/ cursor = NoName
    \/ /\ Step \in {"seed", "properties", "create"} /\ cursor[2] = "write"
       /\ Step = "seed" \/ cursor[1] \notin Dirs
    \/ Step = "fill" /\ cursor[2] = "fill" /\ cursor[1] \notin Dirs
    \/ Step = "link" /\ cursor[2] # "fill" /\ cursor[1] \in todo

\* The tree of an attempt is that of the release when it is reused, and else one
\* of its own.
Reusing ==
    /\ root.at = "release" => reused
    /\ reused => Plan[1] = "clone" /\ release = "whole" /\ root.at = "release" /\ root.body = "whole"

StagedInv ==
    /\ TypeOK
    /\ provider \in {"java_installer", "quilt"} => root.packs = {}
    /\ Looking
    /\ ~Underway => root.at \in {"none", "fixed"}
    /\ Underway => Placed(Done, root, dirs) /\ Filled(Done, root) /\ Linked /\ Reusing
    /\ mode = "work" => Packed(Done, root) /\ (reused => pos # 1)

------------------------------------------------------------------------------

LEMMA StagedInitEstablishesInv == Init => StagedInv
<1> SUFFICES ASSUME Init PROVE StagedInv
  OBVIOUS
<1>1. /\ provider \in StagedProviders /\ home \in [Names -> {"none", "user"}]
      /\ root = Nothing /\ dirs = {} /\ release = "none" /\ reused = FALSE /\ mode = "idle"
      /\ pos = 1 /\ todo = {} /\ cursor = NoName /\ crashes = 0
  BY DEF Init
<1>2. root \in Trees /\ root.at = "none" /\ root.packs = {}
  BY <1>1 DEF Nothing, Trees
<1>3. pos \in DOMAIN Recipe[provider]
  BY <1>1, RecipesAreWellFormed DEF WellFormed
<1>4. home \in [Names -> {"none", "default", "torn", "loop", "user"}] /\ crashes \in 0 .. MaxCrashes
  BY <1>1, CrashesAreCounted
<1>5. TypeOK
  BY <1>1, <1>2, <1>3, <1>4 DEF TypeOK
<1> QED BY <1>1, <1>2, <1>5 DEF StagedInv, Underway, Looking

\* Where an attempt is in its recipe.
LEMMA StepIs ==
    ASSUME StagedInv, mode = "work"
    PROVE  /\ WellFormed(Plan) /\ pos \in 1 .. Len(Plan) /\ Step = Plan[pos]
           /\ Placed(Done, root, dirs) /\ Filled(Done, root) /\ Linked /\ Packed(Done, root)
           /\ Looking /\ Reusing /\ Underway
           /\ Step \in {"stage", "fixed", "copy", "clone"} => Done = {}
           /\ Step \in {"stage", "fixed", "copy", "clone", "candidate", "move"} => ~reused
           /\ Step = "candidate" => Done \subseteq {"stage"}
           /\ Step = "move" => Done \cap {"fixed", "copy", "clone"} = {}
           /\ Step = "link" => pos = Len(Plan) /\ "extract" \in Done
<1>1. WellFormed(Plan) /\ pos \in 1 .. Len(Plan) /\ Step = Plan[pos]
  BY RecipesAreWellFormed DEF StagedInv, TypeOK, Plan, Step, WellFormed
<1>2. Done \subseteq {Plan[i] : i \in 1 .. pos - 1} /\ 1 .. pos - 1 \subseteq DOMAIN Plan
  BY <1>1 DEF Done, WellFormed
<1>3. Step \in {"stage", "fixed", "copy", "clone"} => Done = {} /\ pos = 1
  <2> SUFFICES ASSUME Step \in {"stage", "fixed", "copy", "clone"} PROVE Done = {} /\ pos = 1
    OBVIOUS
  <2>1. pos = 1
    BY <1>1 DEF WellFormed
  <2> QED BY <1>2, <2>1
<1>4. Step = "candidate" => Done \subseteq {"stage"}
  <2> SUFFICES ASSUME Plan[pos] = "candidate", NEW i \in 1 .. pos - 1 PROVE Plan[i] = "stage"
    BY <1>1, <1>2
  <2>1. i \in DOMAIN Plan /\ pos \in DOMAIN Plan /\ i < pos
    BY <1>1, <1>2 DEF WellFormed
  <2> QED BY <1>1, <2>1 DEF WellFormed
<1>5. Step = "move" => Done \cap {"fixed", "copy", "clone"} = {}
  <2> SUFFICES ASSUME Plan[pos] = "move",
                      NEW i \in 1 .. pos - 1, Plan[i] \in {"fixed", "copy", "clone"}
               PROVE  FALSE
    BY <1>1, <1>2
  <2>1. i = 1 /\ Plan[1] = "stage"
    BY <1>1, <1>2 DEF WellFormed
  <2> QED BY <2>1
<1>6. Step = "link" => pos = Len(Plan) /\ "extract" \in Done
  <2> SUFFICES ASSUME Plan[pos] = "link" PROVE pos = Len(Plan) /\ "extract" \in Done
    BY <1>1
  <2>1. pos \in DOMAIN Plan
    BY <1>1 DEF WellFormed
  <2>2. pos = Len(Plan) /\ \E j \in 1 .. pos - 1 : Plan[j] = "extract"
    BY <1>1, <2>1 DEF WellFormed
  <2> QED BY <2>2 DEF Done
<1>7. Looking /\ Reusing /\ Underway /\ (reused => pos # 1 /\ Plan[1] = "clone")
  BY DEF StagedInv, Underway, Reusing
\* A recipe that clones has no step after it that makes a tree.
<1>8. Step \in {"stage", "fixed", "copy", "clone", "candidate", "move"} => ~reused
  <2>1. CASE Step \in {"stage", "fixed", "copy", "clone"}
    BY <1>3, <1>7, <2>1
  <2>2. CASE Step \in {"candidate", "move"}
    <3> SUFFICES ASSUME reused PROVE FALSE
      OBVIOUS
    <3>1. 1 \in DOMAIN Plan /\ pos \in DOMAIN Plan /\ 1 < pos
      BY <1>1, <1>7 DEF WellFormed
    <3>2. Plan[1] = "stage"
      BY <1>1, <2>2, <3>1 DEF WellFormed
    <3> QED BY <1>7, <3>2
  <2> QED BY <2>1, <2>2
<1> QED BY <1>1, <1>3, <1>4, <1>5, <1>6, <1>7, <1>8 DEF StagedInv

LEMMA AdvanceIs ==
    ASSUME StagedInv, mode = "work", NEW d, Advance(d), UNCHANGED provider
    PROVE  /\ Plan' = Plan /\ pos' \in DOMAIN Plan /\ mode' \in {"work", "made"}
           /\ mode' = "work" => dirs' = d /\ pos' = pos + 1
           /\ mode' = "made" => dirs' = d \ {"stage"} /\ pos = Len(Plan)
           /\ reused' = reused => Done' \subseteq Done \cup {Step}
           /\ reused' /\ Step = "clone" => Done' \subseteq Done
<1>1. Plan' = Plan
  BY DEF Plan
<1>2. PICK n \in Nat : n = Len(Plan) /\ pos \in 1 .. n /\ DOMAIN Plan = 1 .. n
  <2>1. WellFormed(Plan) /\ pos \in 1 .. Len(Plan)
    BY StepIs
  <2>2. Len(Plan) \in Nat /\ DOMAIN Plan = 1 .. Len(Plan)
    BY <2>1 DEF WellFormed
  <2> DEFINE len == Len(Plan)
  <2>3. len \in Nat /\ len = Len(Plan) /\ pos \in 1 .. len /\ DOMAIN Plan = 1 .. len
    BY <2>1, <2>2
  <2> HIDE DEF len
  <2> QED BY <2>3
<1>3. \/ /\ pos = n /\ mode' = "made" /\ dirs' = d \ {"stage"} /\ pos' = pos
      \/ /\ pos # n /\ mode' = "work" /\ dirs' = d /\ pos' = pos + 1
  BY <1>2 DEF Advance, Plan
<1> DEFINE upto == IF mode' = "made" THEN DOMAIN Plan ELSE 1 .. pos' - 1
<1>4. upto = 1 .. pos
  BY <1>2, <1>3
<1>5. 1 .. pos = (1 .. pos - 1) \cup {pos}
  BY <1>2
<1> DEFINE before == {Plan[i] : i \in 1 .. pos - 1}
           after == {Plan[i] : i \in upto}
<1>6. Done' = after \ (IF reused' THEN {"clone"} ELSE {}) /\ Done = before \ IF reused THEN {"clone"} ELSE {}
  BY <1>1 DEF Done
<1>7. after = before \cup {Step}
  BY <1>4, <1>5, StepIs
<1> HIDE DEF upto, before, after
<1>8. /\ reused' = reused => Done' \subseteq Done \cup {Step}
      /\ reused' /\ Step = "clone" => Done' \subseteq Done
  BY <1>6, <1>7
<1>9. pos' \in DOMAIN Plan
  BY <1>2, <1>3
<1> QED BY <1>1, <1>2, <1>3, <1>8, <1>9

(***************************************************************************)
(* Installers: the steps.                                                  *)
(***************************************************************************)

\* No step but the user's removal takes data from the home directory.
HomeGrows ==
    /\ home' \in [Names -> {"none", "default", "torn", "loop", "user"}]
    /\ \A n \in Names : home[n] # "none" => home'[n] # "none"

\* A step of a recipe before the links, after which the steps of D are done.
LEMMA AdvanceKeepsInv ==
    ASSUME StagedInv, mode = "work", Step # "link",
           NEW d \in SUBSET {"stage", "candidate"}, Advance(d),
           HomeGrows, release' \in {"none", "whole", "changed"}, reused' \in BOOLEAN,
           UNCHANGED <<provider, todo, crashes>>,
           \/ cursor' = NoName
           \/ Step = "create" /\ \E n \in Names \ Dirs : cursor' = <<n, "fill">>,
           NEW D, Done' \subseteq D,
           root' \in Trees, root'.at \in {"stage", "candidate"} => root'.at \in d,
           provider \in {"java_installer", "quilt"} => root'.packs = {},
           Placed(D, root', d), Filled(D, root'), Packed(D, root'), Reusing'
    PROVE  StagedInv'
<1>1. /\ Plan' = Plan /\ pos' \in DOMAIN Plan /\ mode' \in {"work", "made"}
      /\ mode' = "work" => dirs' = d /\ pos' = pos + 1
      /\ mode' = "made" => dirs' = d \ {"stage"} /\ pos = Len(Plan)
  BY AdvanceIs
<1>2. /\ todo = Names /\ Step = Plan[pos] /\ WellFormed(Plan) /\ pos \in 1 .. Len(Plan)
      /\ \A n \in Names : ~AtLink(n)
  <2>1. \A n \in Names : <<n, "clear">> # NoName /\ <<n, "make">> # NoName
    BY DEF NoName
  <2> QED BY <2>1, StepIs DEF Linked, Looking, AtLink
<1>3. cursor' \in {NoName} \cup Names \X {"write", "fill", "clear", "make"}
  OBVIOUS
<1>4. TypeOK'
  BY <1>1, <1>3 DEF StagedInv, TypeOK, HomeGrows, Plan
<1>5. Placed(Done, root, dirs)' /\ Filled(Done, root)'
  BY <1>1 DEF Placed, Filled, Full
<1>6. Packed(Done, root)'
  BY <1>2 DEF Packed, HomeGrows, Trees
<1>7. mode' = "made" => ~Uses("link")'
  <2> SUFFICES ASSUME mode' = "made", NEW i \in DOMAIN Plan, Plan[i] = "link" PROVE FALSE
    BY <1>1 DEF Uses, Plan
  <2>1. i = Len(Plan) /\ pos = Len(Plan)
    BY <1>1, <1>2 DEF WellFormed
  <2> QED BY <1>2, <2>1
<1>8. \A n \in Names : ~AtLink(n)'
  BY DEF AtLink, NoName
<1>9. Linked'
  BY <1>1, <1>2, <1>7, <1>8 DEF Linked
<1>10. Looking'
  <2>1. CASE cursor' = NoName
    BY <2>1 DEF Looking
  <2>2. ASSUME Step = "create", NEW n \in Names \ Dirs, cursor' = <<n, "fill">> PROVE Looking'
    <3>1. pos + 1 \in DOMAIN Plan /\ Plan[pos + 1] = "fill"
      BY <1>2, <2>2 DEF WellFormed
    <3>2. Step' = "fill"
      BY <1>1, <1>2, <3>1 DEF Step, Plan, WellFormed
    <3> QED BY <2>2, <3>2 DEF Looking
  <2> QED BY <2>1, <2>2
<1>11. mode' = "work" => pos' # 1
  BY <1>1, <1>2
<1> QED BY <1>1, <1>4, <1>5, <1>6, <1>9, <1>10, <1>11 DEF StagedInv, Underway

\* The same for one that leaves the tree as it is.
LEMMA TreeStays ==
    ASSUME StagedInv, mode = "work", Advance(dirs), UNCHANGED root, HomeGrows,
           Step \in {"check", "build", "seed", "properties", "create", "fill"},
           \/ cursor' = NoName
           \/ Step = "create" /\ \E n \in Names \ Dirs : cursor' = <<n, "fill">>,
           UNCHANGED <<provider, release, reused, todo, crashes>>
    PROVE  StagedInv'
<1> DEFINE D == Done \cup {Step}
<1>1. Done' \subseteq D
  BY AdvanceIs
<1>2. Placed(D, root', dirs) /\ Filled(D, root') /\ Packed(D, root')
  BY StepIs DEF Placed, Filled, Packed
<1>3. /\ dirs \in SUBSET {"stage", "candidate"} /\ reused' \in BOOLEAN
      /\ root' \in Trees /\ (root'.at \in {"stage", "candidate"} => root'.at \in dirs)
      /\ provider \in {"java_installer", "quilt"} => root'.packs = {}
  BY DEF StagedInv, TypeOK
<1>4. release' \in {"none", "whole", "changed"}
  BY DEF StagedInv, TypeOK
<1>5. Reusing'
  BY StepIs DEF Reusing, Plan
<1> HIDE DEF D
<1> QED BY <1>1, <1>2, <1>3, <1>4, <1>5, AdvanceKeepsInv

LEMMA StagedFailKeepsInv ==
    ASSUME StagedInv, mode = "work", NEW tree \in Trees, tree.at = root.at,
           tree.packs = root.packs, Failed(tree), release' \in {"none", "whole", "changed"}
    PROVE  StagedInv'
<1>1. /\ mode' = "failed" /\ dirs' = {} /\ cursor' = NoName
      /\ root' = IF root.at = "fixed" THEN tree ELSE Nothing
      /\ UNCHANGED <<provider, home, reused, pos, todo, crashes>>
  BY DEF Failed
<1>2. Nothing \in Trees /\ Nothing.at = "none" /\ Nothing.packs = {}
  BY DEF Nothing, Trees
<1>3. TypeOK'
  BY <1>1, <1>2 DEF StagedInv, TypeOK
<1> QED BY <1>1, <1>2, <1>3 DEF StagedInv, Underway, Looking

\* What a failure does to the release is seen from where the tree is.
LEMMA FailureIs ==
    ASSUME StagedInv, NEW tree, FailWith(tree)
    PROVE  Failed(tree) /\ release' \in {"none", "whole", "changed"}
BY DEF FailWith, RemoveTree, StagedInv, TypeOK

LEMMA MakeTreeKeepsInv ==
    ASSUME StagedInv, MakeDirectory \/ OpenFixed \/ CopyFile \/ Move
                      \/ Clone
    PROVE  StagedInv'
<1>1. mode = "work"
  BY DEF MakeDirectory, OpenFixed, CopyFile, Move, Clone, Step
<1>2. /\ root \in Trees /\ dirs \in SUBSET {"stage", "candidate"} /\ reused \in BOOLEAN
      /\ release \in {"none", "whole", "changed"}
      /\ home \in [Names -> {"none", "default", "torn", "loop", "user"}]
      /\ provider \in {"java_installer", "quilt"} => root.packs = {}
      /\ root.at \in {"stage", "candidate"} => root.at \in dirs
  BY <1>1 DEF StagedInv, TypeOK
<1>3. CASE Fail
  BY <1>1, <1>2, <1>3, FailureIs, StagedFailKeepsInv DEF Fail
<1>4. ASSUME NEW d \in SUBSET {"stage", "candidate"}, NEW tree \in Trees, Makes(d, tree),
             Step \in {"stage", "candidate", "fixed", "copy", "move", "clone"},
             tree.at \in {"stage", "candidate"} => tree.at \in d,
             tree.packs = root.packs \/ tree.packs = {}, tree.at # "release",
             Step \in {"candidate", "move", "clone"} => tree.at = "candidate",
             Step \in {"fixed", "copy"} => tree.at = "fixed",
             Step \in {"copy", "clone"} => tree.body = "whole",
             Step = "move" => tree = [root EXCEPT !.at = "candidate"]
      PROVE  StagedInv'
  <2>1. /\ Advance(d) /\ root' = tree
        /\ UNCHANGED <<provider, home, release, reused, todo, cursor, crashes>>
    BY <1>4 DEF Makes
  <2> DEFINE D == Done \cup {Step}
  <2>2. Done' \subseteq D
    BY <1>1, <2>1, AdvanceIs
  <2>3. Placed(D, tree, d)
    BY <1>1, <1>4, StepIs DEF Placed
  <2>4. Filled(D, tree)
    BY <1>1, <1>2, <1>4, StepIs DEF Filled, Full, Trees
  <2>5. Packed(D, tree)
    BY <1>1, <1>2, <1>4, StepIs DEF Packed, Trees
  <2>6. HomeGrows
    BY <1>2, <2>1 DEF HomeGrows
  <2>7. cursor' = NoName
    BY <1>1, <1>4, <2>1, StepIs DEF Looking
  <2>8. Reusing'
    BY <1>1, <1>4, <2>1, StepIs DEF Reusing
  <2> HIDE DEF D
  <2> QED BY <1>1, <1>2, <1>4, <2>1, <2>2, <2>3, <2>4, <2>5, <2>6, <2>7, <2>8, AdvanceKeepsInv
<1>5. CASE Step \in {"stage", "candidate"}
           /\ Makes(dirs \cup {Step}, [Nothing EXCEPT !.at = Step])
  <2> DEFINE tree == [Nothing EXCEPT !.at = Step]
  <2>1. tree \in Trees /\ tree.at = Step /\ tree.packs = {}
    BY <1>5 DEF Nothing, Trees
  <2>2. dirs \cup {Step} \in SUBSET {"stage", "candidate"}
    BY <1>2, <1>5
  <2> HIDE DEF tree
  <2> QED BY <1>4, <1>5, <2>1, <2>2 DEF tree
<1>6. CASE Step = "fixed" /\ Makes(dirs, IF root.at = "fixed" THEN root
                                                   ELSE [Nothing EXCEPT !.at = "fixed"])
  <2> DEFINE tree == IF root.at = "fixed" THEN root ELSE [Nothing EXCEPT !.at = "fixed"]
  <2>1. tree \in Trees /\ tree.at = "fixed" /\ (tree.packs = root.packs \/ tree.packs = {})
    BY <1>2 DEF Nothing, Trees
  <2> HIDE DEF tree
  <2> QED BY <1>2, <1>4, <1>6, <2>1 DEF tree
<1>7. CASE Step = "copy"
           /\ Makes(dirs, [Nothing EXCEPT !.at = "fixed", !.body = "whole"])
  <2> DEFINE tree == [Nothing EXCEPT !.at = "fixed", !.body = "whole"]
  <2>1. tree \in Trees /\ tree.at = "fixed" /\ tree.packs = {} /\ tree.body = "whole"
    BY DEF Nothing, Trees
  <2> HIDE DEF tree
  <2> QED BY <1>2, <1>4, <1>7, <2>1 DEF tree
<1>8. CASE Step = "move"
           /\ Makes(dirs \cup {"candidate"}, [root EXCEPT !.at = "candidate"])
  <2> DEFINE tree == [root EXCEPT !.at = "candidate"]
  <2>1. tree \in Trees /\ tree.at = "candidate" /\ tree.packs = root.packs
    BY <1>2 DEF Trees
  <2>2. dirs \cup {"candidate"} \in SUBSET {"stage", "candidate"}
    BY <1>2
  <2>3. tree = [root EXCEPT !.at = "candidate"]
    OBVIOUS
  <2> HIDE DEF tree
  <2> QED BY <1>4, <1>8, <2>1, <2>2, <2>3
<1>9. CASE Step = "clone"
           /\ Makes(dirs \cup {"candidate"},
                           [Nothing EXCEPT !.at = "candidate", !.body = "whole"])
  <2> DEFINE tree == [Nothing EXCEPT !.at = "candidate", !.body = "whole"]
  <2>1. tree \in Trees /\ tree.at = "candidate" /\ tree.packs = {} /\ tree.body = "whole"
    BY DEF Nothing, Trees
  <2>2. dirs \cup {"candidate"} \in SUBSET {"stage", "candidate"}
    BY <1>2
  <2> HIDE DEF tree
  <2> QED BY <1>4, <1>9, <2>1, <2>2 DEF tree
<1>10. CASE /\ Step = "clone" /\ release = "whole" /\ reused' = TRUE
            /\ root' = [Nothing EXCEPT !.at = "release", !.body = "whole"]
            /\ Advance(dirs)
            /\ UNCHANGED <<provider, home, release, todo, cursor, crashes>>
  <2>1. Done = {} /\ Done' \subseteq Done
    BY <1>1, <1>10, AdvanceIs, StepIs
  <2>2. HomeGrows
    BY <1>2, <1>10 DEF HomeGrows
  <2>3. root' \in Trees /\ root'.at = "release" /\ root'.packs = {} /\ root'.body = "whole"
    BY <1>10 DEF Nothing, Trees
  <2>4. Placed(Done, root', dirs) /\ Filled(Done, root') /\ Packed(Done, root')
    BY <2>1, <2>3 DEF Placed, Filled, Packed
  <2>5. cursor' = NoName
    BY <1>1, <1>10, StepIs DEF Looking
  <2>6. Plan[1] = "clone" /\ Plan' = Plan
    <3>1. pos \in DOMAIN Plan /\ Plan[pos] = "clone"
      BY <1>1, <1>10, StepIs DEF WellFormed
    <3>2. pos = 1
      BY <1>1, <3>1, StepIs DEF WellFormed
    <3> QED BY <1>10, <3>1, <3>2 DEF Plan
  <2>7. Reusing'
    BY <1>10, <2>3, <2>6 DEF Reusing
  <2> QED BY <1>1, <1>2, <1>10, <2>1, <2>2, <2>3, <2>4, <2>5, <2>7, AdvanceKeepsInv
<1> QED BY <1>3, <1>5, <1>6, <1>7, <1>8, <1>9, <1>10
        DEF MakeDirectory, OpenFixed, CopyFile, Move, Clone

LEMMA ExtractKeepsInv == ASSUME StagedInv, Extract \/ RunInstaller PROVE StagedInv'
<1>0. mode = "work" /\ Step = "extract"
  <2>1. Step = "extract"
    BY DEF Extract, RunInstaller
  <2> QED BY <2>1 DEF Step
<1>1. /\ root \in Trees /\ dirs \in SUBSET {"stage", "candidate"} /\ reused \in BOOLEAN
      /\ release \in {"none", "whole", "changed"}
      /\ home \in [Names -> {"none", "default", "torn", "loop", "user"}]
      /\ provider \in {"java_installer", "quilt"} => root.packs = {}
      /\ root.at \in {"stage", "candidate"} => root.at \in dirs
  BY <1>0 DEF StagedInv, TypeOK
\* The tree is whole, or the launcher of Quilt is there, and what is packed is local.
<1>2. ASSUME NEW tree \in Trees, Makes(dirs, tree), tree.at = root.at,
             provider \in {"java_installer", "quilt"} => tree.packs = {}, Full(tree),
             reused => tree.body = "whole",
             \A n \in tree.packs : tree.local[n] # "none"
      PROVE  StagedInv'
  <2>1. /\ Advance(dirs) /\ root' = tree
        /\ UNCHANGED <<provider, home, release, reused, todo, cursor, crashes>>
    BY <1>2 DEF Makes
  <2> DEFINE D == Done \cup {Step}
  <2>2. Done' \subseteq D
    BY <1>0, <2>1, AdvanceIs
  <2>3. Placed(D, tree, dirs) /\ Filled(D, tree) /\ Packed(D, tree)
    BY <1>0, <1>2, StepIs DEF Placed, Filled, Packed
  <2>4. HomeGrows
    BY <1>1, <2>1 DEF HomeGrows
  <2>5. cursor' = NoName
    BY <1>0, <2>1, StepIs DEF Looking
  <2>6. Reusing'
    BY <1>0, <1>2, <2>1, StepIs DEF Reusing, Plan
  <2> HIDE DEF D
  <2> QED BY <1>0, <1>1, <1>2, <2>1, <2>2, <2>3, <2>4, <2>5, <2>6, AdvanceKeepsInv
<1>3. ASSUME NEW tree \in Cut, FailWith(tree) PROVE StagedInv'
  <2>1. tree \in Trees /\ tree.at = root.at /\ tree.packs = root.packs
    BY <1>1 DEF Cut, Trees
  <2> QED BY <1>0, <1>3, <2>1, FailureIs, StagedFailKeepsInv
<1>4. CASE Extract
  <2>1. /\ provider \notin {"java_installer", "quilt"}
        /\ \/ \E packs \in Packages : Makes(dirs, Unpacked(packs))
           \/ \E tree \in Cut : FailWith(tree)
    BY <1>4 DEF Extract
  <2>2. ASSUME NEW packs \in Packages, Makes(dirs, Unpacked(packs)) PROVE StagedInv'
    <3> DEFINE local == [n \in Names |-> IF n \in packs THEN "packaged" ELSE root.local[n]]
               tree == [root EXCEPT !.body = "whole", !.packs = packs, !.local = local]
    <3>1. packs \subseteq Names
      BY <2>2 DEF Packages
    <3>2. local \in [Names -> {"none", "packaged", "link"}] /\ \A n \in packs : local[n] = "packaged"
      BY <1>1, <3>1 DEF Trees
    <3>3. tree = Unpacked(packs)
      BY <1>1 DEF Unpacked, Trees
    <3> HIDE DEF local
    <3>4. /\ tree \in Trees /\ tree.at = root.at /\ tree.body = "whole" /\ tree.packs = packs
          /\ tree.local = local
      BY <1>1, <3>1, <3>2 DEF Trees
    <3> HIDE DEF tree
    <3> QED BY <1>2, <2>1, <2>2, <3>2, <3>3, <3>4 DEF Full
  <2> QED BY <1>3, <2>1, <2>2
<1>5. CASE RunInstaller
  <2>1. provider \in {"java_installer", "quilt"} /\ root.packs = {}
    BY <1>1, <1>5 DEF RunInstaller
  <2>2. CASE provider = "quilt" /\ root.body \in {"launcher", "whole"} /\ Makes(dirs, root)
    BY <1>0, <1>1, <1>2, <2>1, <2>2, StepIs DEF Full, Reusing
  <2>3. CASE Makes(dirs, [root EXCEPT !.body = "whole"])
    <3> DEFINE tree == [root EXCEPT !.body = "whole"]
    <3>1. tree \in Trees /\ tree.at = root.at /\ tree.packs = root.packs /\ tree.body = "whole"
      BY <1>1 DEF Trees
    <3>2. Makes(dirs, tree)
      BY <2>3
    <3> HIDE DEF tree
    <3> QED BY <1>2, <2>1, <3>1, <3>2 DEF Full
  <2> QED BY <1>3, <1>5, <2>2, <2>3 DEF RunInstaller
<1> QED BY <1>4, <1>5

\* A step that leaves the attempt where it is, while data is shared, or looked
\* for, or written.
LEMMA HomeGrowsKeepsInv ==
    ASSUME StagedInv, HomeGrows,
           UNCHANGED <<provider, root, dirs, release, reused, mode, pos, todo, crashes>>,
           \/ cursor' = cursor
           \/ /\ mode = "work" /\ Step # "link" /\ Looking'
              /\ cursor' \in {NoName} \cup Names \X {"write"}
    PROVE  StagedInv'
<1>1. TypeOK'
  BY DEF StagedInv, TypeOK, HomeGrows
<1>2. Done' = Done /\ (Underway' <=> Underway)
  BY DEF Done, Plan, Underway
<1>3. Step' = Step /\ (Uses("link")' <=> Uses("link"))
  BY DEF Step, Uses
<1>4. \A n \in Names : AtLink(n)' <=> AtLink(n)
  <2>1. CASE cursor' = cursor
    BY <2>1 DEF AtLink
  <2>2. ASSUME mode = "work", Step # "link", cursor' \in {NoName} \cup Names \X {"write"},
               NEW n \in Names
        PROVE  ~AtLink(n)' /\ ~AtLink(n)
    <3>1. /\ cursor = NoName \/ cursor[2] \in {"write", "fill"}
          /\ cursor' = NoName \/ cursor'[2] = "write"
      BY <2>2, StepIs DEF Looking
    <3>2. NoName[2] = "none"
      BY DEF NoName
    <3> QED BY <3>1, <3>2 DEF AtLink
  <2> QED BY <2>1, <2>2
<1>5. Linked => Linked'
  BY <1>3, <1>4 DEF Linked, Shared, Needed, HomeGrows
<1>6. mode = "work" => (Packed(Done, root) => Packed(Done, root)')
  BY <1>2, <1>4 DEF Packed, HomeGrows, StagedInv, TypeOK
<1>7. Looking'
  BY <1>3 DEF StagedInv, Looking
<1>8. Reusing => Reusing'
  BY DEF Reusing, Plan
<1> QED BY <1>1, <1>2, <1>5, <1>6, <1>7, <1>8 DEF StagedInv, Placed, Filled, Full

LEMMA ConfigureKeepsInv ==
    ASSUME StagedInv, \/ Check \/ Build \/ Seed \/ Properties
                      \/ CreateConfig \/ FillConfig
    PROVE  StagedInv'
<1>0. /\ mode = "work" /\ Step \in {"check", "build", "seed", "properties", "create", "fill"}
      /\ Looking /\ Reusing
  <2>1. mode = "work" /\ Step \in {"check", "build", "seed", "properties", "create", "fill"}
    BY DEF Check, Build, Seed, Properties, CreateConfig, FillConfig, Step
  <2> QED BY <2>1, StepIs
<1>1. /\ root \in Trees /\ home \in [Names -> {"none", "default", "torn", "loop", "user"}]
      /\ release \in {"none", "whole", "changed"}
  BY DEF StagedInv, TypeOK
<1>2. CASE Fail
  BY <1>0, <1>1, <1>2, FailureIs, StagedFailKeepsInv DEF Fail
<1>3. CASE Makes(dirs, root) /\ cursor = NoName
  <2>1. HomeGrows
    BY <1>1, <1>3 DEF HomeGrows, Makes
  <2> QED BY <1>0, <1>3, <2>1, TreeStays DEF Makes
\* The user's file that is looked for, and the one that is written.
<1>4. ASSUME NEW n \in Names, Looks(n), Step \in {"seed", "properties", "create"},
             Step = "seed" \/ n \notin Dirs
      PROVE  StagedInv'
  <2>1. /\ cursor' = <<n, "write">> /\ HomeGrows
        /\ UNCHANGED <<provider, root, dirs, release, reused, mode, pos, todo, crashes>>
    BY <1>1, <1>4 DEF Looks, HomeGrows
  <2>2. Step' = Step
    BY <2>1 DEF Step
  <2>3. Looking'
    BY <1>4, <2>1, <2>2 DEF Looking
  <2> QED BY <1>0, <1>4, <2>1, <2>3, HomeGrowsKeepsInv
<1>5. ASSUME NEW n \in Names, NEW content \in {"default", "torn"}, Writes(n, content)
      PROVE  HomeGrows /\ UNCHANGED <<provider, root, release, reused, todo, crashes>>
  BY <1>1, <1>5 DEF Writes, HomeGrows
<1>6. CASE Check
  <2>1. cursor = NoName
    BY <1>0, <1>6 DEF Check, Looking
  <2> QED BY <1>2, <1>3, <1>6, <2>1 DEF Check
<1>7. CASE Build
  <2>1. Step = "build" /\ cursor = NoName
    BY <1>0, <1>7 DEF Build, Looking
  <2>2. CASE /\ IF reused THEN UNCHANGED release ELSE ChangeTree
             /\ Advance(dirs)
             /\ UNCHANGED <<provider, home, root, reused, todo, cursor, crashes>>
    <3>1. release' = release /\ HomeGrows
      BY <1>0, <1>1, <2>2 DEF ChangeTree, Reusing, HomeGrows
    <3> QED BY <1>0, <2>1, <2>2, <3>1, TreeStays
  <2>3. CASE ChangeTree /\ Failed(root)
    <3>1. release' \in {"none", "whole", "changed"}
      BY <1>1, <2>3 DEF ChangeTree
    <3> QED BY <1>0, <1>1, <2>3, <3>1, StagedFailKeepsInv
  <2> QED BY <1>2, <1>7, <2>2, <2>3 DEF Build
<1>8. CASE Seed
  <2>1. Step = "seed"
    BY <1>8 DEF Seed
  <2>2. ASSUME NEW n \in Names, Writes(n, "default"), cursor' = NoName, UNCHANGED <<dirs, mode, pos>>
        PROVE  StagedInv'
    <3>1. HomeGrows /\ UNCHANGED <<provider, root, dirs, release, reused, mode, pos, todo, crashes>>
      BY <1>5, <2>2
    <3>2. Looking'
      BY <2>2 DEF Looking
    <3> QED BY <1>0, <2>1, <2>2, <3>1, <3>2, HomeGrowsKeepsInv
  <2> QED BY <1>2, <1>3, <1>4, <1>8, <2>1, <2>2 DEF Seed
<1>9. CASE Properties
  <2>1. Step = "properties"
    BY <1>9 DEF Properties
  <2>2. ASSUME NEW n \in Names \ Dirs, Writes(n, "default"), cursor' = NoName, Advance(dirs)
        PROVE  StagedInv'
    BY <1>0, <1>5, <2>2, TreeStays
  <2> QED BY <1>2, <1>3, <1>4, <1>9, <2>1, <2>2 DEF Properties
\* A jar that needs no configuration file is done before the end of the recipe.
<1>10. CASE CreateConfig
  <2>0. Step = "create"
    BY <1>10 DEF CreateConfig
  <2>1. ASSUME NEW n \in Names \ Dirs, Writes(n, "torn"), cursor' = <<n, "fill">>, Advance(dirs)
        PROVE  StagedInv'
    BY <1>0, <1>5, <2>0, <2>1, TreeStays
  <2>2. CASE /\ cursor = NoName /\ mode' = "made"
             /\ UNCHANGED <<provider, home, root, dirs, release, reused, pos, todo, cursor, crashes>>
    <3>1. WellFormed(Plan) /\ Plan[pos] = "create" /\ pos \in DOMAIN Plan /\ 1 \in DOMAIN Plan
      BY <1>0, <2>0, StepIs DEF WellFormed
    <3>2. Plan[1] = "copy" /\ \A j \in DOMAIN Plan : Plan[j] \in {"copy", "create", "fill"}
      BY <3>1 DEF WellFormed
    <3>3. 1 \in 1 .. pos - 1
      BY <3>1, <3>2 DEF WellFormed
    <3>4. "copy" \in Done
      BY <1>0, <3>2, <3>3 DEF Done
    <3>5. Plan' = Plan
      BY <2>2 DEF Plan
    <3>6. Done' \subseteq {"copy", "create", "fill"}
      BY <2>2, <3>2, <3>5 DEF Done
    <3>7. Placed(Done, root, dirs)' /\ Filled(Done, root)'
      BY <1>0, <2>2, <3>4, <3>6, StepIs DEF Placed, Filled, Full
    <3>8. ~Uses("link")'
      BY <2>2, <3>2, <3>5 DEF Uses, Plan
    <3>9. Linked'
      BY <1>0, <2>2, <3>8, StepIs DEF Linked, AtLink, Shared, Needed
    <3>10. TypeOK'
      BY <2>2 DEF StagedInv, TypeOK
    <3>11. Looking' /\ Reusing'
      BY <1>0, <2>2, <3>5 DEF Looking, Reusing
    <3> QED BY <2>2, <3>7, <3>9, <3>10, <3>11 DEF StagedInv, Underway
  <2> QED BY <1>2, <1>4, <1>10, <2>0, <2>1, <2>2 DEF CreateConfig
<1>11. CASE FillConfig
  <2>1. Step = "fill"
    BY <1>11 DEF FillConfig
  <2>2. ASSUME NEW n \in Names, home' = [home EXCEPT ![n] = "default"] \/ home' = home
        PROVE  HomeGrows
    BY <1>1, <2>2 DEF HomeGrows
  <2>3. CASE /\ \E n \in Names : home' = [home EXCEPT ![n] = "default"] \/ home' = home
             /\ Advance(dirs) /\ cursor' = NoName
             /\ UNCHANGED <<provider, root, release, reused, todo, crashes>>
    BY <1>0, <2>2, <2>3, TreeStays
  <2> QED BY <1>2, <1>11, <2>3 DEF FillConfig
<1> QED BY <1>6, <1>7, <1>8, <1>9, <1>10, <1>11

LEMMA LinkDataKeepsInv == ASSUME StagedInv, LinkData PROVE StagedInv'
<1>0. mode = "work" /\ Step = "link" /\ Underway
  BY DEF LinkData, Step, Underway
<1>1. /\ root \in Trees /\ home \in [Names -> {"none", "default", "torn", "loop", "user"}]
      /\ cursor \in {NoName} \cup Names \X {"write", "fill", "clear", "make"} /\ todo \subseteq Names
      /\ WellFormed(Plan) /\ pos = Len(Plan)
      /\ Placed(Done, root, dirs) /\ Filled(Done, root) /\ Linked /\ Packed(Done, root)
      /\ Looking /\ Reusing
  BY <1>0, StepIs DEF StagedInv, TypeOK
<1>2. NoName[2] = "none"
  BY DEF NoName
\* One step of one name, which is looked for before it is shared and linked.
<1>3. ASSUME NEW n \in todo, NEW h, NEW r, NEW t, NEW c, Linking(h, r, t, c),
             c \in {<<n, "write">>, <<n, "clear">>, <<n, "make">>, NoName},
             c = NoName => t = todo \ {n}, c # NoName => t = todo,
             c = <<n, "write">> => h = home /\ r = root /\ ~AtLink(n),
             h \in [Names -> {"none", "default", "torn", "loop", "user"}],
             \A m \in Names : home[m] # "none" => h[m] # "none",
             r \in Trees, r.at = root.at, r.body = root.body, r.packs = root.packs,
             \A m \in Names \ {n} : r.local[m] = root.local[m] /\ ~AtLink(m),
             c # <<n, "write">> /\ n \in Dirs \cup root.packs => h[n] # "none",
             c = NoName => r.local[n] = "link"
      PROVE  StagedInv'
  <2>1. /\ home' = h /\ root' = r /\ todo' = t /\ cursor' = c
        /\ UNCHANGED <<provider, dirs, release, reused, mode, pos, crashes>>
    BY <1>3 DEF Linking
  <2>2. /\ c \in {NoName} \cup Names \X {"write", "fill", "clear", "make"}
        /\ n \in Names /\ t \subseteq todo
    BY <1>1, <1>3
  <2>3. /\ c # NoName => c[1] = n /\ c[2] # "fill"
        /\ \A m \in Names : AtLink(m)' <=> (c \in {<<n, "clear">>, <<n, "make">>} /\ m = n)
    BY <1>2, <1>3, <2>1 DEF AtLink
  <2>4. TypeOK'
    BY <1>0, <1>1, <1>3, <2>1, <2>2 DEF StagedInv, TypeOK
  <2>5. Done' = Done /\ Underway' /\ Step' = Step
    BY <1>0, <2>1 DEF Done, Plan, Underway, Step
  <2>6. Linked'
    <3>1. \A m \in Names : Needed(m)' <=> Needed(m)
      BY <1>3, <2>1 DEF Needed
    <3>2. \A m \in Names : m # n /\ m \notin t => m \notin todo
      BY <1>3
    <3>3. ASSUME NEW m \in Names PROVE AtLink(m)' => m \in t /\ Shared(m)'
      BY <1>2, <1>3, <2>1, <2>3, <3>1 DEF Shared, Needed
    <3>4. ASSUME NEW m \in Names, m \notin t PROVE r.local[m] = "link" /\ Shared(m)'
      <4>1. CASE m = n
        <5>1. c = NoName /\ c # <<n, "write">>
          BY <1>2, <1>3, <3>4, <4>1
        <5> QED BY <1>3, <2>1, <3>1, <4>1, <5>1 DEF Shared, Needed
      <4>2. CASE m # n
        BY <1>1, <1>3, <2>1, <3>1, <3>2, <3>4, <4>2 DEF Linked, Shared
      <4> QED BY <4>1, <4>2
    <3> QED BY <1>0, <2>1, <2>5, <3>3, <3>4 DEF Linked
  <2>7. Packed(Done, root)'
    <3> SUFFICES ASSUME "extract" \in Done, NEW m \in t \cap root.packs
                 PROVE  AtLink(m)' \/ r.local[m] # "none" \/ h[m] # "none"
      BY <1>3, <2>1, <2>5 DEF Packed
    <3>1. m \in todo /\ m \in Names
      BY <1>1, <2>2
    <3>2. CASE c = <<n, "write">>
      BY <1>1, <1>3, <3>1, <3>2 DEF Packed
    <3>3. CASE c # <<n, "write">> /\ m = n
      BY <1>3, <3>3
    <3>4. CASE m # n
      BY <1>1, <1>3, <3>1, <3>4 DEF Packed
    <3> QED BY <3>2, <3>3, <3>4
  <2>8. Placed(Done, root, dirs)' /\ Filled(Done, root)'
    BY <1>1, <1>3, <2>1, <2>5 DEF Placed, Filled, Full
  <2>9. Looking'
    BY <1>0, <1>3, <2>1, <2>3, <2>5 DEF Looking
  <2>10. Reusing'
    BY <1>1, <1>3, <2>1 DEF Reusing, Plan
  <2>11. provider \in {"java_installer", "quilt"} => r.packs = {}
    BY <1>3 DEF StagedInv
  <2>12. reused => pos # 1
    BY <1>0 DEF StagedInv
  <2> QED BY <1>0, <2>1, <2>4, <2>5, <2>6, <2>7, <2>8, <2>9, <2>10, <2>11, <2>12 DEF StagedInv
<1>4. ASSUME cursor = NoName, NEW n \in todo, LinkShare(n) PROVE StagedInv'
  <2>1. n \in Names /\ \A m \in Names : ~AtLink(m)
    BY <1>1, <1>4 DEF AtLink, NoName
  <2>2. <<n, "clear">> # NoName /\ <<n, "write">> # NoName /\ <<n, "clear">> # <<n, "write">>
    BY DEF NoName
  <2>3. CASE home[n] # "none"
    <3>1. Linking(home, root, todo, <<n, "clear">>)
      BY <1>4, <2>3 DEF LinkShare
    <3> QED BY <1>1, <1>3, <2>1, <2>2, <2>3, <3>1
  <2>4. CASE home[n] = "none"
    <3>1. Linking(home, root, todo, <<n, "write">>)
      BY <1>4, <2>4 DEF LinkShare
    <3> QED BY <1>1, <1>3, <2>1, <2>2, <3>1
  <2> QED BY <2>3, <2>4
<1>5. ASSUME cursor[2] = "write", LinkMove(cursor[1]) PROVE StagedInv'
  <2> DEFINE n == cursor[1]
  <2>1. n \in Names /\ n \in todo /\ cursor = <<n, "write">>
    BY <1>0, <1>1, <1>2, <1>5 DEF Looking
  <2>2. /\ \A m \in Names : ~AtLink(m)
        /\ <<n, "clear">> # NoName /\ <<n, "clear">> # <<n, "write">>
    BY <2>1 DEF AtLink, NoName
  <2>3. LinkMove(n)
    BY <1>5
  <2> HIDE DEF n
  <2>4. CASE root.local[n] = "none"
    <3> DEFINE h == IF n \in Dirs /\ home[n] = "none" THEN [home EXCEPT ![n] = "default"] ELSE home
    <3>1. Linking(h, root, todo, <<n, "clear">>)
      BY <2>3, <2>4 DEF LinkMove
    \* What the archive packed would be in the tree: the extraction is behind.
    <3>2. n \in root.packs => home[n] # "none"
      BY <1>0, <1>1, <2>1, <2>2, <2>4, StepIs DEF Packed
    <3>3. /\ h \in [Names -> {"none", "default", "torn", "loop", "user"}]
          /\ n \in Dirs \cup root.packs => h[n] # "none"
          /\ \A m \in Names : home[m] # "none" => h[m] # "none"
      BY <1>1, <2>1, <3>2
    <3> HIDE DEF h
    <3> QED BY <1>1, <1>3, <2>1, <2>2, <3>1, <3>3
  <2>5. CASE root.local[n] # "none"
    <3> DEFINE h == [home EXCEPT ![n] = IF root.local[n] = "packaged" THEN "default" ELSE "loop"]
               r == [root EXCEPT !.local[n] = "none"]
    <3>1. Linking(h, r, todo, <<n, "clear">>)
      BY <2>3, <2>5 DEF LinkMove
    <3>2. /\ h \in [Names -> {"none", "default", "torn", "loop", "user"}] /\ h[n] # "none"
          /\ \A m \in Names : home[m] # "none" => h[m] # "none"
      BY <1>1, <2>1
    <3>3. /\ r \in Trees /\ r.at = root.at /\ r.body = root.body /\ r.packs = root.packs
          /\ \A m \in Names \ {n} : r.local[m] = root.local[m]
      BY <1>1, <2>1 DEF Trees
    <3> HIDE DEF h, r
    <3> QED BY <1>3, <2>1, <2>2, <3>1, <3>2, <3>3
  <2> QED BY <2>4, <2>5
<1>6. ASSUME cursor[2] = "clear", LinkClear(cursor[1]) PROVE StagedInv'
  <2> DEFINE n == cursor[1]
             r == [root EXCEPT !.local[n] = "none"]
  <2>1. /\ n \in Names /\ AtLink(n) /\ n \in todo /\ Shared(n)
        /\ \A m \in Names \ {n} : ~AtLink(m)
    BY <1>1, <1>2, <1>6 DEF AtLink, Linked
  <2>2. /\ Linking(home, r, todo, <<n, "make">>)
        /\ <<n, "make">> # NoName /\ <<n, "make">> # <<n, "write">>
    BY <1>6 DEF LinkClear, NoName
  <2> HIDE DEF n
  <2>3. /\ r \in Trees /\ r.at = root.at /\ r.body = root.body /\ r.packs = root.packs
        /\ \A m \in Names \ {n} : r.local[m] = root.local[m]
    BY <1>1, <2>1 DEF Trees
  <2> HIDE DEF r
  <2> QED BY <1>1, <1>3, <2>1, <2>2, <2>3 DEF Shared, Needed
<1>7. ASSUME cursor[2] = "make", LinkMake(cursor[1]) PROVE StagedInv'
  <2> DEFINE n == cursor[1]
             r == [root EXCEPT !.local[n] = "link"]
  <2>1. /\ n \in Names /\ AtLink(n) /\ n \in todo /\ Shared(n)
        /\ \A m \in Names \ {n} : ~AtLink(m)
    BY <1>1, <1>2, <1>7 DEF AtLink, Linked
  <2>2. Linking(home, r, todo \ {n}, NoName) /\ <<n, "write">> # NoName
    BY <1>7 DEF LinkMake, NoName
  <2> HIDE DEF n
  <2>3. /\ r \in Trees /\ r.at = root.at /\ r.body = root.body /\ r.packs = root.packs
        /\ r.local[n] = "link" /\ \A m \in Names \ {n} : r.local[m] = root.local[m]
    BY <1>1, <2>1 DEF Trees
  <2> HIDE DEF r
  <2> QED BY <1>1, <1>3, <2>1, <2>2, <2>3 DEF Shared, Needed
<1>8. CASE cursor = NoName /\ todo = {} /\ Makes(dirs, root)
  <2>1. /\ Advance(dirs) /\ root' = root
        /\ UNCHANGED <<provider, home, release, reused, todo, cursor, crashes>>
    BY <1>8 DEF Makes
  <2>2. mode' = "made" /\ dirs' = dirs \ {"stage"} /\ pos' = pos
    BY <1>1, <2>1 DEF Advance, Plan
  <2>3. Done' \subseteq Done \cup {"link"}
    BY <1>0, <2>1, AdvanceIs
  <2>4. Placed(Done, root, dirs)' /\ Filled(Done, root)'
    BY <1>1, <2>1, <2>2, <2>3 DEF Placed, Filled, Full
  <2>5. Linked'
    BY <1>1, <1>8, <2>1, <2>2 DEF Linked, AtLink, Shared, Needed
  <2>6. TypeOK'
    BY <1>0, <2>1, <2>2 DEF StagedInv, TypeOK
  <2>7. Looking' /\ Reusing'
    BY <1>1, <1>8, <2>1 DEF Looking, Reusing, Plan
  <2> QED BY <2>1, <2>2, <2>4, <2>5, <2>6, <2>7 DEF StagedInv, Underway
<1>9. CASE Fail
  BY <1>0, <1>1, <1>9, FailureIs, StagedFailKeepsInv DEF Fail
<1> QED BY <1>4, <1>5, <1>6, <1>7, <1>8, <1>9 DEF LinkData

\* What is between two attempts, and the user.
LEMMA OthersKeepStagedInv ==
    ASSUME StagedInv, \/ BeginAgain \/ BeginAnother \/ Activate \/ Retry \/ Crash
                      \/ \E n \in Names : UserWrites(n) \/ UserRemoves(n)
    PROVE  StagedInv'
<1>1. /\ root \in Trees /\ home \in [Names -> {"none", "default", "torn", "loop", "user"}]
      /\ pos \in DOMAIN Recipe[provider]
  BY DEF StagedInv, TypeOK
<1>0. crashes \in 0 .. MaxCrashes /\ MaxCrashes \in Nat /\ release \in {"none", "whole", "changed"}
  BY CrashesAreCounted DEF StagedInv, TypeOK
<1>2. /\ Nothing \in Trees /\ Nothing.at = "none" /\ Nothing.packs = {}
      /\ 1 \in DOMAIN Recipe[provider]
  BY RecipesAreWellFormed DEF Nothing, Trees, StagedInv, TypeOK, WellFormed
<1>3. CASE BeginAgain \/ BeginAnother
  <2>1. /\ mode = "idle" /\ mode' = "work" /\ pos' = 1 /\ todo' = Names /\ cursor' = NoName
        /\ reused' = FALSE /\ root' \in {root, Nothing} /\ release' \in {release, "none"}
        /\ UNCHANGED <<provider, home, dirs, crashes>>
    BY <1>3 DEF BeginAgain, BeginAnother, Begin
  <2>2. root'.at \in {"none", "fixed"} /\ Done' = {}
    BY <1>2, <2>1 DEF StagedInv, Underway, Done
  <2>3. TypeOK'
    BY <1>0, <1>2, <2>1, <2>2 DEF StagedInv, TypeOK
  <2>4. Placed(Done, root, dirs)' /\ Filled(Done, root)' /\ Packed(Done, root)'
    BY <2>2 DEF Placed, Filled, Packed
  <2>5. \A n \in Names : ~AtLink(n)'
    BY <2>1 DEF AtLink, NoName
  <2>6. Linked' /\ Looking' /\ Reusing'
    BY <2>1, <2>2, <2>5 DEF Linked, Looking, Reusing
  <2> QED BY <1>2, <2>1, <2>2, <2>3, <2>4, <2>6 DEF StagedInv, Underway
<1>4. CASE Activate \/ Retry \/ Crash
  <2>1. /\ mode' \in {"idle", "failed"} /\ dirs' = {} /\ cursor' = NoName
        /\ release' \in {"none", "whole", "changed"} /\ crashes' \in 0 .. MaxCrashes
        /\ UNCHANGED <<provider, home, reused, pos, todo>>
    <3>1. CASE Activate \/ Retry
      <4>1. mode \in {"made", "failed"} /\ cursor = NoName
        BY <3>1 DEF Activate, Retry, StagedInv, Looking, Step
      <4> QED BY <1>0, <3>1, <4>1 DEF Activate, Retry
    <3>2. CASE Crash
      <4>1. /\ mode' = "idle" /\ dirs' = {} /\ crashes < MaxCrashes /\ crashes' = crashes + 1
            /\ cursor' = NoName /\ UNCHANGED <<provider, home, release, reused, pos, todo>>
        BY <3>2 DEF Crash
      <4> QED BY <1>0, <4>1
    <3> QED BY <1>4, <3>1, <3>2
  <2>2. root' \in Trees /\ root'.at \in {"none", "fixed"} /\ (root'.packs \in {root.packs, {}})
    <3>1. \A tree \in Cut : tree \in Trees /\ tree.at = root.at /\ tree.packs = root.packs
      BY <1>1 DEF Cut, Trees
    <3> QED BY <1>1, <1>2, <1>4, <3>1 DEF Activate, Retry, Crash, StagedInv, Underway
  <2>3. TypeOK'
    BY <1>1, <2>1, <2>2 DEF StagedInv, TypeOK
  <2>4. Looking'
    BY <2>1 DEF Looking
  <2> QED BY <2>1, <2>2, <2>3, <2>4 DEF StagedInv, Underway
<1>5. ASSUME NEW n \in Names, UserWrites(n) PROVE StagedInv'
  <2>1. HomeGrows
    BY <1>1, <1>5 DEF HomeGrows, UserWrites
  <2> QED BY <1>5, <2>1, HomeGrowsKeepsInv DEF UserWrites, progress
<1>6. ASSUME NEW n \in Names, UserRemoves(n) PROVE StagedInv'
  <2>1. /\ mode = "idle" /\ home' = [home EXCEPT ![n] = "none"]
        /\ UNCHANGED <<provider, root, dirs, release, reused, mode, pos, todo, cursor, crashes>>
    BY <1>6 DEF UserRemoves, progress
  <2>2. TypeOK'
    BY <1>1, <2>1 DEF StagedInv, TypeOK
  <2>3. Looking'
    BY <2>1 DEF StagedInv, Looking, Step
  <2> QED BY <2>1, <2>2, <2>3 DEF StagedInv, Underway
<1> QED BY <1>3, <1>4, <1>5, <1>6

LEMMA StagedStepKeepsInv == ASSUME StagedInv, [Next]_vars PROVE StagedInv'
<1>1. CASE UNCHANGED vars
  <2>1. HomeGrows
    BY <1>1 DEF HomeGrows, StagedInv, TypeOK, vars
  <2> QED BY <1>1, <2>1, HomeGrowsKeepsInv DEF vars
<1>2. CASE Next
  BY <1>2, MakeTreeKeepsInv, ExtractKeepsInv, ConfigureKeepsInv, LinkDataKeepsInv, OthersKeepStagedInv
     DEF Next, Installer
<1> QED BY <1>1, <1>2

\* Every prefix of a recipe keeps what it has done, for any names and crashes.
THEOREM StagedInvariance == Spec => []StagedInv
BY StagedInitEstablishesInv, StagedStepKeepsInv, PTL DEF Spec

\* The tree in preparation, the data and the links are of their types, and the
\* directory an attempt works in is there.
THEOREM StagedTypeCorrect == Spec => []TypeOK
BY StagedInvariance, PTL DEF StagedInv

\* What a staged installer hands to activateStagedRelease is complete, in a
\* place that stays, and linked to all the data it needs; a release that it
\* reuses is as it was.
THEOREM MadeIsAlwaysComplete == Spec => []MadeIsComplete
<1>1. StagedInv => MadeIsComplete
  <2> SUFFICES ASSUME StagedInv, mode = "made"
               PROVE  /\ root.at = "fixed" \/ root.at \in dirs \/ (reused /\ root.at = "release")
                      /\ reused => release = "whole"
                      /\ root.body = "whole" \/ (provider = "quilt" /\ root.body = "launcher")
                      /\ Uses("link") =>
                             \A n \in Names : /\ root.local[n] = "link"
                                              /\ n \in Dirs \cup root.packs => home[n] # "none"
    BY DEF MadeIsComplete
  <2>1. Linked /\ Reusing /\ Placed(Done, root, dirs) /\ Filled(Done, root)
    BY DEF StagedInv, Underway
  <2>2. Uses("link") => \A n \in Names : /\ root.local[n] = "link"
                                         /\ n \in Dirs \cup root.packs => home[n] # "none"
    BY <2>1 DEF Linked, Shared, Needed
  <2>3. CASE reused
    BY <2>1, <2>2, <2>3 DEF Reusing
  <2>4. CASE ~reused
    <3>1. WellFormed(Plan) /\ Done = {Plan[i] : i \in DOMAIN Plan}
      BY <2>4, RecipesAreWellFormed DEF StagedInv, TypeOK, Plan, Done
    <3>2. /\ Done \cap {"candidate", "move", "clone", "fixed", "copy"} # {}
          /\ Done \cap {"extract", "clone", "copy"} # {}
      BY <3>1 DEF WellFormed
    <3> QED BY <2>1, <2>2, <2>4, <3>2 DEF Placed, Filled, Full
  <2> QED BY <2>3, <2>4
<1> QED BY <1>1, StagedInvariance, PTL

\* What the user has in the home directory is written to only after it was
\* looked for and not found: linkMutableData, copyTreeMissing and the generated
\* configurations replace a file only if it was saved since, and no directory.
THEOREM UserDataAlwaysSurvives == Spec => UserDataSurvives
<1> DEFINE Kept(n) == /\ home[n] = "user" /\ mode # "idle" /\ ~Unseen(n) => home'[n] = "user"
                      /\ Unseen(n)' /\ ~Unseen(n) => home[n] = "none"
           AllKept == \A n \in Names : Kept(n)
<1>1. ASSUME StagedInv, [Next]_vars PROVE AllKept
  <2> SUFFICES ASSUME NEW n \in Names PROVE Kept(n)
    OBVIOUS
  <2>1. /\ home \in [Names -> {"none", "default", "torn", "loop", "user"}] /\ Looking
        /\ mode = "idle" => cursor = NoName
    BY <1>1 DEF StagedInv, TypeOK, Looking, Step
  <2>2. NoName[1] = "none" /\ NoName[2] = "none"
    BY DEF NoName
  <2>3. ASSUME cursor' = NoName \/ cursor'[2] \in {"clear", "make"} PROVE ~Unseen(n)'
    BY <2>2, <2>3 DEF Unseen
  <2>4. CASE home' = home /\ cursor' = NoName
    BY <2>3, <2>4
  <2>5. CASE home' = home /\ cursor' = cursor /\ Step' = Step
    BY <2>5 DEF Unseen
  \* The name is found to be free, or written to.
  <2>6. ASSUME NEW m \in Names, Looks(m) PROVE Kept(n)
    BY <2>6 DEF Looks, Unseen
  <2>7. ASSUME NEW m \in Names, NEW content, Writes(m, content), m \notin Dirs \/ Step = "seed"
        PROVE  home[n] = "user" /\ ~Unseen(n) => home'[n] = "user"
    BY <2>1, <2>7 DEF Writes, Unseen
  <2>8. CASE Fail
    <3>1. home' = home /\ cursor' = NoName
      BY <2>8 DEF Fail, FailWith, Failed
    <3> QED BY <2>4, <3>1
  <2>9. CASE \E m \in Names : UserWrites(m) \/ UserRemoves(m)
    <3>1. cursor' = cursor /\ Step' = Step
      BY <2>9 DEF UserWrites, UserRemoves, progress, Step
    <3>2. CASE \E m \in Names : UserWrites(m)
      BY <2>1, <3>1, <3>2 DEF UserWrites, Unseen
    <3>3. CASE \E m \in Names : UserRemoves(m)
      BY <2>1, <2>3, <3>1, <3>3 DEF UserRemoves
    <3> QED BY <2>9, <3>2, <3>3
  <2>10. CASE \/ MakeDirectory \/ OpenFixed \/ Clone \/ Extract \/ RunInstaller \/ Check
              \/ Build \/ Move \/ CopyFile
    <3>1. Step \notin {"seed", "properties", "create", "fill", "link"}
      <4>1. CASE MakeDirectory \/ OpenFixed \/ Clone \/ Check \/ Build \/ Move \/ CopyFile
        BY <4>1 DEF MakeDirectory, OpenFixed, Clone, Check, Build, Move, CopyFile
      <4>2. CASE Extract \/ RunInstaller
        BY <4>2 DEF Extract, RunInstaller
      <4> QED BY <2>10, <4>1, <4>2
    <3>2. cursor = NoName
      BY <2>1, <3>1 DEF Looking
    <3>3. home' = home /\ cursor' \in {cursor, NoName}
      <4>1. CASE MakeDirectory \/ OpenFixed \/ Check \/ Move \/ CopyFile
        BY <4>1 DEF MakeDirectory, OpenFixed, Check, Move, CopyFile, Makes, Fail, FailWith, Failed
      <4>2. CASE Clone \/ Build
        BY <4>2 DEF Clone, Build, Makes, Fail, FailWith, Failed
      <4>3. CASE Extract
        BY <4>3 DEF Extract, Makes, FailWith, Failed
      <4>4. CASE RunInstaller
        BY <4>4 DEF RunInstaller, Makes, FailWith, Failed
      <4> QED BY <2>10, <4>1, <4>2, <4>3, <4>4
    <3> QED BY <2>4, <3>2, <3>3
  <2>11. CASE BeginAgain \/ BeginAnother \/ Activate \/ Retry \/ Crash
    <3>1. home' = home /\ cursor' \in {cursor, NoName}
      BY <2>11 DEF BeginAgain, BeginAnother, Begin, Activate, Retry, Crash
    <3>2. cursor = NoName \/ cursor' = NoName
      BY <2>1, <2>11 DEF BeginAgain, BeginAnother, Begin, Activate, Retry, Crash, Looking, Step
    <3> QED BY <2>4, <3>1, <3>2
  <2>12. CASE Seed
    <3>1. Step = "seed"
      BY <2>12 DEF Seed
    <3>2. CASE cursor = NoName /\ Makes(dirs, root)
      BY <2>4, <3>2 DEF Makes
    <3>3. CASE (\E m \in Names : Writes(m, "default")) /\ cursor' = NoName
      BY <2>3, <2>7, <3>1, <3>3
    <3> QED BY <2>6, <2>8, <2>12, <3>2, <3>3 DEF Seed
  <2>13. CASE Properties
    <3>1. CASE cursor = NoName /\ Makes(dirs, root)
      BY <2>4, <3>1 DEF Makes
    <3>2. CASE \E m \in Names \ Dirs : Writes(m, "default") /\ cursor' = NoName
      BY <2>3, <2>7, <3>2
    <3> QED BY <2>6, <2>8, <2>13, <3>1, <3>2 DEF Properties
  <2>14. CASE CreateConfig
    <3>1. CASE cursor = NoName /\ UNCHANGED <<home, cursor>>
      BY <2>4, <3>1
    <3>2. ASSUME NEW m \in Names \ Dirs, Writes(m, "torn"), cursor' = <<m, "fill">> PROVE Kept(n)
      <4>1. Unseen(m)
        BY <3>2 DEF Writes, Unseen
      <4>2. Unseen(n)' => m = n
        BY <3>2 DEF Unseen
      <4> QED BY <2>7, <3>2, <4>1, <4>2
    <3> QED BY <2>6, <2>8, <2>14, <3>1, <3>2 DEF CreateConfig
  <2>15. CASE FillConfig
    <3>1. ASSUME NEW m \in Names, cursor = <<m, "fill">>, cursor' = NoName,
                 home' = [home EXCEPT ![m] = "default"] \/ home' = home
          PROVE  Kept(n)
      <4>1. Unseen(m)
        <5>1. m \notin Dirs
          BY <2>1, <2>2, <3>1 DEF Looking
        <5> QED BY <3>1, <5>1 DEF Unseen
      <4> QED BY <2>1, <2>3, <3>1, <4>1
    <3> QED BY <2>8, <2>15, <3>1 DEF FillConfig
  <2>16. CASE LinkData
    <3>0. Step = "link"
      BY <2>16 DEF LinkData
    <3>1. ASSUME NEW m \in todo, LinkShare(m) PROVE Kept(n)
      <4>1. home' = home /\ cursor' = <<m, IF home[m] = "none" THEN "write" ELSE "clear">>
        BY <3>1 DEF LinkShare, Linking
      <4> QED BY <4>1 DEF Unseen
    <3>2. ASSUME cursor[2] = "write", LinkMove(cursor[1]) PROVE Kept(n)
      <4> DEFINE m == cursor[1]
      <4>1. m \in Names /\ cursor = <<m, "write">>
        BY <1>1, <2>2, <3>2 DEF StagedInv, TypeOK
      <4>2. LinkMove(m)
        BY <3>2
      <4> HIDE DEF m
      <4>3. cursor' = <<m, "clear">>
        BY <4>2 DEF LinkMove, Linking
      <4>4. m \in Dirs => home'[m] = home[m] \/ home[m] = "none"
        BY <2>1, <4>1, <4>2 DEF LinkMove, Linking
      <4>5. m \notin Dirs => Unseen(m)
        BY <4>1 DEF Unseen
      <4>6. m # n => home'[n] = home[n]
        BY <2>1, <4>1, <4>2 DEF LinkMove, Linking
      <4> QED BY <2>3, <4>3, <4>4, <4>5, <4>6
    <3>3. CASE LinkClear(cursor[1]) \/ LinkMake(cursor[1])
      <4>1. home' = home /\ (cursor' = NoName \/ cursor'[2] = "make")
        BY <3>3 DEF LinkClear, LinkMake, Linking
      <4> QED BY <2>3, <4>1
    <3>4. CASE cursor = NoName /\ Makes(dirs, root)
      BY <2>4, <3>4 DEF Makes
    <3> QED BY <2>8, <2>16, <3>1, <3>2, <3>3, <3>4 DEF LinkData
  <2>17. CASE UNCHANGED vars
    BY <2>5, <2>17 DEF vars, Step
  <2> QED BY <1>1, <2>9, <2>10, <2>11, <2>12, <2>13, <2>14, <2>15, <2>16, <2>17 DEF Next, Installer
<1>2. UserDataSurvives <=> [][AllKept]_vars
  BY PTL DEF UserDataSurvives
<1> HIDE DEF AllKept
<1> QED BY <1>1, <1>2, StagedInvariance, PTL DEF Spec

\* materializeGenericSource, cleanupFailedGenericRelease and activateStagedRelease:
\* a release is reused, repeated and failed beside without being built in or
\* removed, unless a .NET entry is changed from a .dll to a .csproj.
THEOREM ReleaseAlwaysSurvives == ~EntryChanges /\ Spec => ReleaseSurvives
<1> DEFINE Stays == release = "whole" => release' = "whole" \/ BeginAnother
<1>1. ASSUME ~EntryChanges, StagedInv, [Next]_vars PROVE Stays
  <2> SUFFICES ASSUME release = "whole" PROVE release' = "whole" \/ BeginAnother
    OBVIOUS
  \* What an attempt removes or builds in is not the release, unless it reuses it.
  <2>1. ASSUME mode = "work", RemoveTree \/ ChangeTree, ~reused PROVE release' = "whole"
    BY <1>1, <2>1, StepIs DEF RemoveTree, ChangeTree, Reusing
  <2>2. ASSUME NEW tree, mode = "work", FailWith(tree) PROVE release' = "whole"
    BY <2>1, <2>2 DEF FailWith
  <2>3. Step # "none" => mode = "work"
    BY DEF Step
  <2>4. CASE \E m \in Names : UserWrites(m) \/ UserRemoves(m)
    BY <2>4 DEF UserWrites, UserRemoves
  <2>5. CASE MakeDirectory \/ OpenFixed \/ Clone \/ Check \/ Move \/ CopyFile
    BY <2>2, <2>3, <2>5 DEF MakeDirectory, OpenFixed, Clone, Check, Move, CopyFile, Makes, Fail
  <2>6. CASE Extract
    BY <2>2, <2>3, <2>6 DEF Extract, Makes
  <2>7. CASE RunInstaller
    BY <2>2, <2>3, <2>7 DEF RunInstaller, Makes
  <2>8. CASE Build
    BY <1>1, <2>1, <2>2, <2>3, <2>8 DEF Build, Fail
  <2>9. CASE Seed \/ Properties \/ CreateConfig \/ FillConfig
    BY <2>2, <2>3, <2>9 DEF Seed, Properties, CreateConfig, FillConfig, Looks, Writes, Makes, Fail
  <2>10. CASE LinkData
    BY <2>2, <2>3, <2>10
       DEF LinkData, LinkShare, LinkMove, LinkClear, LinkMake, Linking, Makes, Fail
  <2>11. CASE Activate \/ Retry \/ Crash
    BY <2>11 DEF Activate, Retry, Crash
  <2>12. CASE BeginAgain
    BY <2>12 DEF BeginAgain
  <2>13. CASE UNCHANGED vars
    BY <2>13 DEF vars
  <2> QED BY <1>1, <2>4, <2>5, <2>6, <2>7, <2>8, <2>9, <2>10, <2>11, <2>12, <2>13
          DEF Next, Installer
<1>2. ReleaseSurvives <=> [][Stays]_vars
  BY PTL DEF ReleaseSurvives
<1> HIDE DEF Stays
<1>3. ASSUME ~EntryChanges PROVE Spec => ReleaseSurvives
  <2>1. StagedInv /\ [Next]_vars => Stays
    BY <1>1, <1>3
  <2> QED BY <1>2, <2>1, StagedInvariance, PTL DEF Spec
<1> QED BY <1>3

(***************************************************************************)
(* LiveInstall: the inductive invariant.                                   *)
(***************************************************************************)

\* Where a .NET publish is at each step: a torn remainder of the previous one
\* is only ever beside a whole one.
PublishIsSafe ==
    /\ published => publish # "none" \/ previous = "old"
    /\ previous = "torn" => publish # "none"
    /\ publish = "new" => mode # "work" \/ Step = "discard"
    /\ Step \in {"candidate", "preserve"} => previous = "none"
    /\ Step = "swap" => publish = "none" /\ previous # "torn"
    /\ Step = "discard" => publish = "new"

\* What the steps of a game have restored or extracted.
GameIsSound ==
    /\ Step \in {"buildid", "download"} => game["replaced"] = "game"
    /\ Step \in {"extract", "marker"} => game["replaced"] \in {"game", "overlay"}
    /\ Step = "marker" => \A x \in pack : game[x] = "overlay"

\* An entry file of this attempt is no file of the user.
EntryIsOurs == mode = "work" /\ made => entry["main"] # "user"

LiveInv == LiveTypeOK /\ PublishIsSafe /\ GameIsSound /\ EntryIsOurs /\ GameIsWhole

------------------------------------------------------------------------------

\* The steps t that follow a step s of a recipe.
Follows(s, t) ==
    \/ s = "create" /\ t = "fill"
    \/ s = "fill" /\ t \in {"modules", "venv", "compile", "second"}
    \/ s = "venv" /\ t = "pip"
    \/ s = "second" /\ t = "recover"
    \/ s = "recover" /\ t \in {"candidate", "preserve"}
    \/ s = "candidate" /\ t = "recover"
    \/ s = "preserve" /\ t = "swap"
    \/ s = "swap" /\ t = "discard"
    \/ s = "deactivate" /\ t = "validate"
    \/ s = "validate" /\ t = "buildid"
    \/ s = "buildid" /\ t = "download"
    \/ s = "download" /\ t = "extract"
    \/ s = "extract" /\ t = "marker"

\* The last step of the recipe of a provider.
Ends(p) == IF p = "steam" THEN {"buildid"} ELSE IF p = "overlay" THEN {"marker"}
           ELSE {"fill", "modules", "pip", "compile", "discard"}

\* The recipe r of the provider p as its steps follow one another.
LiveFormed(p, r) ==
    /\ Len(r) \in Nat /\ Len(r) >= 1 /\ DOMAIN r = 1 .. Len(r)
    /\ \A i \in 1 .. Len(r) : i < Len(r) => Follows(r[i], r[i + 1])
    /\ r[Len(r)] \in Ends(p)
    /\ r[1] \in {"create", "deactivate", "validate"}
    /\ p # "overlay" => \A i \in 1 .. Len(r) : r[i] \notin {"download", "extract", "marker"}

LEMMA LiveRecipesAreFormed == \A p \in LiveProviders : LiveFormed(p, Recipe[p])
<1>1. LiveFormed("node", Node) /\ LiveFormed("bun", Bun) /\ LiveFormed("go", Go)
  BY DEF LiveFormed, Follows, Ends, Node, Bun, Go
<1>2. LiveFormed("deno", Deno) /\ LiveFormed("web", Web)
  BY DEF LiveFormed, Follows, Ends, Deno, Web
<1>3. LiveFormed("python", Python)
  BY DEF LiveFormed, Follows, Ends, Python
<1>4. LiveFormed("dotnet", Dotnet)
  BY DEF LiveFormed, Follows, Ends, Dotnet
<1>5. LiveFormed("steam", Steam) /\ LiveFormed("overlay", SteamOverlay)
  BY DEF LiveFormed, Follows, Ends, Steam, SteamOverlay
<1> QED BY <1>1, <1>2, <1>3, <1>4, <1>5 DEF LiveProviders, Recipe

\* An attempt goes from step to step of its recipe, or fails.
Moved ==
    \/ mode' = "work" /\ Follows(Step, Step')
    \/ mode' = "done" /\ Step' = "none" /\ Step \in Ends(provider)
    \/ mode' = "failed" /\ Step' = "none"

LEMMA LiveStepIs ==
    ASSUME LiveTypeOK, mode = "work", Proceed \/ GiveUp, UNCHANGED provider
    PROVE  pos' \in DOMAIN Recipe[provider'] /\ Moved
<1>1. PICK r : r = Recipe[provider]
  OBVIOUS
<1>2. LiveFormed(provider, r) /\ pos \in DOMAIN r
  BY <1>1, LiveRecipesAreFormed DEF LiveTypeOK
<1>3. PICK n \in Nat : n = Len(r) /\ n >= 1 /\ DOMAIN r = 1 .. n
  BY <1>2 DEF LiveFormed
<1>4. /\ Step = r[pos]
      /\ Step' = IF mode' = "work" THEN r[pos'] ELSE "none"
      /\ DOMAIN Recipe[provider'] = 1 .. n
  BY <1>1, <1>3 DEF Step
<1>5. CASE GiveUp
  BY <1>2, <1>3, <1>4, <1>5 DEF GiveUp, Moved
<1>6. CASE Proceed /\ pos = n
  <2>1. mode' = "done" /\ pos' = pos
    BY <1>1, <1>3, <1>6 DEF Proceed
  <2>2. r[n] \in Ends(provider)
    BY <1>2, <1>3 DEF LiveFormed
  <2> QED BY <1>2, <1>3, <1>4, <1>6, <2>1, <2>2 DEF Moved
<1>7. CASE Proceed /\ pos # n
  <2>1. mode' = "work" /\ pos' = pos + 1
    BY <1>1, <1>3, <1>7 DEF Proceed
  <2>2. pos \in 1 .. n /\ pos < n /\ pos + 1 \in 1 .. n
    BY <1>2, <1>3, <1>7
  <2>3. Follows(r[pos], r[pos + 1])
    BY <1>2, <1>3, <2>2 DEF LiveFormed
  <2> QED BY <1>4, <2>1, <2>2, <2>3 DEF Moved
<1> QED BY <1>5, <1>6, <1>7

\* Only the provider with an overlay extracts one.
LEMMA OverlayStep ==
    ASSUME LiveTypeOK, Step \in {"download", "extract", "marker"} PROVE provider = "overlay"
<1>1. PICK r : r = Recipe[provider]
  OBVIOUS
<1>2. LiveFormed(provider, r) /\ pos \in DOMAIN r /\ Step = r[pos]
  BY <1>1, LiveRecipesAreFormed DEF LiveTypeOK, Step
<1> QED BY <1>2 DEF LiveFormed

LEMMA LiveInitEstablishesInv == LiveInit => LiveInv
<1> SUFFICES ASSUME LiveInit PROVE LiveInv
  OBVIOUS
<1>1. provider \in LiveProviders /\ pos \in DOMAIN Recipe[provider]
  <2>1. LiveFormed(provider, Recipe[provider]) /\ pos = 1
    BY LiveRecipesAreFormed DEF LiveInit
  <2> QED BY <2>1 DEF LiveInit, LiveFormed
<1>2. crashes \in 0 .. MaxCrashes
  BY CrashesAreCounted DEF LiveInit
<1>3. entry \in [{"main", "second"} -> {"none", "torn", "starter", "user"}]
  BY DEF LiveInit
<1>4. /\ game \in [GameFiles -> {"none", "game", "overlay", "user"}]
      /\ game["replaced"] = "none" /\ game["added"] = "none" /\ game["plugin"] = "none"
  BY DEF LiveInit, GameFiles
<1>5. LiveTypeOK
  BY <1>1, <1>2, <1>3, <1>4 DEF LiveInit, LiveTypeOK
<1>6. PublishIsSafe /\ GameIsSound /\ EntryIsOurs /\ GameIsWhole
  BY DEF LiveInit, PublishIsSafe, GameIsSound, EntryIsOurs, GameIsWhole, Step
<1> QED BY <1>5, <1>6 DEF LiveInv

------------------------------------------------------------------------------

\* A step that is none of a .NET publish leaves what was published.
LEMMA PublishStays ==
    ASSUME PublishIsSafe, Moved, UNCHANGED dotnet, mode = "work",
           Step \notin {"recover", "candidate", "preserve", "swap", "discard"}
    PROVE  PublishIsSafe'
BY DEF PublishIsSafe, Moved, Follows, dotnet

\* A step that is none of a game's leaves the game.
LEMMA GameStays ==
    ASSUME GameIsSound, Moved, mode = "work", UNCHANGED provider,
           Step \notin {"deactivate", "validate", "buildid", "download", "extract", "marker"}
    PROVE  GameIsSound' /\ GameIsWhole'
BY DEF GameIsSound, GameIsWhole, Moved, Follows, Ends

LEMMA StarterKeepsLiveInv ==
    ASSUME LiveInv, Create \/ Fill \/ Second PROVE LiveInv'
<1>1. /\ mode = "work" /\ UNCHANGED <<provider, dotnet, built, steam, crashes>>
      /\ Proceed \/ GiveUp
      /\ Step \in {"create", "fill", "second"}
  BY DEF Create, Fill, Second, Step
<1>2. pos' \in DOMAIN Recipe[provider'] /\ Moved
  BY <1>1, LiveStepIs DEF LiveInv
<1>3. PublishIsSafe'
  BY <1>1, <1>2, PublishStays DEF LiveInv
<1>4. GameIsSound' /\ GameIsWhole'
  BY <1>1, <1>2, GameStays DEF LiveInv
<1>5. /\ entry' \in [{"main", "second"} -> {"none", "torn", "starter", "user"}] /\ made' \in BOOLEAN
      /\ EntryIsOurs'
  <2>1. /\ entry \in [{"main", "second"} -> {"none", "torn", "starter", "user"}] /\ made \in BOOLEAN
        /\ made => entry["main"] # "user"
    BY <1>1 DEF LiveInv, LiveTypeOK, EntryIsOurs
  <2>2. CASE Create
    <3>1. \/ made' = TRUE /\ entry' = [entry EXCEPT !["main"] = "torn"]
          \/ UNCHANGED <<entry, made>>
      BY <2>2 DEF Create, app
    <3>2. CASE made' = TRUE /\ entry' = [entry EXCEPT !["main"] = "torn"]
      <4>1. made' \in BOOLEAN
        BY <3>2
      <4>2. /\ entry' \in [{"main", "second"} -> {"none", "torn", "starter", "user"}]
            /\ entry'["main"] = "torn"
        BY <2>1, <3>2
      <4> QED BY <4>1, <4>2 DEF EntryIsOurs
    <3>3. CASE UNCHANGED <<entry, made>>
      BY <2>1, <3>3 DEF EntryIsOurs
    <3> QED BY <3>1, <3>2, <3>3
  <2>3. CASE Fill \/ Second
    <3>1. /\ UNCHANGED made
          /\ \/ UNCHANGED entry
             \/ \E v \in {"starter", "none"} : entry' = [entry EXCEPT !["main"] = v]
             \/ entry' = [entry EXCEPT !["second"] = "starter"]
      <4>1. CASE Fill
        <5>1. entry["main"] = entry["main"] /\ entry = [entry EXCEPT !["main"] = entry["main"]]
          BY <2>1
        <5> QED BY <4>1, <5>1 DEF Fill
      <4> QED BY <2>3, <4>1 DEF Second
    <3> QED BY <2>1, <3>1 DEF EntryIsOurs
  <2> QED BY <2>2, <2>3
<1>6. LiveTypeOK'
  BY <1>1, <1>2, <1>5 DEF LiveInv, LiveTypeOK, dotnet, built, steam, Moved
<1> QED BY <1>3, <1>4, <1>5, <1>6 DEF LiveInv

LEMMA BuildKeepsLiveInv ==
    ASSUME LiveInv, Modules \/ Venv \/ Pip \/ Compile PROVE LiveInv'
<1>1. /\ mode = "work" /\ UNCHANGED <<provider, app, dotnet, steam, crashes>>
      /\ Proceed \/ GiveUp
      /\ Step \in {"modules", "venv", "pip", "compile"}
  BY DEF Modules, Venv, Pip, Compile, Step, built
<1>2. pos' \in DOMAIN Recipe[provider'] /\ Moved
  BY <1>1, LiveStepIs DEF LiveInv
<1>3. PublishIsSafe'
  BY <1>1, <1>2, PublishStays DEF LiveInv
<1>4. GameIsSound' /\ GameIsWhole'
  BY <1>1, <1>2, GameStays DEF LiveInv
<1>5. /\ venv' \in {"none", "partial", "whole"} /\ modules' \in {"none", "partial", "whole"}
      /\ binary' \in {"none", "old", "new"}
  BY DEF LiveInv, LiveTypeOK, Modules, Venv, Pip, Compile, built
<1>6. LiveTypeOK' /\ EntryIsOurs'
  BY <1>1, <1>2, <1>5 DEF LiveInv, LiveTypeOK, EntryIsOurs, app, dotnet, steam, Moved
<1> QED BY <1>3, <1>4, <1>6 DEF LiveInv

LEMMA PublishKeepsLiveInv ==
    ASSUME LiveInv,
           Recover \/ Candidate \/ Preserve \/ Swap \/ Discard
    PROVE  LiveInv'
<1>1. /\ mode = "work" /\ UNCHANGED <<provider, app, built, steam, crashes>>
      /\ Proceed \/ GiveUp
      /\ Step \in {"recover", "candidate", "preserve", "swap", "discard"}
  BY DEF Recover, Candidate, Preserve, Swap, Discard, Publishes, Step
<1>2. pos' \in DOMAIN Recipe[provider'] /\ Moved
  BY <1>1, LiveStepIs DEF LiveInv
<1>3. GameIsSound' /\ GameIsWhole'
  BY <1>1, <1>2, GameStays DEF LiveInv
<1>4. /\ publish \in {"none", "old", "new"} /\ previous \in {"none", "torn", "old"} /\ published \in BOOLEAN
      /\ PublishIsSafe
  BY DEF LiveInv, LiveTypeOK
<1>5. Proceed => mode' # "failed"
  BY <1>1 DEF Proceed
<1>6. GiveUp => mode' = "failed" /\ Step' = "none"
  BY DEF GiveUp, Step
<1>7. /\ publish' \in {"none", "old", "new"} /\ previous' \in {"none", "torn", "old"}
      /\ published' \in BOOLEAN /\ PublishIsSafe'
  <2>1. CASE Recover
    BY <1>1, <1>2, <1>4, <1>5, <1>6, <2>1 DEF PublishIsSafe, Moved, Follows, Recover, Publishes
  <2>2. CASE Candidate
    BY <1>1, <1>2, <1>4, <1>5, <1>6, <2>2 DEF PublishIsSafe, Moved, Follows, Candidate, Publishes
  <2>3. CASE Preserve
    BY <1>1, <1>2, <1>4, <1>5, <1>6, <2>3 DEF PublishIsSafe, Moved, Follows, Preserve, Publishes
  <2>4. CASE Swap
    BY <1>1, <1>2, <1>4, <1>5, <1>6, <2>4 DEF PublishIsSafe, Moved, Follows, Swap, Publishes
  <2>5. CASE Discard
    BY <1>1, <1>2, <1>4, <1>5, <1>6, <2>5 DEF PublishIsSafe, Moved, Follows, Discard, Publishes
  <2> QED BY <2>1, <2>2, <2>3, <2>4, <2>5
<1>8. LiveTypeOK' /\ EntryIsOurs'
  BY <1>1, <1>2, <1>7 DEF LiveInv, LiveTypeOK, EntryIsOurs, app, built, steam, Moved
<1> QED BY <1>3, <1>7, <1>8 DEF LiveInv


\* What TypeOK says of a game's files.
GameTypeOK(g) ==
    /\ g \in [GameFiles -> {"none", "game", "overlay", "user"}]
    /\ g["replaced"] \in {"none", "game", "overlay"} /\ g["added"] \in {"none", "overlay"}
    /\ g["plugin"] \in {"none", "overlay", "user"}

\* What an action that writes one file of a game makes of it.
LEMMA GameFileWritten ==
    ASSUME NEW g, GameTypeOK(g), NEW x \in GameFiles, NEW v,
           v \in {"none", "overlay"} \/ (x = "replaced" /\ v = "game") \/ (x = "plugin" /\ v = "user")
    PROVE  GameTypeOK([g EXCEPT ![x] = v])
BY DEF GameTypeOK, GameFiles

LEMMA GameKeepsLiveInv ==
    ASSUME LiveInv,
           \/ Deactivate \/ Validate \/ BuildID
           \/ Download \/ ExtractOverlay \/ Marker
    PROVE  LiveInv'
<1>1. /\ mode = "work" /\ UNCHANGED <<provider, app, dotnet, built, crashes>>
      /\ Step \in {"deactivate", "validate", "buildid", "download", "extract", "marker"}
  BY DEF Deactivate, Validate, BuildID, Download, ExtractOverlay, Marker, Step
<1>2. /\ LiveTypeOK /\ GameIsSound /\ PublishIsSafe /\ EntryIsOurs
      /\ GameTypeOK(game) /\ pack \subseteq GameFiles /\ marker \subseteq GameFiles
  BY DEF LiveInv, LiveTypeOK, GameTypeOK
<1>3. ASSUME GameTypeOK(game'), pack' \subseteq GameFiles, marker' \subseteq GameFiles,
             mode' \in {"work", "done", "failed"}, pos' \in DOMAIN Recipe[provider']
      PROVE  LiveTypeOK' /\ EntryIsOurs'
  BY <1>1, <1>2, <1>3 DEF GameTypeOK, LiveTypeOK, EntryIsOurs, app, dotnet, built
\* A step that goes on or fails.
<1>4. ASSUME Proceed \/ GiveUp
      PROVE  /\ pos' \in DOMAIN Recipe[provider'] /\ Moved /\ PublishIsSafe'
             /\ mode' \in {"work", "done", "failed"}
             /\ Proceed => mode' # "failed"
             /\ GiveUp => mode' = "failed"
  <2>1. pos' \in DOMAIN Recipe[provider'] /\ Moved
    BY <1>1, <1>2, <1>4, LiveStepIs
  <2>2. PublishIsSafe'
    BY <1>1, <1>2, <2>1, PublishStays
  <2> QED BY <1>1, <2>1, <2>2 DEF Moved, Proceed, GiveUp
<1>5. SUFFICES /\ PublishIsSafe' /\ GameIsSound' /\ GameIsWhole'
               /\ GameTypeOK(game') /\ pack' \subseteq GameFiles /\ marker' \subseteq GameFiles
               /\ mode' \in {"work", "done", "failed"} /\ pos' \in DOMAIN Recipe[provider']
  BY <1>3 DEF LiveInv
\* A removal or an extraction of one file.
<1>6. CASE /\ UNCHANGED <<mode, pos, pack, marker>>
           /\ \/ /\ Step = "deactivate"
                 /\ \E x \in marker : game' = [game EXCEPT ![x] = "none"]
              \/ /\ Step = "extract"
                 /\ \E x \in pack : game' = [game EXCEPT ![x] = "overlay"]
  <2>1. /\ Step' = Step /\ mode' = "work" /\ pos' \in DOMAIN Recipe[provider']
        /\ Step \in {"deactivate", "extract"}
    BY <1>1, <1>2, <1>6 DEF Step, LiveTypeOK
  <2>2. GameTypeOK(game')
    BY <1>2, <1>6, GameFileWritten
  <2>3. PublishIsSafe'
    BY <1>1, <1>2, <2>1 DEF PublishIsSafe, dotnet
  <2>4. Step = "extract" => game'["replaced"] \in {"game", "overlay"}
    BY <1>2, <1>6 DEF GameIsSound, GameTypeOK, GameFiles
  <2>5. GameIsSound' /\ GameIsWhole'
    BY <2>1, <2>4 DEF GameIsSound, GameIsWhole
  <2> QED BY <1>2, <1>6, <2>1, <2>2, <2>3, <2>5
<1>7. CASE /\ Step = "deactivate" /\ (Proceed \/ GiveUp)
           /\ UNCHANGED <<game, pack>> /\ marker' \in {marker, {}}
  <2>1. GameTypeOK(game') /\ pack' \subseteq GameFiles /\ marker' \subseteq GameFiles
    BY <1>2, <1>7
  <2>2. GameIsSound' /\ GameIsWhole'
    BY <1>1, <1>4, <1>7 DEF GameIsSound, GameIsWhole, Moved, Follows, Ends
  <2> QED BY <1>4, <1>7, <2>1, <2>2
<1>8. CASE Validate
  <2>1. Step = "validate" /\ UNCHANGED <<pack, marker>>
    BY <1>8 DEF Validate
  <2>2. \/ Proceed /\ game' = [game EXCEPT !["replaced"] = "game"]
        \/ GiveUp /\ (game' = game \/ game' = [game EXCEPT !["replaced"] = "none"])
    BY <1>8 DEF Validate
  <2>3. "replaced" \in GameFiles
    BY DEF GameFiles
  <2>4. GameTypeOK(game')
    BY <1>2, <2>2, <2>3, GameFileWritten
  <2>5. mode' # "failed" => game'["replaced"] = "game"
    BY <1>2, <1>4, <2>2, <2>3 DEF GameTypeOK
  <2>6. GameIsSound' /\ GameIsWhole'
    BY <1>4, <2>1, <2>2, <2>5 DEF GameIsSound, GameIsWhole, Moved, Follows, Ends
  <2> QED BY <1>2, <1>4, <2>1, <2>2, <2>4, <2>6
<1>9. CASE BuildID
  <2>1. Step = "buildid" /\ UNCHANGED <<game, pack, marker>> /\ (Proceed \/ GiveUp)
    BY <1>9 DEF BuildID, steam
  <2>2. GameIsSound' /\ GameIsWhole'
    BY <1>1, <1>2, <1>4, <2>1 DEF GameIsSound, GameIsWhole, Moved, Follows, Ends
  <2> QED BY <1>2, <1>4, <2>1, <2>2
<1>10. CASE Download
  <2>1. /\ Step = "download" /\ UNCHANGED <<game, marker>> /\ pack' \subseteq GameFiles
        /\ Proceed \/ GiveUp
    BY <1>2, <1>10 DEF Download
  <2>2. GameIsSound' /\ GameIsWhole'
    BY <1>1, <1>2, <1>4, <2>1, OverlayStep DEF GameIsSound, GameIsWhole, Moved, Follows, Ends
  <2> QED BY <1>2, <1>4, <2>1, <2>2
<1>11. CASE /\ Step = "extract" /\ UNCHANGED <<game, pack, marker>>
            /\ \/ Proceed /\ \A x \in pack : game[x] = "overlay"
               \/ GiveUp
  <2>1. mode' # "failed" => \A x \in pack : game[x] = "overlay"
    BY <1>4, <1>11
  <2>2. GameIsSound' /\ GameIsWhole'
    BY <1>1, <1>2, <1>4, <1>11, <2>1, OverlayStep
       DEF GameIsSound, GameIsWhole, Moved, Follows, Ends
  <2> QED BY <1>2, <1>4, <1>11, <2>2
<1>12. CASE Marker
  <2>1. /\ Step = "marker" /\ UNCHANGED <<game, pack>>
        /\ \/ Proceed /\ marker' = pack
           \/ GiveUp /\ UNCHANGED marker
    BY <1>12 DEF Marker
  <2>2. mode' # "failed" => marker' = pack
    BY <1>4, <2>1
  <2>3. provider = "overlay"
    BY <1>2, <2>1, OverlayStep
  <2>4. GameIsSound'
    BY <1>4, <2>1 DEF GameIsSound, Moved, Follows
  <2>5. GameIsWhole'
    BY <1>1, <1>2, <2>1, <2>2, <2>3 DEF GameIsSound, GameIsWhole
  <2> QED BY <1>2, <1>4, <2>1, <2>4, <2>5
<1>13. CASE Deactivate
  BY <1>6, <1>7, <1>13 DEF Deactivate, steam
<1>14. CASE ExtractOverlay
  BY <1>6, <1>11, <1>14 DEF ExtractOverlay
<1> QED BY <1>8, <1>9, <1>10, <1>12, <1>13, <1>14

\* An attempt starts with the first step of a recipe.
LEMMA BeginKeepsLiveInv == ASSUME LiveInv, BeginLive PROVE LiveInv'
<1>1. /\ LiveTypeOK /\ PublishIsSafe /\ mode = "idle" /\ mode' = "work" /\ pos' = 1 /\ made' = FALSE
      /\ UNCHANGED <<entry, published, venv, modules, game, marker, crashes>> /\ pack' = {}
  BY DEF LiveInv, BeginLive
<1>2. provider' \in LiveProviders
  BY <1>1 DEF BeginLive, LiveTypeOK, LiveProviders
<1>3. LiveFormed(provider', Recipe[provider']) /\ Step' = Recipe[provider'][1]
  BY <1>1, <1>2, LiveRecipesAreFormed DEF Step
<1>4. pos' \in DOMAIN Recipe[provider'] /\ Step' \in {"create", "deactivate", "validate"}
  BY <1>1, <1>3 DEF LiveFormed
<1>5. /\ publish' \in {"none", "old"} /\ previous' = previous /\ binary' \in {"none", "old"}
      /\ publish' = "none" <=> publish = "none"
  BY <1>1 DEF BeginLive, LiveTypeOK
<1>6. made' \in BOOLEAN /\ published' \in BOOLEAN
  BY <1>1 DEF LiveTypeOK
<1>7. LiveTypeOK'
  BY <1>1, <1>2, <1>4, <1>5, <1>6 DEF LiveTypeOK
<1>8. PublishIsSafe'
  BY <1>1, <1>4, <1>5 DEF PublishIsSafe, LiveTypeOK
<1>9. GameIsSound' /\ GameIsWhole' /\ EntryIsOurs'
  BY <1>1, <1>4 DEF GameIsSound, GameIsWhole, EntryIsOurs
<1> QED BY <1>7, <1>8, <1>9 DEF LiveInv

\* Between the attempts, and when one is killed.
LEMMA OthersKeepLiveInv ==
    ASSUME LiveInv, RetryLive \/ Kill \/ UserUploads PROVE LiveInv'
<1>1. LiveTypeOK /\ PublishIsSafe /\ GameTypeOK(game)
  BY DEF LiveInv, LiveTypeOK, GameTypeOK
<1>2. /\ UNCHANGED <<provider, made, publish, published, binary, pack, marker, pos>> /\ mode' = "idle"
      /\ previous' = previous \/ (previous' = "torn" /\ publish # "none")
      /\ venv' \in {venv, "partial"} /\ modules' \in {modules, "partial"}
  BY DEF RetryLive, Kill, UserUploads, app, dotnet, built, steam
<1>3. crashes' \in 0 .. MaxCrashes
  BY <1>1, CrashesAreCounted DEF LiveTypeOK, RetryLive, Kill, UserUploads
<1>4. GameTypeOK(game')
  <2>1. UNCHANGED game \/ game' = [game EXCEPT !["plugin"] = "user"]
    BY DEF RetryLive, Kill, UserUploads, steam
  <2>2. "plugin" \in GameFiles
    BY DEF GameFiles
  <2> QED BY <1>1, <2>1, <2>2, GameFileWritten
<1>5. entry' \in [{"main", "second"} -> {"none", "torn", "starter", "user"}]
  <2>1. UNCHANGED entry \/ \E x \in {"main", "second"} : entry' = [entry EXCEPT ![x] = "user"]
    BY DEF RetryLive, Kill, UserUploads, app
  <2> QED BY <1>1, <2>1 DEF LiveTypeOK
<1>6. Step' = "none"
  BY <1>2 DEF Step
<1>7. LiveTypeOK'
  BY <1>1, <1>2, <1>3, <1>4, <1>5 DEF LiveTypeOK, GameTypeOK
<1>8. PublishIsSafe'
  BY <1>1, <1>2, <1>6 DEF PublishIsSafe
<1>9. GameIsSound' /\ GameIsWhole' /\ EntryIsOurs'
  BY <1>2, <1>6 DEF GameIsSound, GameIsWhole, EntryIsOurs
<1> QED BY <1>7, <1>8, <1>9 DEF LiveInv

LEMMA LiveStepKeepsInv == ASSUME LiveInv, [LiveNext]_liveVars PROVE LiveInv'
<1>1. CASE LiveInstaller
  BY <1>1, StarterKeepsLiveInv, BuildKeepsLiveInv, PublishKeepsLiveInv, GameKeepsLiveInv,
     BeginKeepsLiveInv, OthersKeepLiveInv DEF LiveInstaller
<1>2. CASE Kill \/ UserUploads
  BY <1>2, OthersKeepLiveInv
<1>3. CASE UNCHANGED liveVars
  BY <1>3 DEF LiveInv, liveVars, LiveTypeOK, PublishIsSafe, GameIsSound, EntryIsOurs,
              GameIsWhole, Step
<1> QED BY <1>1, <1>2, <1>3 DEF LiveNext

\* The invariant of LiveInstall, of which the theorems after it are parts.
THEOREM LiveInvariance == LiveSpec => []LiveInv
<1>1. LiveInit => LiveInv
  BY LiveInitEstablishesInv
<1>2. LiveInv /\ [LiveNext]_liveVars => LiveInv'
  BY LiveStepKeepsInv
<1> QED BY <1>1, <1>2, PTL DEF LiveSpec

\* The publish directories, the game and its overlay, and the entry files are of
\* their types; a file an overlay adds never is the game's.
THEOREM LiveTypeCorrect == LiveSpec => []LiveTypeOK
BY LiveInvariance, PTL DEF LiveInv

\* recoverDotnetPublishActivation and activateDotnetPublishCandidate: a published
\* application is at one of its two places at every moment, and in its own when
\* the next one is built.
THEOREM PublicationIsNeverLost == LiveSpec => []PublishIsNeverLost
<1>1. LiveInv => PublishIsNeverLost
  <2> SUFFICES ASSUME LiveInv, published
               PROVE  (publish # "none" \/ previous = "old") /\ (Step = "candidate" => publish # "none")
    BY DEF PublishIsNeverLost
  <2> QED BY DEF LiveInv, PublishIsSafe
<1> QED BY <1>1, LiveInvariance, PTL

\* Valheim and Rust: a successful installation leaves the files of its provider.
THEOREM GameIsAlwaysWhole == LiveSpec => []GameIsWhole
<1>1. LiveInv => GameIsWhole
  BY DEF LiveInv
<1> QED BY <1>1, LiveInvariance, PTL

\* createStarter and deactivateOverlay: no starter replaces a file of the user, and
\* the overlay's removal spares the user's plugins.
THEOREM UserFilesAlwaysSurvive == LiveSpec => UserFilesSurvive
<1> DEFINE Kept == /\ \A x \in {"main", "second"} : entry[x] = "user" => entry'[x] = "user"
                   /\ provider' = "steam" /\ game["plugin"] = "user" => game'["plugin"] = "user"
<1>1. ASSUME LiveInv, [LiveNext]_liveVars PROVE Kept
  <2>1. /\ entry \in [{"main", "second"} -> {"none", "torn", "starter", "user"}]
        /\ GameTypeOK(game) /\ LiveTypeOK /\ EntryIsOurs
    BY <1>1 DEF LiveInv, LiveTypeOK, GameTypeOK
  <2>2. ASSUME NEW x \in {"main", "second"}, entry[x] = "user" PROVE entry'[x] = "user"
    <3>1. CASE UNCHANGED entry
      BY <2>2, <3>1
    <3>2. CASE \E y \in {"main", "second"} : entry' = [entry EXCEPT ![y] = "user"]
      BY <2>1, <2>2, <3>2
    <3>3. CASE /\ entry["main"] # "user"
               /\ \E v \in {"torn", "starter", "none"} : entry' = [entry EXCEPT !["main"] = v]
      BY <2>1, <2>2, <3>3
    <3>4. CASE entry["second"] = "none" /\ entry' = [entry EXCEPT !["second"] = "starter"]
      BY <2>1, <2>2, <3>4
    <3>5. CASE UserUploads
      BY <3>1, <3>2, <3>5 DEF UserUploads
    <3>6. CASE Create
      BY <3>1, <3>3, <3>6 DEF Create, app
    <3>7. CASE Fill
      <4>1. made => entry["main"] # "user"
        BY <2>1, <3>7 DEF EntryIsOurs, Fill, Step
      <4>2. ~made => entry' = [entry EXCEPT !["main"] = entry["main"]]
        BY <3>7 DEF Fill
      <4>3. ~made => UNCHANGED entry
        BY <2>1, <4>2
      <4> QED BY <3>1, <3>3, <3>7, <4>1, <4>3 DEF Fill
    <3>8. CASE Second
      <4>1. made => entry["main"] # "user"
        BY <2>1, <3>8 DEF EntryIsOurs, Second, Step
      <4> QED BY <3>1, <3>3, <3>4, <3>8, <4>1 DEF Second
    <3>9. CASE \/ BeginLive \/ RetryLive \/ Kill \/ Modules \/ Venv \/ Pip
               \/ Compile \/ UNCHANGED liveVars
      BY <3>1, <3>9 DEF BeginLive, RetryLive, Kill, Modules, Venv, Pip,
                        Compile, liveVars, app
    <3>10. CASE Recover \/ Candidate \/ Preserve \/ Swap \/ Discard
      BY <3>1, <3>10 DEF Recover, Candidate, Preserve, Swap, Discard,
                         Publishes, app
    <3>11. CASE \/ Deactivate \/ Validate \/ BuildID \/ Download
                \/ ExtractOverlay \/ Marker
      BY <3>1, <3>11 DEF Deactivate, Validate, BuildID, Download,
                         ExtractOverlay, Marker, app
    <3> QED BY <1>1, <3>5, <3>6, <3>7, <3>8, <3>9, <3>10, <3>11 DEF LiveNext, LiveInstaller
  <2>3. ASSUME provider' = "steam", game["plugin"] = "user" PROVE game'["plugin"] = "user"
    <3>1. CASE UNCHANGED game
      BY <2>3, <3>1
    <3>2. CASE UserUploads
      <4>1. UNCHANGED game \/ game' = [game EXCEPT !["plugin"] = "user"]
        BY <3>2 DEF UserUploads
      <4> QED BY <2>1, <2>3, <4>1 DEF GameTypeOK, GameFiles
    <3>3. CASE Deactivate
      <4>1. UNCHANGED game \/ \E x \in marker \ {"plugin"} : game' = [game EXCEPT ![x] = "none"]
        BY <3>3 DEF Deactivate, steam
      <4> QED BY <2>1, <2>3, <4>1 DEF GameTypeOK, GameFiles
    <3>4. CASE Validate
      <4>1. UNCHANGED game \/ \E v \in {"game", "none"} : game' = [game EXCEPT !["replaced"] = v]
        BY <3>4 DEF Validate
      <4> QED BY <2>1, <2>3, <4>1 DEF GameTypeOK, GameFiles
    <3>5. ~ExtractOverlay
      BY <2>1, <2>3, OverlayStep DEF ExtractOverlay
    <3>6. CASE \/ BeginLive \/ RetryLive \/ Kill \/ Modules \/ Venv \/ Pip
               \/ Compile \/ Create \/ Fill \/ Second \/ UNCHANGED liveVars
      BY <3>1, <3>6 DEF BeginLive, RetryLive, Kill, Modules, Venv, Pip,
                        Compile, Create, Fill, Second, liveVars, steam
    <3>7. CASE Recover \/ Candidate \/ Preserve \/ Swap \/ Discard
      BY <3>1, <3>7 DEF Recover, Candidate, Preserve, Swap, Discard,
                        Publishes, steam
    <3>8. CASE BuildID \/ Download \/ Marker
      BY <3>1, <3>8 DEF BuildID, Download, Marker, steam
    <3> QED BY <1>1, <3>2, <3>3, <3>4, <3>5, <3>6, <3>7, <3>8 DEF LiveNext, LiveInstaller
  <2> QED BY <2>2, <2>3
<1>2. UserFilesSurvive <=> [][Kept]_liveVars
  BY PTL DEF UserFilesSurvive
<1> HIDE DEF Kept
<1> QED BY <1>1, <1>2, LiveInvariance, PTL DEF LiveSpec

==============================================================================
