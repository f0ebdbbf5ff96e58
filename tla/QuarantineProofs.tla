-------------------------- MODULE QuarantineProofs ---------------------------
(***************************************************************************)
(* Proofs about Quarantine: the old installation survives every failed     *)
(* reset, a server runs on one whole installation, the commit is final,    *)
(* and the reset implements AtomicSwitch.                                   *)
(***************************************************************************)
EXTENDS Quarantine, TLAPS

(***************************************************************************)
(* The inductive invariant.                                                *)
(***************************************************************************)

\* Type correctness is inductive once the entry a rename works on is known.
TypeInv == TypeOK /\ (pc \in {"rename", "record"} => progress.current \in Entries)

\* Steps that belong to Restore, and the stages an interruption of which is
\* recovered by it.
RestoreSteps == {"restore", "rename", "record"}
RestoreStages == {"installing", "validating", "validated"}

\* What was there before the reset is, but for the kept entries, quarantined.
HeldAll == \A e \in OldEntries : IF e \in KeptEntries THEN live[e] = "old"
                                                      ELSE held[e] = "old" /\ live[e] # "old"

NothingNew == \A e \in Entries : live[e] # "new"
NothingHeld == \A e \in Entries : held[e] = "none"

\* Where which content can be.
Contents ==
    /\ \A e \in Entries : held[e] # "new" /\ (live[e] = "old" \/ held[e] = "old" => e \in OldEntries)
    /\ \A e \in KeptEntries : live[e] # "new" /\ held[e] = "none"

\* How far the restore is, by the phase of restore.json.
Clearing ==
    progress.phase \in {"none", "prepared", "root-cleared"} =>
        /\ HeldAll
        /\ progress.completed = {} /\ progress.current = NoEntry
        /\ progress.phase = "none" => progress = NoProgress
        /\ progress.phase = "root-cleared" => \A e \in RootEntries : live[e] # "new"

Returning ==
    progress.phase \in {"targets-cleared", "restored"} =>
        /\ NothingNew
        /\ progress.current # NoEntry => First(progress.current, progress.entries \ progress.completed)
        /\ progress.phase = "restored" => progress.entries \subseteq progress.completed
        /\ \A e \in OldEntries :
              \/ live[e] = "old"  /\ e \in KeptEntries \cup progress.completed \cup {progress.current}
              \/ held[e] = "old" /\ e \notin KeptEntries \cup progress.completed

RestoreProgress ==
    /\ Clearing /\ Returning
    /\ progress.phase # "none" => OldEntries \ KeptEntries \subseteq progress.entries

\* The installation is the old one or the new one, and nothing is quarantined.
Settled == NothingHeld /\ ~exists /\ progress = NoProgress /\ (WholeOld \/ WholeNew)

Idle ==
    journal \in {"none", "prepared"} => Settled

Moving ==
    journal = "quarantine" =>
        /\ ~Committed /\ NothingNew
        /\ \A e \in OldEntries : live[e] = "old" \/ held[e] = "old"
        /\ ~exists => NothingHeld /\ progress = NoProgress
        /\ pc \in {"mkdir", "move", "moved"} => progress = NoProgress
        /\ pc = "mkdir" => NothingHeld
        /\ pc = "move" => \A e \in Entries : live[e] = "none" \/ held[e] = "none"
        /\ pc = "moved" => HeldAll
        /\ pc \in RestoreSteps => RestoreProgress

Restoring ==
    journal \in RestoreStages /\ ~Committed =>
        /\ exists /\ ~RemovalWindow => RestoreProgress
        /\ ~exists => Settled
        /\ pc = "purge" => progress.phase \in {"none", "restored"}

Finished ==
    /\ Committed => /\ WholeNew
                    /\ journal \in {"none", "validated", "installed"}
                    /\ pc \in {"down", "boot", "ready", "activated", "purge", "complete", "running"}
                    /\ ~exists => NothingHeld /\ progress = NoProgress
    /\ journal = "installed" => Committed

\* What holds at each step of the launcher.
Control ==
    /\ pc = "ready" => journal = "none" \/ StateIsLegacy
    /\ pc = "begun" => journal = "prepared" /\ ~Committed
    /\ pc \in {"mkdir", "move"} => journal = "quarantine"
    /\ pc = "moved" => journal = "quarantine"
    /\ pc \in {"move", "moved", "install", "validate", "activate", "activated", "partial",
               "purge"} \cup RestoreSteps => exists
    /\ pc = "install" => journal = "installing" /\ progress = NoProgress
    /\ pc = "validate" => journal = "validating" /\ progress = NoProgress
    /\ pc = "activate" => journal = "validated" /\ progress = NoProgress
    /\ pc = "activated" => journal = "validated" /\ Committed
    /\ pc = "partial" => journal = "quarantine" /\ cont \in {"recover", "failed"}
    /\ pc \in RestoreSteps => /\ journal \in RestoreStages \cup {"quarantine"}
                              /\ cont \in {"recover", "abort"}
    /\ pc \in {"rename", "record"} =>
         /\ progress.phase \in {"targets-cleared", "restored"}
         /\ progress.current \in progress.entries \ progress.completed
    /\ pc = "record" =>
         /\ live[progress.current] # "none" /\ held[progress.current] = "none"
    /\ pc = "purge" =>
         /\ journal \notin {"none", "prepared"}
         /\ cont \in {"recover", "abort", "failed", "commit"}
         /\ Committed => cont \in {"recover", "commit"}
         /\ ~Committed => WholeOld /\ cont # "commit"
         /\ cont = "failed" => journal = "quarantine"
    /\ pc = "complete" =>
         /\ Settled
         /\ journal \notin {"none", "prepared"}
         /\ cont \in {"recover", "abort", "commit"}
         /\ cont = "commit" => Committed
    /\ pc = "running" => journal = "none"

Safe == Contents /\ Idle /\ Moving /\ Restoring /\ Finished /\ Control
IInv == TypeInv /\ Safe

\* What the safety of the restore rests on: no crash in the window in which a
\* restored quarantine loses restore.json before its directory, and a
\* candidate whose install ID is not that of the old installation.
Assumed == WindowShut /\ ~SameIdentity

(***************************************************************************)
(* Type correctness.                                                       *)
(***************************************************************************)

LEMMA StateEntryIsOld == /\ StateEntry \in OldEntries \cap Movable
                         /\ StateEntry \in Entries \ RootEntries
                         /\ KeptEntries \cap RootEntries = {}
                         /\ Entries \subseteq Nat
  BY EntriesAreRanks, StateIsAControlEntry DEF Entries, Movable

LEMMA NoProgressType ==
    NoProgress \in [phase : Phases \cup {"none"}, entries : SUBSET Entries,
                    completed : SUBSET Entries, current : Entries \cup {NoEntry}]
  BY DEF NoProgress

LEMMA InitType == Init => TypeInv
  <1> SUFFICES ASSUME Init PROVE TypeInv
    OBVIOUS
  <1>1. crashes \in 0 .. MaxCrashes
    BY FlagsAreBoolean DEF Init
  <1>2. live \in [Entries -> Content] /\ held \in [Entries -> Content]
    BY DEF Init, Content
  <1>3. QED
    BY <1>1, <1>2, NoProgressType DEF Init, TypeInv, TypeOK, Stages, Steps, Continuations

LEMMA RecoveryType == TypeInv /\ Recovery => TypeInv'
  BY DEF TypeInv, TypeOK, Recovery, Boot, RecoverNothing, RecoverWithoutQuarantine,
         RecoverQuarantine, Complete, disk, Stages, Steps, Continuations

LEMMA ResetType == TypeInv /\ Reset => TypeInv'
  <1> SUFFICES ASSUME TypeInv, Reset PROVE TypeInv'
    OBVIOUS
  <1> USE DEF TypeInv, TypeOK, disk, Content, Stages, Steps, Continuations
  <1>1. CASE BeginReset \/ AdvanceQuarantine \/ MakeQuarantine \/ MoveFails \/ MoveDone
    BY <1>1 DEF BeginReset, AdvanceQuarantine, MakeQuarantine, MoveFails, MoveDone
  <1>2. CASE AdvanceInstalling \/ Seal \/ AdvanceValidated \/ SaveState
             \/ AdvanceInstalled \/ Abort
    BY <1>2, StateEntryIsOld
       DEF AdvanceInstalling, Seal, AdvanceValidated, SaveState, AdvanceInstalled, Abort
  <1>3. ASSUME NEW e \in Entries, MoveEntry(e) PROVE TypeInv'
    BY <1>3 DEF MoveEntry
  <1>4. ASSUME NEW e \in Entries, InstallEntry(e) PROVE TypeInv'
    BY <1>4 DEF InstallEntry
  <1>5. QED
    BY <1>1, <1>2, <1>3, <1>4 DEF Reset

LEMMA RestoreType == TypeInv /\ Restore => TypeInv'
  <1> SUFFICES ASSUME TypeInv, Restore PROVE TypeInv'
    OBVIOUS
  <1> USE DEF TypeInv, TypeOK, disk, Content, Steps, Continuations, Phases, NoEntry
  <1>1. ASSUME NEW e \in Entries, PartialEntry(e) PROVE TypeInv'
    BY <1>1 DEF PartialEntry
  <1>2. ASSUME NEW e \in Entries, ClearEntry(e) PROVE TypeInv'
    BY <1>2 DEF ClearEntry
  <1>3. ASSUME NEW e \in Entries, RestoreIntent(e) PROVE TypeInv'
    BY <1>3 DEF RestoreIntent
  <1>4. CASE PartialDone \/ RestorePrepare \/ ClearDone \/ RestoreFinish
    BY <1>4 DEF PartialDone, RestorePrepare, ClearDone, RestoreFinish, Present
  <1>5. CASE RestoreRecord
    BY <1>5 DEF RestoreRecord
  <1>6. CASE RestoreRename
    BY <1>6 DEF RestoreRename
  <1>7. QED
    BY <1>1, <1>2, <1>3, <1>4, <1>5, <1>6 DEF Restore

LEMMA OtherType ==
    TypeInv /\ (Purge \/ Launch \/ Refuse \/ Stop \/ Environment \/ UNCHANGED vars) => TypeInv'
  <1> SUFFICES ASSUME TypeInv PROVE Purge \/ Launch \/ Refuse \/ Stop \/ Environment
                                     \/ UNCHANGED vars => TypeInv'
    OBVIOUS
  <1> USE DEF TypeInv, TypeOK, disk, Content, Steps, Continuations
  <1>1. ASSUME NEW e \in Entries, PurgeEntry(e) PROVE TypeInv'
    BY <1>1 DEF PurgeEntry
  <1>2. PurgeProgress \/ PurgeDone => TypeInv'
    BY NoProgressType DEF PurgeProgress, PurgeDone
  <1>3. Launch \/ Refuse \/ Stop \/ UNCHANGED vars => TypeInv'
    BY DEF Launch, Refuse, Stop, vars
  <1>4. ASSUME NEW e \in UploadEntries, Upload(e) PROVE TypeInv'
    BY <1>4 DEF Upload
  <1>5. Crash => TypeInv'
    BY FlagsAreBoolean DEF Crash
  <1>6. QED
    BY <1>1, <1>2, <1>3, <1>4, <1>5 DEF Purge, Environment

LEMMA TypeInvariant == Spec => []TypeInv
  <1>1. TypeInv /\ [Next]_vars => TypeInv'
    BY RecoveryType, ResetType, RestoreType, OtherType DEF Next, Launcher
  <1>2. QED
    BY <1>1, InitType, PTL DEF Spec

\* Every variable keeps its type: stages, phases and steps are the known ones.
THEOREM TypeCorrect == Spec => []TypeOK
  BY TypeInvariant, PTL DEF TypeInv

LEMMA WholeOldIntro ==
  ASSUME TypeOK, Contents, NothingNew, \A e \in OldEntries : live[e] = "old"
  PROVE  WholeOld
  <1> SUFFICES ASSUME NEW e \in Entries, e \notin OldEntries
               PROVE  live[e] \in {"none", "user"}
    BY DEF WholeOld
  <1> QED
    BY DEF TypeOK, Content, Contents, NothingNew

LEMMA RestoreStepFacts ==
  ASSUME TypeInv, Safe, pc \in RestoreSteps
  PROVE  RestoreProgress /\ exists /\ ~Committed
  BY DEF Safe, Control, Finished, Moving, Restoring, RestoreSteps, RestoreStages, RemovalWindow

LEMMA RestorePrepareProgress ==
  ASSUME TypeInv, Contents, RestoreProgress, RestorePrepare
  PROVE  RestoreProgress'
  <1>1. HeldAll
    BY DEF RestoreProgress, Clearing, RestorePrepare, NoProgress
  <1>2. OldEntries \ KeptEntries \subseteq progress'.entries
    BY <1>1, StateIsAControlEntry DEF HeldAll, RestorePrepare, Present
  <1> QED
    BY <1>1, <1>2 DEF RestoreProgress, Clearing, Returning, HeldAll, RestorePrepare, NoProgress

LEMMA ClearDoneProgress ==
  ASSUME TypeInv, Contents, RestoreProgress, ClearDone
  PROVE  RestoreProgress'
  <1>1. HeldAll /\ progress.completed = {} /\ progress.current = NoEntry
    BY DEF RestoreProgress, Clearing, ClearDone
  <1>2. /\ progress'.completed = {} /\ progress'.current = NoEntry
        /\ progress'.entries = progress.entries
        /\ \/ progress.phase = "prepared" /\ progress'.phase = "root-cleared"
           \/ progress.phase = "root-cleared" /\ progress'.phase = "targets-cleared"
    BY <1>1 DEF ClearDone, TypeInv, TypeOK
  <1>3. OldEntries \ KeptEntries \subseteq progress'.entries
    BY <1>2 DEF RestoreProgress
  <1>4. CASE progress.phase = "prepared"
    <2>1. \A e \in RootEntries : live[e] # "new"
      BY <1>4 DEF ClearDone, ClearArea, Present, Entries
    <2> QED
      BY <1>1, <1>2, <1>3, <1>4, <2>1
         DEF ClearDone, RestoreProgress, Clearing, Returning, HeldAll
  <1>5. CASE progress.phase = "root-cleared"
    <2>1. NothingNew
      <3> SUFFICES ASSUME NEW e \in Entries PROVE live[e] # "new"
        BY DEF NothingNew
      <3>1. e \in RootEntries => live[e] # "new"
        BY <1>5 DEF RestoreProgress, Clearing
      <3>2. e \in KeptEntries => live[e] # "new"
        BY DEF Contents
      <3>3. e \in ControlEntries \ KeptEntries => live[e] = "none"
        BY <1>5 DEF ClearDone, ClearArea, Present
      <3> QED
        BY <3>1, <3>2, <3>3 DEF Entries
    <2> QED
      BY <1>1, <1>2, <1>3, <1>5, <2>1
         DEF ClearDone, RestoreProgress, Clearing, Returning, HeldAll, NothingNew
  <1> QED
    BY <1>2, <1>4, <1>5

LEMMA RestoreIntentProgress ==
  ASSUME TypeInv, RestoreProgress, NEW e \in Entries, RestoreIntent(e)
  PROVE  RestoreProgress'
  <1>1. /\ progress'.phase = progress.phase /\ progress'.entries = progress.entries
        /\ progress'.completed = progress.completed /\ progress'.current = e
        /\ First(e, progress'.entries \ progress'.completed)
    BY DEF RestoreIntent, TypeInv, TypeOK
  <1>2. progress.current # NoEntry => progress.current = e
    BY <1>1, StateEntryIsOld DEF RestoreProgress, Returning, RestoreIntent, First, TypeInv, TypeOK
  <1>3. Returning'
    BY <1>1, <1>2, StateEntryIsOld
       DEF RestoreProgress, Returning, RestoreIntent, NothingNew, First, NoEntry
  <1> QED
    BY <1>1, <1>3 DEF RestoreProgress, Clearing, RestoreIntent

LEMMA RestoreRenameProgress ==
  ASSUME TypeInv, Contents, Control, RestoreProgress, RestoreRename
  PROVE  RestoreProgress'
  <1> DEFINE e == progress.current
  <1>1. /\ e \in Entries /\ e \notin progress.completed
        /\ progress.phase \in {"targets-cleared", "restored"}
    BY DEF RestoreRename, TypeInv, Control
  <1>2. NothingNew'
    BY <1>1 DEF RestoreProgress, Returning, NothingNew, RestoreRename, Contents, TypeInv, TypeOK
  <1>3. ASSUME NEW f \in OldEntries
        PROVE  \/ live'[f] = "old" /\ f \in KeptEntries \cup progress.completed \cup {e}
               \/ held'[f] = "old" /\ f \notin KeptEntries \cup progress.completed
    <2>1. \/ live[f] = "old" /\ f \in KeptEntries \cup progress.completed \cup {e}
          \/ held[f] = "old" /\ f \notin KeptEntries \cup progress.completed
      BY <1>1 DEF RestoreProgress, Returning
    <2>2. f \in Entries
      BY StateIsAControlEntry
    <2> QED
      BY <1>1, <2>1, <2>2 DEF RestoreRename, TypeInv, TypeOK
  <1> QED
    BY <1>1, <1>2, <1>3 DEF RestoreProgress, Clearing, Returning, RestoreRename

\* Renaming the quarantined e back over nothing keeps the contents right.
LEMMA GiveBack ==
  ASSUME TypeOK, Contents, NEW e \in Entries \ KeptEntries, live[e] = "none",
         live' = [live EXCEPT ![e] = held[e]], held' = [held EXCEPT ![e] = "none"]
  PROVE  /\ Contents'
         /\ NothingNew => NothingNew'
         /\ \A f \in OldEntries : live[f] = "old" \/ held[f] = "old"
                                 => live'[f] = "old" \/ held'[f] = "old"
  <1>1. /\ live'[e] = held[e] /\ held'[e] = "none"
        /\ \A f \in Entries \ {e} : live'[f] = live[f] /\ held'[f] = held[f]
    BY DEF TypeOK
  <1>2. Contents'
    BY <1>1 DEF Contents
  <1>3. NothingNew => NothingNew'
    BY <1>1 DEF Contents, NothingNew
  <1>4. ASSUME NEW f \in OldEntries, live[f] = "old" \/ held[f] = "old"
        PROVE  live'[f] = "old" \/ held'[f] = "old"
    <2>1. f \in Entries
      BY StateIsAControlEntry
    <2> QED
      BY <1>1, <1>4, <2>1
  <1> QED
    BY <1>2, <1>3, <1>4

\* No entry turns from or into one of an installation.
SameInstallation ==
    \A f \in Entries : /\ (live'[f] = "old") = (live[f] = "old")
                       /\ (live'[f] = "new") = (live[f] = "new")
                       /\ (live'[f] \in {"none", "user"}) = (live[f] \in {"none", "user"})

\* An upload changes neither what is old nor what is new.
LEMMA UploadFacts ==
  ASSUME TypeOK, NEW e \in UploadEntries, Upload(e)
  PROVE  /\ SameInstallation /\ pc = "down" /\ journal # "none" /\ ~Committed
         /\ UNCHANGED <<held, exists, journal, progress, pc, cont, crashes>>
  <1>1. e \in Entries
    BY StateIsAControlEntry DEF Entries
  <1>2. /\ live[e] \in {"none", "user"} /\ live'[e] \in {"none", "user"}
        /\ \A f \in Entries \ {e} : live'[f] = live[f]
    BY <1>1 DEF Upload, TypeOK
  <1> QED
    BY <1>2 DEF Upload, SameInstallation

\* Every step of Restore but the last keeps its invariant.
LEMMA RestoreKeepsProgress ==
  ASSUME TypeInv, Safe,
         \/ RestorePrepare \/ ClearDone \/ RestoreRename
         \/ \E e \in Entries : RestoreIntent(e)
  PROVE  RestoreProgress' /\ pc \in RestoreSteps
  <1>1. pc \in RestoreSteps
    BY DEF RestorePrepare, ClearDone, RestoreRename, RestoreIntent, RestoreSteps
  <1>2. RestoreProgress /\ Contents /\ Control
    BY <1>1, RestoreStepFacts DEF Safe
  <1> QED
    BY <1>1, <1>2, RestorePrepareProgress, ClearDoneProgress, RestoreRenameProgress,
       RestoreIntentProgress

LEMMA RecoverySafe == Assumed /\ IInv /\ Recovery => Safe'
  <1> SUFFICES ASSUME Assumed, TypeInv, Safe, Recovery PROVE Safe'
    BY DEF IInv
  <1>0. journal = "quarantine" /\ ~exists => WholeOld /\ NothingHeld /\ progress = NoProgress
    <2> SUFFICES ASSUME journal = "quarantine", ~exists
                 PROVE  WholeOld /\ NothingHeld /\ progress = NoProgress
      OBVIOUS
    <2>1. NothingHeld /\ progress = NoProgress /\ NothingNew
          /\ \A e \in OldEntries : live[e] = "old" \/ held[e] = "old"
      BY DEF Safe, Moving
    <2>2. \A e \in OldEntries : live[e] = "old"
      BY <2>1, StateIsAControlEntry DEF NothingHeld
    <2> QED
      BY <2>1, <2>2, WholeOldIntro DEF Safe, TypeInv
  <1> USE StateEntryIsOld DEF Assumed, TypeInv, TypeOK, Safe, Contents, Idle, Moving, Restoring, Finished, Control,
         Settled, NothingHeld, NothingNew, WholeOld, WholeNew, Committed, RestoreProgress,
         Clearing, Returning, HeldAll, RestoreSteps, RestoreStages, RemovalWindow,
         StateIsLegacy, StateMatchesJournal, Movable, disk
  <1>1. ASSUME Boot PROVE Safe'
    BY <1>1 DEF Boot
  <1>2. ASSUME RecoverNothing PROVE Safe'
    BY <1>2 DEF RecoverNothing
  <1>3. ASSUME RecoverWithoutQuarantine PROVE Safe'
    <2>1. Contents'
      BY <1>3 DEF RecoverWithoutQuarantine
    <2>2. Idle'
      <3>1. CASE Committed
        BY <1>3, <3>1 DEF RecoverWithoutQuarantine
      <3>2. CASE journal = "prepared"
        BY <1>3, <3>2 DEF RecoverWithoutQuarantine
      <3>3. CASE journal = "quarantine" /\ ~exists
        <4>1. WholeOld /\ NothingHeld /\ progress = NoProgress
          BY <1>0, <3>3
        <4> QED
          BY <1>3, <3>3, <4>1 DEF RecoverWithoutQuarantine
      <3>4. CASE journal \in RestoreStages /\ ~exists /\ ~Committed
        BY <1>3, <3>4 DEF RecoverWithoutQuarantine
      <3> QED
        BY <1>3, <3>1, <3>2, <3>3, <3>4 DEF RecoverWithoutQuarantine, Stages
    <2>3. Moving'
      BY <1>3 DEF RecoverWithoutQuarantine
    <2>4. Restoring'
      BY <1>3 DEF RecoverWithoutQuarantine
    <2>5. Finished'
      BY <1>3 DEF RecoverWithoutQuarantine
    <2>6. Control'
      BY <1>3 DEF RecoverWithoutQuarantine
    <2> QED
      BY <2>1, <2>2, <2>3, <2>4, <2>5, <2>6 DEF Safe
  <1>4. ASSUME RecoverQuarantine PROVE Safe'
    <2>1. Contents'
      BY <1>4 DEF RecoverQuarantine
    <2>2. Idle'
      BY <1>4 DEF RecoverQuarantine
    <2>3. Moving'
      BY <1>4 DEF RecoverQuarantine
    <2>4. Restoring'
      BY <1>4 DEF RecoverQuarantine
    <2>5. Finished'
      BY <1>4 DEF RecoverQuarantine
    <2>6. Control'
      <3>1. CASE pc' = "purge"
        BY <1>4, <3>1 DEF RecoverQuarantine
      <3>2. CASE pc' = "partial"
        BY <1>4, <3>2 DEF RecoverQuarantine
      <3>3. CASE pc' = "restore"
        <4>1. journal \in RestoreStages
          BY <1>4, <3>3 DEF RecoverQuarantine, Stages
        <4> QED
          BY <1>4, <3>3, <4>1 DEF RecoverQuarantine
      <3> QED
        BY <1>4, <3>1, <3>2, <3>3 DEF RecoverQuarantine
    <2> QED
      BY <2>1, <2>2, <2>3, <2>4, <2>5, <2>6 DEF Safe
  <1>5. ASSUME Complete PROVE Safe'
    BY <1>5 DEF Complete
  <1> QED
    BY <1>1, <1>2, <1>3, <1>4, <1>5 DEF Recovery

LEMMA ResetSafe == Assumed /\ IInv /\ Reset => Safe'
  <1> SUFFICES ASSUME Assumed, TypeInv, Safe, Reset PROVE Safe'
    BY DEF IInv
  <1> USE StateEntryIsOld DEF Assumed, TypeInv, TypeOK, Safe, Contents, Idle, Moving, Restoring, Finished, Control,
         Settled, NothingHeld, NothingNew, WholeOld, WholeNew, Committed, RestoreProgress,
         Clearing, Returning, HeldAll, RestoreSteps, RestoreStages, RemovalWindow,
         StateIsLegacy, StateMatchesJournal, Movable, disk
  <1>1. ASSUME BeginReset PROVE Safe'
    BY <1>1 DEF BeginReset
  <1>2. ASSUME AdvanceQuarantine PROVE Safe'
    <2>1. Contents'
      BY <1>2 DEF AdvanceQuarantine
    <2>2. Idle'
      BY <1>2 DEF AdvanceQuarantine
    <2>3. Moving'
      <3>1. WholeOld /\ NothingHeld /\ ~exists /\ progress = NoProgress /\ ~Committed
        BY <1>2 DEF AdvanceQuarantine
      <3>2. NothingNew /\ \A e \in OldEntries : live[e] = "old"
        BY <3>1, StateIsAControlEntry
      <3>3. /\ UNCHANGED <<live, held, exists, progress>>
            /\ pc' = "mkdir"
        BY <1>2 DEF AdvanceQuarantine
      <3> QED
        BY <3>1, <3>2, <3>3
    <2>4. Restoring'
      BY <1>2 DEF AdvanceQuarantine
    <2>5. Finished'
      BY <1>2 DEF AdvanceQuarantine
    <2>6. Control'
      BY <1>2 DEF AdvanceQuarantine
    <2> QED
      BY <2>1, <2>2, <2>3, <2>4, <2>5, <2>6 DEF Safe
  <1>3. ASSUME MakeQuarantine PROVE Safe'
    BY <1>3 DEF MakeQuarantine
  <1>4. ASSUME NEW e \in Entries, MoveEntry(e) PROVE Safe'
    BY <1>4 DEF MoveEntry, Present, First, ClearArea
  <1>5. ASSUME MoveFails PROVE Safe'
    BY <1>5 DEF MoveFails
  <1>6. ASSUME MoveDone PROVE Safe'
    <2>1. Contents'
      BY <1>6 DEF MoveDone, Present, First, ClearArea
    <2>2. Idle'
      BY <1>6 DEF MoveDone, Present, First, ClearArea
    <2>3. Moving'
      <3>1. HeldAll
        <4> SUFFICES ASSUME NEW f \in OldEntries
                     PROVE IF f \in KeptEntries THEN live[f] = "old"
                           ELSE held[f] = "old" /\ live[f] # "old"
          BY DEF HeldAll
        <4>1. live[f] = "old" \/ held[f] = "old"
          BY <1>6 DEF MoveDone
        <4>2. f \notin KeptEntries => live[f] = "none"
          BY <1>6, StateIsAControlEntry DEF MoveDone, Present
        <4>3. f \in KeptEntries => held[f] = "none"
          OBVIOUS
        <4> QED
          BY <4>1, <4>2, <4>3
      <3> QED
        BY <1>6, <3>1 DEF MoveDone
    <2>4. Restoring'
      BY <1>6 DEF MoveDone, Present, First, ClearArea
    <2>5. Finished'
      BY <1>6 DEF MoveDone, Present, First, ClearArea
    <2>6. Control'
      BY <1>6 DEF MoveDone, Present, First, ClearArea
    <2> QED
      BY <2>1, <2>2, <2>3, <2>4, <2>5, <2>6 DEF Safe
  <1>7. ASSUME AdvanceInstalling PROVE Safe'
    <2>1. Contents'
      BY <1>7 DEF AdvanceInstalling
    <2>2. Idle'
      BY <1>7 DEF AdvanceInstalling
    <2>3. Moving'
      BY <1>7 DEF AdvanceInstalling
    <2>4. Restoring'
      <3>1. HeldAll /\ progress = NoProgress /\ ~Committed /\ exists
        BY <1>7 DEF AdvanceInstalling
      <3>2. progress'.phase = "none" /\ progress'.completed = {} /\ progress'.current = NoEntry
        BY <1>7, <3>1 DEF AdvanceInstalling, NoProgress
      <3> QED
        BY <1>7, <3>1, <3>2 DEF AdvanceInstalling
    <2>5. Finished'
      BY <1>7 DEF AdvanceInstalling
    <2>6. Control'
      BY <1>7 DEF AdvanceInstalling
    <2> QED
      BY <2>1, <2>2, <2>3, <2>4, <2>5, <2>6 DEF Safe
  <1>8. ASSUME NEW e \in Entries, InstallEntry(e) PROVE Safe'
    <2>1. Contents'
      BY <1>8 DEF InstallEntry, Present, First, ClearArea
    <2>2. Idle'
      BY <1>8 DEF InstallEntry, Present, First, ClearArea
    <2>3. Moving'
      BY <1>8 DEF InstallEntry, Present, First, ClearArea
    <2>4. Restoring'
      <3>1. HeldAll'
        BY <1>8 DEF InstallEntry, NoProgress
      <3>2. progress'.phase = "none" /\ progress'.completed = {} /\ progress'.current = NoEntry
        BY <1>8 DEF InstallEntry, NoProgress
      <3> QED
        BY <1>8, <3>1, <3>2 DEF InstallEntry
    <2>5. Finished'
      BY <1>8 DEF InstallEntry, Present, First, ClearArea
    <2>6. Control'
      BY <1>8 DEF InstallEntry, Present, First, ClearArea
    <2> QED
      BY <2>1, <2>2, <2>3, <2>4, <2>5, <2>6 DEF Safe
  <1>9. ASSUME Seal PROVE Safe'
    BY <1>9 DEF Seal
  <1>10. ASSUME AdvanceValidated PROVE Safe'
    BY <1>10 DEF AdvanceValidated
  <1>11. ASSUME SaveState PROVE Safe'
    <2>1. Contents'
      BY <1>11 DEF SaveState
    <2>2. Idle'
      BY <1>11 DEF SaveState
    <2>3. Moving'
      BY <1>11 DEF SaveState
    <2>4. Restoring'
      BY <1>11 DEF SaveState
    <2>5. Finished'
      <3>1. HeldAll
        BY <1>11 DEF SaveState, NoProgress
      <3>2. WholeNew'
        BY <1>11, <3>1 DEF SaveState
      <3> QED
        BY <1>11, <3>2 DEF SaveState
    <2>6. Control'
      BY <1>11 DEF SaveState
    <2> QED
      BY <2>1, <2>2, <2>3, <2>4, <2>5, <2>6 DEF Safe
  <1>12. ASSUME AdvanceInstalled PROVE Safe'
    BY <1>12 DEF AdvanceInstalled
  <1>13. ASSUME Abort PROVE Safe'
    <2>1. Contents'
      BY <1>13 DEF Abort
    <2>2. Idle'
      BY <1>13 DEF Abort
    <2>3. Moving'
      <3>1. ASSUME pc = "moved" PROVE HeldAll /\ progress = NoProgress
        BY <1>13, <3>1 DEF Abort
      <3>2. ASSUME pc = "moved" PROVE RestoreProgress'
        BY <1>13, <3>1, <3>2 DEF Abort, NoProgress
      <3> QED
        BY <1>13, <3>2 DEF Abort
    <2>4. Restoring'
      BY <1>13 DEF Abort
    <2>5. Finished'
      BY <1>13 DEF Abort
    <2>6. Control'
      BY <1>13 DEF Abort
    <2> QED
      BY <2>1, <2>2, <2>3, <2>4, <2>5, <2>6 DEF Safe
  <1> QED
    BY <1>1, <1>2, <1>3, <1>4, <1>5, <1>6, <1>7, <1>8, <1>9, <1>10, <1>11, <1>12, <1>13 DEF Reset

LEMMA RestoreSafe == Assumed /\ IInv /\ Restore => Safe'
  <1> SUFFICES ASSUME Assumed, TypeInv, Safe, Restore PROVE Safe'
    BY DEF IInv
  <1>a. \/ RestorePrepare \/ ClearDone \/ RestoreRename \/ \E e \in Entries : RestoreIntent(e)
        => RestoreProgress' /\ pc \in RestoreSteps
    BY RestoreKeepsProgress
  <1>b. NothingNew /\ (\A e \in OldEntries : live[e] = "old") => WholeOld
    BY WholeOldIntro DEF TypeInv, Safe
  <1>c. ASSUME NEW e \in Entries, PartialEntry(e), live[e] = "none"
        PROVE  /\ Contents'
               /\ NothingNew => NothingNew'
               /\ \A f \in OldEntries : live[f] = "old" \/ held[f] = "old"
                                       => live'[f] = "old" \/ held'[f] = "old"
    <2>1. e \notin KeptEntries
      BY <1>c DEF PartialEntry, First, Present, Safe, Contents
    <2> QED
      BY <1>c, <2>1, GiveBack DEF PartialEntry, TypeInv, Safe
  <1>d. ASSUME RestoreRename PROVE Contents'
    <2> DEFINE e == progress.current
    <2>1. e \in Entries
      BY <1>d DEF RestoreRename, TypeInv
    <2>2. CASE held[e] # "none" /\ live[e] = "none"
      <3>1. e \notin KeptEntries
        BY <2>2 DEF Safe, Contents
      <3>2. live' = [live EXCEPT ![e] = held[e]] /\ held' = [held EXCEPT ![e] = "none"]
        BY <1>d, <2>2 DEF RestoreRename
      <3> HIDE DEF e
      <3> QED
        BY <2>1, <2>2, <3>1, <3>2, GiveBack DEF TypeInv, Safe
    <2>3. CASE ~(held[e] # "none" /\ live[e] = "none")
      BY <1>d, <2>3 DEF RestoreRename, Safe, Contents
    <2> QED
      BY <2>2, <2>3
  <1> USE StateEntryIsOld DEF Assumed, TypeInv, TypeOK, Safe, Contents, Idle, Moving, Restoring, Finished, Control,
         Settled, NothingHeld, NothingNew, WholeOld, WholeNew, Committed, RestoreProgress,
         Clearing, Returning, HeldAll, RestoreSteps, RestoreStages, RemovalWindow,
         StateIsLegacy, StateMatchesJournal, Movable, disk
  <1>1. ASSUME NEW e \in Entries, PartialEntry(e) PROVE Safe'
    <2>1. Contents'
      <3>1. CASE live[e] = "none"
        BY <1>1, <1>c, <3>1
      <3>2. CASE live[e] # "none"
        BY <1>1, <3>2 DEF PartialEntry
      <3> QED
        BY <3>1, <3>2
    <2>2. Idle'
      BY <1>1 DEF PartialEntry, Present, First, ClearArea
    <2>3. Moving'
      <3>1. NothingNew' /\ \A f \in OldEntries : live'[f] = "old" \/ held'[f] = "old"
        <4>1. NothingNew /\ \A f \in OldEntries : live[f] = "old" \/ held[f] = "old"
          BY <1>1 DEF PartialEntry
        <4>2. CASE live[e] = "none"
          BY <1>1, <1>c, <4>1, <4>2
        <4>3. CASE live[e] # "none"
          BY <1>1, <4>1, <4>3 DEF PartialEntry
        <4> QED
          BY <4>2, <4>3
      <3> QED
        BY <1>1, <3>1 DEF PartialEntry
    <2>4. Restoring'
      BY <1>1 DEF PartialEntry, Present, First, ClearArea
    <2>5. Finished'
      BY <1>1 DEF PartialEntry, Present, First, ClearArea
    <2>6. Control'
      BY <1>1 DEF PartialEntry, Present, First, ClearArea
    <2> QED
      BY <2>1, <2>2, <2>3, <2>4, <2>5, <2>6 DEF Safe
  <1>2. ASSUME PartialDone PROVE Safe'
    <2>1. Contents'
      BY <1>2 DEF PartialDone, Present, First, ClearArea
    <2>2. Idle'
      BY <1>2 DEF PartialDone, Present, First, ClearArea
    <2>3. Moving'
      BY <1>2 DEF PartialDone, Present, First, ClearArea
    <2>4. Restoring'
      BY <1>2 DEF PartialDone, Present, First, ClearArea
    <2>5. Finished'
      BY <1>2 DEF PartialDone, Present, First, ClearArea
    <2>6. Control'
      <3>1. WholeOld
        <4>1. NothingNew /\ \A f \in OldEntries : live[f] = "old"
          BY <1>2, StateIsAControlEntry DEF PartialDone, Present
        <4> QED
          BY <1>b, <4>1
      <3> QED
        BY <1>2, <3>1 DEF PartialDone
    <2> QED
      BY <2>1, <2>2, <2>3, <2>4, <2>5, <2>6 DEF Safe
  <1>3. ASSUME RestorePrepare PROVE Safe'
    <2>1. Contents'
      BY <1>3 DEF RestorePrepare, Present, First, ClearArea
    <2>2. Idle'
      BY <1>3 DEF RestorePrepare, Present, First, ClearArea
    <2>3. Moving'
      <3>1. RestoreProgress' /\ pc \in RestoreSteps
        BY <1>a, <1>3
      <3>2. pc = "restore"
        BY <1>3 DEF RestorePrepare
      <3> HIDE DEF RestoreProgress
      <3> QED
        BY <1>3, <3>1, <3>2 DEF RestorePrepare
    <2>4. Restoring'
      <3>1. RestoreProgress' /\ pc \in RestoreSteps
        BY <1>a, <1>3
      <3> HIDE DEF RestoreProgress
      <3> QED
        BY <1>3, <3>1 DEF RestorePrepare
    <2>5. Finished'
      BY <1>3 DEF RestorePrepare, Present, First, ClearArea
    <2>6. Control'
      BY <1>3 DEF RestorePrepare, Present, First, ClearArea
    <2> QED
      BY <2>1, <2>2, <2>3, <2>4, <2>5, <2>6 DEF Safe
  <1>4. ASSUME NEW e \in Entries, ClearEntry(e) PROVE Safe'
    BY <1>4 DEF ClearEntry, Present, First, ClearArea
  <1>5. ASSUME ClearDone PROVE Safe'
    <2>1. Contents'
      BY <1>5 DEF ClearDone, Present, First, ClearArea
    <2>2. Idle'
      BY <1>5 DEF ClearDone, Present, First, ClearArea
    <2>3. Moving'
      <3>1. RestoreProgress' /\ pc \in RestoreSteps
        BY <1>a, <1>5
      <3> HIDE DEF RestoreProgress
      <3> QED
        BY <1>5, <3>1 DEF ClearDone
    <2>4. Restoring'
      <3>1. RestoreProgress' /\ pc \in RestoreSteps
        BY <1>a, <1>5
      <3> HIDE DEF RestoreProgress
      <3> QED
        BY <1>5, <3>1 DEF ClearDone
    <2>5. Finished'
      BY <1>5 DEF ClearDone, Present, First, ClearArea
    <2>6. Control'
      BY <1>5 DEF ClearDone, Present, First, ClearArea
    <2> QED
      BY <2>1, <2>2, <2>3, <2>4, <2>5, <2>6 DEF Safe
  <1>6. ASSUME NEW e \in Entries, RestoreIntent(e) PROVE Safe'
    <2>1. Contents'
      BY <1>6 DEF RestoreIntent, Present, First, ClearArea
    <2>2. Idle'
      BY <1>6 DEF RestoreIntent, Present, First, ClearArea
    <2>3. Moving'
      <3>1. RestoreProgress' /\ pc \in RestoreSteps
        BY <1>a, <1>6
      <3> HIDE DEF RestoreProgress
      <3> QED
        BY <1>6, <3>1 DEF RestoreIntent
    <2>4. Restoring'
      <3>1. RestoreProgress' /\ pc \in RestoreSteps
        BY <1>a, <1>6
      <3> HIDE DEF RestoreProgress
      <3> QED
        BY <1>6, <3>1 DEF RestoreIntent
    <2>5. Finished'
      BY <1>6 DEF RestoreIntent, Present, First, ClearArea
    <2>6. Control'
      BY <1>6 DEF RestoreIntent, Present, First, ClearArea
    <2> QED
      BY <2>1, <2>2, <2>3, <2>4, <2>5, <2>6 DEF Safe
  <1>7. ASSUME RestoreRename PROVE Safe'
    <2>1. Contents'
      BY <1>7, <1>d
    <2>2. Idle'
      BY <1>7 DEF RestoreRename, Present, First, ClearArea
    <2>3. Moving'
      <3>1. RestoreProgress' /\ pc \in RestoreSteps
        BY <1>a, <1>7
      <3>2. progress'.phase \in {"targets-cleared", "restored"}
        BY <1>7 DEF RestoreRename
      <3>3. NothingNew' /\ \A f \in OldEntries : live'[f] = "old" \/ held'[f] = "old"
        BY <3>1, <3>2
      <3>4. UNCHANGED <<exists, journal, progress>> /\ pc' \in {"record", "down"} /\ pc = "rename"
        BY <1>7 DEF RestoreRename
      <3>5. ~Committed'
        BY <3>3
      <3> HIDE DEF RestoreProgress, NothingNew
      <3> QED
        BY <3>1, <3>3, <3>4, <3>5
    <2>4. Restoring'
      <3>1. RestoreProgress' /\ pc \in RestoreSteps
        BY <1>a, <1>7
      <3> HIDE DEF RestoreProgress
      <3> QED
        BY <1>7, <3>1 DEF RestoreRename
    <2>5. Finished'
      BY <1>7 DEF RestoreRename, Present, First, ClearArea
    <2>6. Control'
      BY <1>7 DEF RestoreRename, Present, First, ClearArea
    <2> QED
      BY <2>1, <2>2, <2>3, <2>4, <2>5, <2>6 DEF Safe
  <1>8. ASSUME RestoreRecord PROVE Safe'
    BY <1>8 DEF RestoreRecord, Present, First, ClearArea
  <1>9. ASSUME RestoreFinish PROVE Safe'
    <2>1. Contents'
      BY <1>9 DEF RestoreFinish, Present, First, ClearArea
    <2>2. Idle'
      BY <1>9 DEF RestoreFinish, Present, First, ClearArea
    <2>3. Moving'
      BY <1>9 DEF RestoreFinish, Present, First, ClearArea
    <2>4. Restoring'
      BY <1>9 DEF RestoreFinish, Present, First, ClearArea
    <2>5. Finished'
      BY <1>9 DEF RestoreFinish, Present, First, ClearArea
    <2>6. Control'
      <3>1. WholeOld
        <4>1. NothingNew /\ \A f \in OldEntries : live[f] = "old"
          BY <1>9 DEF RestoreFinish
        <4> QED
          BY <1>b, <4>1
      <3> QED
        BY <1>9, <3>1 DEF RestoreFinish
    <2> QED
      BY <2>1, <2>2, <2>3, <2>4, <2>5, <2>6 DEF Safe
  <1> QED
    BY <1>1, <1>2, <1>3, <1>4, <1>5, <1>6, <1>7, <1>8, <1>9 DEF Restore

LEMMA PurgeSafe == Assumed /\ IInv /\ Purge => Safe'
  <1> SUFFICES ASSUME Assumed, TypeInv, Safe, Purge PROVE Safe'
    BY DEF IInv
  <1> USE StateEntryIsOld DEF Assumed, TypeInv, TypeOK, Safe, Contents, Idle, Moving, Restoring, Finished, Control,
         Settled, NothingHeld, NothingNew, WholeOld, WholeNew, Committed, RestoreProgress,
         Clearing, Returning, HeldAll, RestoreSteps, RestoreStages, RemovalWindow,
         StateIsLegacy, StateMatchesJournal, Movable, disk
  <1>1. ASSUME NEW e \in Entries, PurgeEntry(e) PROVE Safe'
    BY <1>1 DEF PurgeEntry, Present, First, ClearArea
  <1>2. ASSUME PurgeProgress PROVE Safe'
    <2>1. Contents'
      BY <1>2 DEF PurgeProgress
    <2>2. Idle'
      BY <1>2 DEF PurgeProgress
    <2>3. Moving'
      BY <1>2 DEF PurgeProgress
    <2>4. Restoring'
      BY <1>2 DEF PurgeProgress, NoProgress
    <2>5. Finished'
      BY <1>2 DEF PurgeProgress
    <2>6. Control'
      BY <1>2 DEF PurgeProgress
    <2> QED
      BY <2>1, <2>2, <2>3, <2>4, <2>5, <2>6 DEF Safe
  <1>3. ASSUME PurgeDone PROVE Safe'
    BY <1>3 DEF PurgeDone, Present, First, ClearArea
  <1> QED
    BY <1>1, <1>2, <1>3 DEF Purge

LEMMA OtherSafe == Assumed /\ IInv /\ (Launch \/ Refuse \/ Stop \/ Crash \/ (\E e \in UploadEntries : Upload(e)) \/ UNCHANGED vars) => Safe'
  <1> SUFFICES ASSUME Assumed, TypeInv, Safe, (Launch \/ Refuse \/ Stop \/ Crash \/ (\E e \in UploadEntries : Upload(e)) \/ UNCHANGED vars) PROVE Safe'
    BY DEF IInv
  <1>a. ASSUME NEW e \in UploadEntries, Upload(e)
        PROVE  /\ SameInstallation /\ pc = "down" /\ journal # "none" /\ ~Committed
               /\ UNCHANGED <<held, exists, journal, progress, pc, cont, crashes>>
    BY <1>a, UploadFacts DEF TypeInv
  <1> USE StateEntryIsOld DEF Assumed, TypeInv, TypeOK, Safe, Contents, Idle, Moving, Restoring, Finished, Control,
         Settled, NothingHeld, NothingNew, WholeOld, WholeNew, Committed, RestoreProgress,
         Clearing, Returning, HeldAll, RestoreSteps, RestoreStages, RemovalWindow,
         StateIsLegacy, StateMatchesJournal, Movable, disk
  <1>1. ASSUME Launch PROVE Safe'
    BY <1>1 DEF Launch
  <1>2. ASSUME Refuse PROVE Safe'
    BY <1>2 DEF Refuse
  <1>3. ASSUME Stop PROVE Safe'
    BY <1>3 DEF Stop
  <1>4. ASSUME Crash PROVE Safe'
    BY <1>4 DEF Crash
  <1>5. ASSUME NEW e \in UploadEntries, Upload(e) PROVE Safe'
    <2>0. /\ SameInstallation /\ pc = "down" /\ journal # "none" /\ ~Committed
          /\ UNCHANGED <<held, exists, journal, progress, pc, cont, crashes>>
          /\ OldEntries \subseteq Entries /\ RootEntries \subseteq Entries
          /\ KeptEntries \subseteq Entries
      BY <1>5, <1>a, StateIsAControlEntry DEF Entries
    <2>1. Contents'
      BY <2>0 DEF SameInstallation
    <2>2. Idle'
      BY <2>0 DEF SameInstallation
    <2>3. Moving'
      BY <2>0 DEF SameInstallation
    <2>4. Restoring'
      BY <2>0 DEF SameInstallation
    <2>5. Finished'
      BY <2>0 DEF SameInstallation
    <2>6. Control'
      BY <2>0 DEF SameInstallation
    <2> QED
      BY <2>1, <2>2, <2>3, <2>4, <2>5, <2>6 DEF Safe
  <1>6. ASSUME UNCHANGED vars PROVE Safe'
    BY <1>6 DEF vars
  <1> QED
    BY <1>1, <1>2, <1>3, <1>4, <1>5, <1>6 DEF vars

LEMMA InitSafe == Init => Safe
  <1> SUFFICES ASSUME Init PROVE Safe
    OBVIOUS
  <1>1. Settled /\ ~Committed
    <2>1. \A e \in OldEntries : e \in Entries
      BY StateIsAControlEntry
    <2>2. WholeOld
      BY DEF Init, WholeOld
    <2>3. ~Committed
      BY <2>1, StateEntryIsOld DEF Init, Committed
    <2> QED
      BY <2>2, <2>3 DEF Init, Settled, NothingHeld
  <1>2. Contents
    BY StateIsAControlEntry DEF Init, Contents, Entries
  <1> QED
    BY <1>1, <1>2
       DEF Init, Safe, Idle, Moving, Restoring, Finished, Control, RestoreStages, RestoreSteps

(***************************************************************************)
(* The theorems.                                                           *)
(***************************************************************************)

LEMMA InvariantStep == Assumed /\ IInv /\ [Next]_vars => IInv'
  <1>1. IInv /\ [Next]_vars => TypeInv'
    BY RecoveryType, ResetType, RestoreType, OtherType DEF IInv, Next, Launcher
  <1>2. Assumed /\ IInv /\ [Next]_vars => Safe'
    BY RecoverySafe, ResetSafe, RestoreSafe, PurgeSafe, OtherSafe DEF Next, Launcher, Environment
  <1> QED
    BY <1>1, <1>2 DEF IInv

LEMMA Invariant ==
  ASSUME Assumed
  PROVE  Spec => []IInv
  <1>1. Init => IInv
    BY InitType, InitSafe DEF IInv
  <1>2. IInv /\ [Next]_vars => IInv'
    BY InvariantStep
  <1> QED
    BY <1>1, <1>2, PTL DEF Spec

\* Whatever crashes, until the commit point every entry of the old
\* installation is in the live tree or in the quarantine with its own content.
THEOREM OldDataSurvival ==
  ASSUME Assumed
  PROVE  Spec => []OldDataSurvives
  <1>1. IInv => OldDataSurvives
    <2> SUFFICES ASSUME IInv, ~Committed, NEW e \in OldEntries
                 PROVE  live[e] = "old" \/ held[e] = "old"
      BY DEF OldDataSurvives
    <2>1. e \in Entries
      BY StateIsAControlEntry
    <2>2. CASE journal \in {"none", "prepared"}
      BY <2>1, <2>2 DEF IInv, Safe, Idle, Settled, WholeOld, WholeNew
    <2>3. CASE journal = "quarantine"
      BY <2>3 DEF IInv, Safe, Moving
    <2>4. CASE journal \in RestoreStages
      <3>1. CASE RemovalWindow
        BY <2>1, <3>1 DEF RemovalWindow, IInv, Safe, Control, WholeOld
      <3>2. CASE exists /\ ~RemovalWindow
        <4>1. RestoreProgress
          BY <2>4, <3>2 DEF IInv, Safe, Restoring
        <4>2. progress.phase \in Phases \cup {"none"}
          BY DEF IInv, TypeInv, TypeOK
        <4> QED
          BY <4>1, <4>2 DEF RestoreProgress, Clearing, Returning, HeldAll, Phases
      <3>3. CASE ~exists
        BY <2>1, <2>4, <3>3 DEF IInv, Safe, Restoring, Settled, WholeOld, WholeNew
      <3> QED
        BY <3>1, <3>2, <3>3
    <2>5. CASE journal = "installed"
      BY <2>5 DEF IInv, Safe, Finished
    <2> QED
      BY <2>2, <2>3, <2>4, <2>5 DEF IInv, TypeInv, TypeOK, Stages, RestoreStages
  <1> QED
    BY <1>1, Invariant, PTL

\* A server runs only on one whole installation, nothing unfinished or held.
THEOREM OneInstallation ==
  ASSUME Assumed
  PROVE  Spec => []RunsOnOneInstallation
  <1>1. IInv => RunsOnOneInstallation
    BY DEF IInv, Safe, Control, Idle, Settled, NothingHeld, RunsOnOneInstallation, Present
  <1> QED
    BY <1>1, Invariant, PTL

\* The steps that change what is live work on the uncommitted reset.
LEMMA OnlyTheUncommittedChanges == IInv /\ Next /\ Committed => live' = live
  <1> SUFFICES ASSUME IInv, Next, Committed PROVE live' = live
    OBVIOUS
  <1>1. pc \in {"down", "boot", "ready", "activated", "purge", "complete", "running"}
    BY DEF IInv, Safe, Finished
  <1>2. CASE Recovery
    BY <1>2 DEF Recovery, Boot, RecoverNothing, RecoverWithoutQuarantine, RecoverQuarantine,
                Complete, disk
  <1>3. CASE Reset
    BY <1>1, <1>3 DEF Reset, BeginReset, AdvanceQuarantine, MakeQuarantine, MoveEntry, MoveFails,
                MoveDone, AdvanceInstalling, InstallEntry, Seal, AdvanceValidated, SaveState,
                AdvanceInstalled, Abort, disk
  <1>4. CASE Restore
    BY <1>1, <1>4 DEF Restore, PartialEntry, PartialDone, RestorePrepare, ClearEntry, ClearDone,
                RestoreIntent, RestoreRename, RestoreRecord, RestoreFinish, disk
  <1>5. CASE Purge \/ Launch \/ Refuse \/ Stop \/ Environment
    BY <1>5 DEF Purge, PurgeEntry, PurgeProgress, PurgeDone, Launch, Refuse, Stop, Environment,
                Crash, Upload, disk
  <1> QED
    BY <1>2, <1>3, <1>4, <1>5 DEF Next, Launcher

\* Nothing is ever put back over a committed installation, if no kill falls into
\* the removal window and the candidate has an identity of its own.
THEOREM CommitFinal ==
  ASSUME Assumed
  PROVE  Spec => CommitIsFinal
  <1>1. IInv /\ [Next]_vars => [Committed => live' = live]_vars
    BY OnlyTheUncommittedChanges
  <1> QED
    BY <1>1, Invariant, PTL DEF Spec, CommitIsFinal

(***************************************************************************)
(* The accuracy of restore.json, relative to IInv.                         *)
(***************************************************************************)

\* What is live and old is not held, too.
NeverTwice == \A e \in Entries : live[e] = "old" => held[e] = "none"

\* What restore.json says of the quarantine, in every phase it can be read in.
Recorded ==
    progress.phase # "none" /\ journal # "quarantine" /\ ~Committed =>
        \A e \in progress.entries :
            /\ e \in progress.completed => held[e] = "none"
            /\ e \notin progress.completed /\ e # progress.current => held[e] # "none"

Accuracy == NeverTwice /\ Recorded

LEMMA InitAccuracy == Init => Accuracy
  BY DEF Init, Accuracy, NeverTwice, Recorded, NoProgress

LEMMA NeverTwiceStep == IInv /\ NeverTwice /\ [Next]_vars => NeverTwice'
  <1> SUFFICES ASSUME TypeOK, NeverTwice, [Next]_vars, pc \in {"rename", "record"} => progress.current \in Entries
               PROVE  NeverTwice'
    BY DEF IInv, TypeInv
  <1> USE DEF NeverTwice, TypeOK
  <1>1. CASE UNCHANGED <<live, held>>
    BY <1>1
  <1>2. ASSUME NEW e \in Entries,
               MoveEntry(e) \/ InstallEntry(e) \/ PartialEntry(e) \/ ClearEntry(e) \/ PurgeEntry(e)
        PROVE  NeverTwice'
    BY <1>2 DEF MoveEntry, InstallEntry, PartialEntry, ClearEntry, PurgeEntry
  <1>3. CASE SaveState \/ RestoreRename
    BY <1>3, StateEntryIsOld DEF SaveState, RestoreRename
  <1>4. ASSUME NEW e \in UploadEntries, Upload(e) PROVE NeverTwice'
    BY <1>4, StateIsAControlEntry DEF Upload, Entries
  <1> QED
    BY <1>1, <1>2, <1>3, <1>4
       DEF Next, Launcher, Recovery, Boot, RecoverNothing, RecoverWithoutQuarantine,
           RecoverQuarantine, Complete, Reset, BeginReset, AdvanceQuarantine, MakeQuarantine,
           MoveFails, MoveDone, AdvanceInstalling, Seal, AdvanceValidated, AdvanceInstalled, Abort,
           Restore, PartialDone, RestorePrepare, ClearDone, RestoreIntent, RestoreRecord,
           RestoreFinish, Purge, PurgeProgress, PurgeDone, Launch, Refuse, Stop, Environment, Crash,
           disk, vars

\* Where restore.json matters, it is one of a restore under way.
LEMMA RecordedStage ==
  ASSUME IInv, progress.phase # "none", journal # "quarantine", ~Committed
  PROVE  /\ journal \in RestoreStages /\ RestoreProgress
         /\ pc = "purge" => progress.entries \subseteq progress.completed
  <1>1. progress # NoProgress
    BY DEF NoProgress
  <1>2. journal \in RestoreStages
    BY <1>1 DEF IInv, TypeInv, TypeOK, Safe, Idle, Settled, Finished, Stages, RestoreStages
  <1>3. exists /\ ~RemovalWindow
    BY <1>1, <1>2 DEF IInv, Safe, Restoring, Settled, RemovalWindow
  <1>4. RestoreProgress
    BY <1>2, <1>3 DEF IInv, Safe, Restoring
  <1> QED
    BY <1>2, <1>4 DEF IInv, Safe, Restoring, RestoreProgress, Returning

LEMMA RecordedStep == IInv /\ Recorded /\ [Next]_vars => Recorded'
  <1> SUFFICES ASSUME IInv, Recorded, [Next]_vars,
                      progress'.phase # "none", journal' # "quarantine", ~Committed'
               PROVE  \A e \in progress'.entries :
                         /\ e \in progress'.completed => held'[e] = "none"
                         /\ e \notin progress'.completed /\ e # progress'.current
                              => held'[e] # "none"
    BY DEF Recorded
  <1>0. TypeOK /\ progress \in [phase : Phases \cup {"none"}, entries : SUBSET Entries,
                               completed : SUBSET Entries, current : Entries \cup {NoEntry}]
    BY DEF IInv, TypeInv, TypeOK
  <1>1. ~Committed
    BY OnlyTheUncommittedChanges DEF Committed, vars
  <1>2. ASSUME journal = "quarantine" PROVE FALSE
    <2>1. journal' # journal
      BY <1>2
    <2>2. CASE AdvanceInstalling
      BY <1>2, <2>2 DEF AdvanceInstalling, IInv, Safe, Moving, NoProgress
    <2>3. CASE RecoverWithoutQuarantine
      BY <1>2, <2>3 DEF RecoverWithoutQuarantine, IInv, Safe, Moving, NoProgress
    <2>4. CASE Complete
      BY <2>4 DEF Complete, IInv, Safe, Control, Settled, NoProgress
    <2> QED
      BY <1>2, <2>1, <2>2, <2>3, <2>4
         DEF Next, Launcher, Recovery, Boot, RecoverNothing,
             RecoverQuarantine, Reset, BeginReset, AdvanceQuarantine, MakeQuarantine, MoveEntry,
             MoveFails, MoveDone, InstallEntry, Seal, AdvanceValidated, SaveState,
             AdvanceInstalled, Abort, Restore, PartialEntry, PartialDone, RestorePrepare, ClearEntry,
             ClearDone, RestoreIntent, RestoreRename, RestoreRecord, RestoreFinish, Purge,
             PurgeEntry, PurgeProgress, PurgeDone, Launch, Refuse, Stop, Environment, Crash, Upload,
             IInv, Safe, Control, disk, vars
  <1>3. CASE UNCHANGED <<held, progress>>
    BY <1>1, <1>2, <1>3 DEF Recorded
  <1>4. CASE RestorePrepare
    BY <1>4 DEF RestorePrepare, Present
  <1>5. CASE ClearDone \/ RestoreFinish
    BY <1>0, <1>1, <1>2, <1>5 DEF ClearDone, RestoreFinish, Recorded
  <1>6. ASSUME NEW f \in Entries, RestoreIntent(f)
        PROVE  \A e \in progress'.entries :
                  /\ e \in progress'.completed => held'[e] = "none"
                  /\ e \notin progress'.completed /\ e # progress'.current => held'[e] # "none"
    <2>1. progress.phase # "none"
      BY <1>6 DEF RestoreIntent
    <2>2. progress.current # NoEntry => progress.current = f
      BY <1>0, <1>1, <1>2, <1>6, <2>1, RecordedStage, StateEntryIsOld
         DEF RestoreProgress, Returning, RestoreIntent, First
    <2>3. NoEntry \notin Entries
      BY StateEntryIsOld DEF NoEntry
    <2> QED
      BY <1>0, <1>1, <1>2, <1>6, <2>1, <2>2, <2>3 DEF RestoreIntent, Recorded
  <1>7. CASE RestoreRename
    <2>1. /\ progress' = progress /\ progress.current \notin progress.completed
          /\ \A e \in Entries : e # progress.current => held'[e] = held[e]
      <3>1. progress' = progress /\ progress.current \notin progress.completed
        BY <1>7 DEF RestoreRename, IInv, Safe, Control
      <3>2. \A e \in Entries : e # progress.current => held'[e] = held[e]
        BY <1>0, <1>7 DEF RestoreRename, TypeOK
      <3> QED
        BY <3>1, <3>2
    <2> QED
      BY <1>0, <1>1, <1>2, <2>1 DEF Recorded
  <1>8. CASE RestoreRecord
    BY <1>0, <1>1, <1>2, <1>8 DEF RestoreRecord, Recorded, IInv, Safe, Control
  <1>9. ASSUME NEW f \in Entries, PurgeEntry(f)
        PROVE  \A e \in progress'.entries :
                  /\ e \in progress'.completed => held'[e] = "none"
                  /\ e \notin progress'.completed /\ e # progress'.current => held'[e] # "none"
    <2>1. progress.entries \subseteq progress.completed /\ progress' = progress
      BY <1>1, <1>2, <1>9, RecordedStage DEF PurgeEntry
    <2> QED
      BY <1>0, <1>1, <1>2, <1>9, <2>1 DEF PurgeEntry, Recorded, TypeOK
  <1>10. ASSUME NEW f \in Entries, MoveEntry(f) \/ PartialEntry(f) PROVE FALSE
    BY <1>2, <1>10 DEF MoveEntry, PartialEntry, IInv, Safe, Control
  <1>11. CASE PurgeProgress
    BY <1>11 DEF PurgeProgress, NoProgress
  <1> QED
    BY <1>3, <1>4, <1>5, <1>6, <1>7, <1>8, <1>9, <1>10, <1>11
       DEF Next, Launcher, Recovery, Boot, RecoverNothing, RecoverWithoutQuarantine,
           RecoverQuarantine, Complete, Reset, BeginReset, AdvanceQuarantine, MakeQuarantine,
           MoveFails, MoveDone, AdvanceInstalling, InstallEntry, Seal, AdvanceValidated, SaveState,
           AdvanceInstalled, Abort, Restore, PartialDone, ClearEntry, Purge, PurgeDone, Launch,
           Refuse, Stop, Environment, Crash, Upload, disk, vars

\* What restore.json records of a restore agrees with the live tree and the
\* quarantine after any number of kills, and with files the user uploads and
\* removes in between.
THEOREM RestoreJournalIsAlwaysAccurate ==
  ASSUME Assumed
  PROVE  Spec => []RestoreJournalIsAccurate
  <1>1. IInv /\ Accuracy => RestoreJournalIsAccurate
    <2> SUFFICES ASSUME IInv, Accuracy, progress.phase \in {"targets-cleared", "restored"},
                        journal # "quarantine", ~Committed, NEW e \in progress.entries
                 PROVE  /\ e \in progress.completed
                              => held[e] = "none" /\ (e \in OldEntries => live[e] = "old")
                        /\ e \notin progress.completed /\ e # progress.current
                              => held[e] # "none" /\ live[e] # "old"
      BY DEF RestoreJournalIsAccurate
    <2>1. Returning /\ e \in Entries
      BY RecordedStage DEF RestoreProgress, IInv, TypeInv, TypeOK
    <2>2. e \in progress.completed => held[e] = "none"
      BY DEF Accuracy, Recorded
    <2>3. e \in progress.completed /\ e \in OldEntries => live[e] = "old"
      BY <2>1 DEF Returning
    <2>4. e \notin progress.completed /\ e # progress.current => held[e] # "none"
      BY DEF Accuracy, Recorded
    <2> QED
      BY <2>1, <2>2, <2>3, <2>4 DEF Accuracy, NeverTwice
  <1>2. Init => Accuracy
    BY InitAccuracy
  <1>3. IInv /\ Accuracy /\ [Next]_vars => Accuracy'
    BY NeverTwiceStep, RecordedStep DEF Accuracy
  <1> QED
    BY <1>1, <1>2, <1>3, Invariant, PTL DEF Spec

(***************************************************************************)
(* Refinement of AtomicSwitch.                                              *)
(***************************************************************************)

\* The old state.json makes the two whole installations exclude each other.
LEMMA WholeIsInstalled ==
  ASSUME IInv, WholeOld \/ WholeNew
  PROVE  WholeOld = ~Committed
  BY StateEntryIsOld DEF WholeOld, WholeNew, Committed

\* A step that neither starts nor stops a server, nor commits.
LEMMA QuietStep ==
  ASSUME TypeInv, IInv, IInv', Next, ~Launch, ~Stop, ~SaveState, ~(Complete /\ pc' = "running")
  PROVE  pc # "running" /\ pc' # "running" /\ Committed' = Committed
  <1> USE DEF Committed, TypeInv, TypeOK, IInv, Safe, Contents, Finished
  <1>1. CASE Recovery
    BY <1>1 DEF Recovery, Boot, RecoverNothing, RecoverWithoutQuarantine, RecoverQuarantine,
                Complete, disk
  <1>2. CASE BeginReset \/ AdvanceQuarantine \/ MakeQuarantine \/ MoveFails \/ MoveDone
             \/ AdvanceInstalling \/ Seal \/ AdvanceValidated \/ AdvanceInstalled \/ Abort
    BY <1>2 DEF BeginReset, AdvanceQuarantine, MakeQuarantine, MoveFails, MoveDone,
                AdvanceInstalling, Seal, AdvanceValidated, AdvanceInstalled, Abort, disk
  <1>3. ASSUME NEW e \in Entries, MoveEntry(e) \/ InstallEntry(e) \/ PartialEntry(e)
                                  \/ ClearEntry(e)
        PROVE  pc # "running" /\ pc' # "running" /\ Committed' = Committed
    <2>1. pc # "running" /\ pc' # "running"
      BY <1>3 DEF MoveEntry, InstallEntry, PartialEntry, ClearEntry
    <2>2. ~Committed
      BY <1>3 DEF MoveEntry, InstallEntry, PartialEntry, ClearEntry
    <2>3. held[StateEntry] # "new"
      BY StateEntryIsOld
    <2>4. ~Committed'
      BY <1>3, <2>2, <2>3, StateEntryIsOld DEF MoveEntry, InstallEntry, PartialEntry, ClearEntry
    <2> QED
      BY <2>1, <2>2, <2>4
  <1>4. CASE RestoreRename
    <2>1. pc # "running" /\ pc' # "running" /\ ~Committed
      BY <1>4 DEF RestoreRename
    <2>2. ~Committed'
      <3>1. progress.current \in Entries
        BY <1>4 DEF RestoreRename
      <3>2. held[StateEntry] # "new"
        BY StateEntryIsOld
      <3> QED
        BY <1>4, <2>1, <3>1, <3>2, StateEntryIsOld DEF RestoreRename
    <2> QED
      BY <2>1, <2>2
  <1>5. CASE PartialDone \/ RestorePrepare \/ ClearDone \/ RestoreRecord \/ RestoreFinish
             \/ \E e \in Entries : RestoreIntent(e)
    BY <1>5 DEF PartialDone, RestorePrepare, ClearDone, RestoreRecord, RestoreFinish,
                RestoreIntent, disk
  <1>6. CASE Purge \/ Refuse \/ Crash
    BY <1>6 DEF Purge, PurgeEntry, PurgeProgress, PurgeDone, Refuse, Crash, disk
  <1>7. ASSUME NEW e \in UploadEntries, Upload(e)
        PROVE  pc # "running" /\ pc' # "running" /\ Committed' = Committed
    BY <1>7, StateIsAControlEntry, StateEntryIsOld DEF Upload
  <1> QED
    BY <1>1, <1>2, <1>3, <1>4, <1>5, <1>6, <1>7
       DEF Next, Launcher, Environment, Reset, Restore

\* What is served whenever a server runs.
ServedRight == Serving = IF Committed THEN "new" ELSE "old"

LEMMA ServesInstalled == IInv /\ pc = "running" => ServedRight
  <1> SUFFICES ASSUME IInv, pc = "running" PROVE ServedRight
    OBVIOUS
  <1>1. WholeOld \/ WholeNew
    BY DEF IInv, Safe, Control, Idle, Settled
  <1> QED
    BY <1>1, WholeIsInstalled DEF Serving, WholeNew, ServedRight

LEMMA ServesInstalledNext == (IInv /\ pc = "running" => ServedRight)'
  BY ServesInstalled, PTL

LEMMA StepImplements == IInv /\ IInv' /\ [Next]_vars => [Abstract!Next]_(Abstract!vars)
  <1> SUFFICES ASSUME IInv, IInv', [Next]_vars PROVE [Abstract!Next]_(Abstract!vars)
    OBVIOUS
  <1> USE DEF Abstract!Next, Abstract!vars, Abstract!Serve, Abstract!Stop, Abstract!Switch
  <1>1. pc # "running" => Serving = "none"
    BY DEF Serving
  <1>2. pc' # "running" => Serving' = "none"
    BY DEF Serving
  <1>3. pc = "running" => Serving = IF Committed THEN "new" ELSE "old"
    BY ServesInstalled DEF ServedRight
  <1>4. pc' = "running" => Serving' = IF Committed' THEN "new" ELSE "old"
    BY ServesInstalledNext DEF ServedRight
  <1>5. CASE Launch
    <2>1. pc = "ready" /\ pc' = "running" /\ Committed' = Committed
      BY <1>5 DEF Launch, disk, Committed
    <2> QED
      BY <1>1, <1>4, <2>1
  <1>6. CASE Stop
    <2>1. pc = "running" /\ pc' = "down" /\ Committed' = Committed
      BY <1>6 DEF Stop, disk, Committed
    <2> QED
      BY <1>2, <1>3, <2>1
  <1>7. CASE SaveState
    <2>1. pc = "activate" /\ pc' = "activated" /\ Committed'
      BY <1>7, StateEntryIsOld DEF SaveState, Committed, IInv, TypeInv, TypeOK
    <2>2. ~Committed
      BY <2>1 DEF IInv, Safe, Finished
    <2> QED
      BY <1>1, <1>2, <2>1, <2>2
  <1>8. CASE Complete /\ pc' = "running"
    <2>1. pc = "complete" /\ Committed' = Committed
      BY <1>8 DEF Complete, Committed
    <2> QED
      BY <1>1, <1>4, <1>8, <2>1
  <1>9. CASE UNCHANGED vars
    <2>1. UNCHANGED <<pc, Committed, Serving>>
      BY <1>9 DEF vars, Committed, Serving, WholeOld, WholeNew
    <2> QED
      BY <2>1
  <1>10. CASE Next /\ ~Launch /\ ~Stop /\ ~SaveState /\ ~(Complete /\ pc' = "running")
    <2>1. pc # "running" /\ pc' # "running" /\ Committed' = Committed
      BY <1>10, QuietStep DEF IInv
    <2> QED
      BY <1>1, <1>2, <2>1
  <1> QED
    BY <1>5, <1>6, <1>7, <1>8, <1>9, <1>10

\* The mechanism implements an atomic reset: one switch, never undone, and
\* every server finds exactly the installation that is installed, under the
\* same two assumptions.
THEOREM ResetIsAtomic ==
  ASSUME Assumed
  PROVE  Spec => ImplementsAtomicSwitch
  <1>1. Init => Abstract!Init
    BY StateEntryIsOld DEF Init, Abstract!Init, Committed, Serving
  <1>2. IInv /\ IInv' /\ [Next]_vars => [Abstract!Next]_(Abstract!vars)
    BY StepImplements
  <1> QED
    BY <1>1, <1>2, Invariant, PTL DEF Spec, ImplementsAtomicSwitch, Abstract!Spec

===============================================================================
