---------------------------- MODULE LifecycleProofs ----------------------------
(***************************************************************************)
(* Proofs about Lifecycle: a server runs only on a whole installation, an  *)
(* installation is never forgotten, and a reset is one the user confirmed, *)
(* once, for what it moves away and for what it installs.                  *)
(***************************************************************************)
EXTENDS Lifecycle, TLAPS

(***************************************************************************)
(* The inductive invariant.                                                *)
(***************************************************************************)

\* What operation.json says of state.json, at every moment.
JournalIsSound ==
    /\ journal.kind = "none" <=> journal = NoJournal
    /\ journal.stage = "none" <=> journal = NoJournal
    /\ journal.stage \in {"prepared", "quarantine", "installing"} => journal.id = None
    /\ journal.stage \in {"validating", "validated", "installed"} => journal.id # None
    /\ journal.stage = "tainted" => journal.kind = "install" /\ ~mode.staged /\ journal.prev # None
    /\ journal.kind = "install" =>
         /\ journal.nonce = 0 /\ journal.stage # "quarantine"
         /\ journal.stage \in {"prepared", "installing", "validating", "tainted"} =>
              state = journal.prev
         /\ journal.stage = "validated" => state \in {journal.prev, journal.id}

\* A quarantine belongs to the reset of operation.json, and state.json beside
\* it is that of a reset past its commit point.
QuarantineIsSound ==
    /\ ~quar.held => quar = NoQuarantine
    /\ quar.held =>
         /\ journal.kind = "reset" /\ journal.stage \notin {"none", "prepared", "tainted"}
         /\ quar.state # None /\ pending = NoPending
         /\ state # None => journal.stage \in {"validated", "installed"} /\ state = journal.id

NoncesAreSound ==
    /\ spent \subseteq 0 .. issued
    /\ pending.nonce <= issued /\ quar.pending.nonce <= issued /\ journal.nonce <= issued
    /\ pending.nonce # 0 => pending.nonce \notin spent
    /\ quar.held /\ state = None /\ quar.pending.nonce # 0 => quar.pending.nonce \notin spent

\* The journal of an in-place update that was cut short before its commit.
CutShort ==
    /\ journal.kind = "install" /\ journal.prev = state
    /\ \/ journal.stage = "tainted"
       \/ journal.stage \in {"installing", "validating", "validated"} /\ state # journal.id

\* What is installed is whole but for what CutShort guards, until a reset that
\* cannot fail takes it away.
WholeOrGuarded ==
    GuardHolds =>
        /\ state # None /\ state \notin complete =>
             /\ ~mode.staged
             /\ CutShort \/ (tainted /\ pc \in {"reset", "begun", "quarantine"})
        /\ quar.held /\ state = None /\ quar.state \notin quar.complete =>
             /\ ~mode.staged
             /\ tainted /\ pc \in {"moved", "install", "installing", "seal", "validate", "activate"}

\* Where the launcher is, what the journal says, and where the installation is.
Confirmed == confirm = pending.nonce /\ pending.src = state /\ pending.tgt = want

Planning ==
    /\ pc # "down" => want # None
    /\ pc \in {"recover", "recovered"} => ~tainted
    /\ pc = "recovered" => ~quar.held /\ ~Unrecoverable
    /\ pc \in {"plan", "auth"} =>
         ~quar.held /\ IF tainted THEN journal.stage = "tainted" ELSE journal = NoJournal
    /\ pc = "auth" => state # None
    /\ pc \in {"launch", "running"} => journal = NoJournal /\ state # None

Beginning ==
    /\ pc \in {"begin", "reset"} => journal = NoJournal
    /\ pc = "begun" => journal.kind = "reset" /\ journal.stage = "prepared"
    /\ pc = "quarantine" => journal.kind = "reset" /\ journal.stage = "quarantine"
    /\ pc \in {"reset", "begun", "quarantine"} => ~quar.held /\ state # None /\ Confirmed
    /\ pc = "started" => journal.kind = "install" /\ journal.stage = "prepared"

\* Before its commit a reset has nothing installed.
Uncommitted == IF journal.kind = "reset" THEN quar.held /\ state = None
                                         ELSE journal.kind = "install"

Installing ==
    /\ pc = "moved" => journal.kind = "reset" /\ journal.stage = "quarantine"
    /\ pc \in {"install", "installing", "seal"} => journal.stage = "installing"
    /\ pc = "validate" => journal.stage = "validating" /\ journal.id = want
    /\ pc = "activate" => journal.stage = "validated" /\ journal.id = want
    /\ pc \in {"moved", "install", "installing", "seal", "validate", "activate"} => Uncommitted
    /\ pc \in {"seal", "validate", "activate", "activated"} => want \in complete

Ending ==
    /\ pc = "activated" => journal.stage = "validated" /\ journal.id = want /\ state = want
    /\ pc = "purge" => journal.kind = "reset" /\ journal.stage = "installed" /\ state # None
    /\ pc = "finish" => journal.stage = "installed" /\ ~quar.held /\ state # None
    /\ pc = "restore" => journal.kind = "reset" /\ quar.held /\ state = None
    /\ pc = "restored" => journal.kind = "reset" /\ ~quar.held

Control == Planning /\ Beginning /\ Installing /\ Ending

Inv == /\ TypeOK /\ JournalIsSound /\ QuarantineIsSound /\ NoncesAreSound
       /\ WholeOrGuarded /\ Control

------------------------------------------------------------------------------

LEMMA InitEstablishesInv == Init => Inv
<1> SUFFICES ASSUME Init PROVE Inv
  OBVIOUS
<1> USE DEF Init, NoPending, NoJournal, NoQuarantine
<1>1. TypeOK
  <2>1. crashes \in 0 .. MaxCrashes /\ issued \in 0 .. MaxNonces /\ 0 \in 0 .. MaxNonces
    BY LifecycleModes
  <2> QED BY <2>1 DEF TypeOK, Pendings, Stages, Steps
<1>2. JournalIsSound /\ QuarantineIsSound /\ NoncesAreSound /\ WholeOrGuarded
  BY DEF JournalIsSound, QuarantineIsSound, NoncesAreSound, WholeOrGuarded
<1>3. Control
  BY DEF Control, Planning, Beginning, Installing, Ending
<1> QED BY <1>1, <1>2, <1>3 DEF Inv

(***************************************************************************)
(* Steps that leave the disk alone.                                        *)
(***************************************************************************)

\* The tree stays whole or guarded, unless it is that of a tainted
\* installation on its way out and that way may be left.
LEMMA WholeStays ==
    ASSUME Inv, UNCHANGED <<disk, mode>>, ResetsTaint => mode.resetFails
    PROVE  WholeOrGuarded'
BY DEF Inv, WholeOrGuarded, GuardHolds, ResetsTaint, CutShort, disk

LEMMA DiskUnchanged ==
    ASSUME Inv, UNCHANGED <<disk, issued, spent, mode>>, ResetsTaint => mode.resetFails,
           want' \in Installs \cup {None}, confirm' \in {0, Request} \cup 1 .. MaxNonces,
           tainted' \in BOOLEAN, pc' \in Steps, crashes' \in 0 .. MaxCrashes, Control'
    PROVE  Inv'
<1>1. TypeOK'
  BY DEF Inv, TypeOK, disk
<1>2. JournalIsSound' /\ QuarantineIsSound' /\ NoncesAreSound'
  BY DEF Inv, JournalIsSound, QuarantineIsSound, NoncesAreSound, disk
<1>3. WholeOrGuarded'
  BY WholeStays
<1> QED BY <1>1, <1>2, <1>3 DEF Inv

\* The same with the startup variables unchanged, too.
LEMMA JustGoes ==
    ASSUME Inv, NEW step \in Steps, Goto(step), UNCHANGED disk,
           ResetsTaint => mode.resetFails, Control'
    PROVE  Inv'
BY DiskUnchanged DEF Goto, local, Inv, TypeOK

LEMMA BootKeepsInv ==
    ASSUME Inv, NEW w \in Installs, NEW c \in {0, Request} \cup 1 .. issued, Boot(w, c) PROVE Inv'
<1>1. w # None /\ c \in {0, Request} \cup 1 .. MaxNonces
  BY InstallsAreIDs, LifecycleModes DEF Inv, TypeOK
<1>2. Control'
  BY <1>1 DEF Boot, Control, Planning, Beginning, Installing, Ending
<1> QED BY <1>1, <1>2, DiskUnchanged DEF Boot, ResetsTaint, Inv, TypeOK, Steps

LEMMA CrashKeepsInv == ASSUME Inv, Crash PROVE Inv'
<1>1. Control'
  BY DEF Crash, Control, Planning, Beginning, Installing, Ending
<1>2. crashes' \in 0 .. MaxCrashes
  BY LifecycleModes DEF Crash, Inv, TypeOK
<1> QED BY <1>1, <1>2, DiskUnchanged DEF Crash, local, Inv, TypeOK, Steps

LEMMA ToDown == ASSUME Goto("down") PROVE Control'
BY DEF Goto, Control, Planning, Beginning, Installing, Ending

\* The recovery of boots that touches no file, and the plan.
LEMMA PassingKeepsInv ==
    ASSUME Inv, PassTaint \/ RefuseRecovery \/ RecoverNothing \/ RecoverInstall PROVE Inv'
<1> USE DEF Steps, disk, local
<1>0. TypeOK /\ Control /\ JournalIsSound /\ QuarantineIsSound
  BY DEF Inv
<1>1. CASE PassTaint
  <2>1. ~quar.held /\ Control'
    BY <1>0, <1>1 DEF PassTaint, JournalIsSound, QuarantineIsSound, Control, Planning, Beginning,
                      Installing, Ending
  <2> QED BY <1>0, <1>1, <2>1, DiskUnchanged DEF PassTaint, ResetsTaint, TypeOK
<1>2. CASE RefuseRecovery
  BY <1>2, ToDown, JustGoes DEF RefuseRecovery, ResetsTaint
<1>3. CASE RecoverNothing
  <2>1. ~quar.held /\ Control'
    BY <1>0, <1>3 DEF RecoverNothing, Goto, JournalIsSound, QuarantineIsSound, Control, Planning,
                      Beginning, Installing, Ending
  <2> QED BY <1>3, <2>1, JustGoes DEF RecoverNothing, ResetsTaint
<1>4. CASE RecoverInstall
  <2>1. ~quar.held
    BY <1>0, <1>4 DEF RecoverInstall, HasQuarantine, JournalIsSound, QuarantineIsSound
  <2>2. Control'
    BY <1>0, <1>4, <2>1 DEF RecoverInstall, Goto, Unrecoverable, HasQuarantine, Control, Planning,
                            Beginning, Installing, Ending
  <2> QED BY <1>4, <2>2, JustGoes DEF RecoverInstall, ResetsTaint
<1> QED BY <1>1, <1>2, <1>3, <1>4

LEMMA PlanningKeepsInv ==
    ASSUME Inv, PlanRun \/ PrepareFails \/ PlanUpdate \/ PlanReset \/ RequestFails \/ RejectReset
    PROVE  Inv'
<1> USE DEF Steps, disk, local
<1>0. TypeOK /\ Control /\ JournalIsSound
  BY DEF Inv
<1>1. CASE PlanRun
  <2>1. Control'
    BY <1>0, <1>1 DEF PlanRun, Goto, Control, Planning, Beginning, Installing, Ending
  <2> QED BY <1>1, <2>1, JustGoes DEF PlanRun, ResetsTaint
<1>2. CASE PrepareFails
  <2>1. CASE Goto("launch") /\ state # None /\ ~tainted
    <3>1. Control'
      BY <1>0, <1>2, <2>1 DEF PrepareFails, Goto, Control, Planning, Beginning, Installing, Ending
    <3> QED BY <1>2, <2>1, <3>1, JustGoes DEF PrepareFails, ResetsTaint
  <2>2. CASE Goto("down")
    BY <1>2, <2>2, ToDown, JustGoes DEF PrepareFails, ResetsTaint
  <2> QED BY <1>2, <2>1, <2>2 DEF PrepareFails
<1>3. CASE PlanUpdate
  <2>1. Control'
    BY <1>0, <1>3 DEF PlanUpdate, NeedsReset, Goto, Control, Planning, Beginning, Installing, Ending
  <2> QED BY <1>3, <2>1, JustGoes DEF PlanUpdate, ResetsTaint
<1>4. CASE PlanReset
  <2>1. state # None
    BY <1>0, <1>4 DEF PlanReset, NeedsReset, Control, Planning, JournalIsSound
  <2>2. Control'
    BY <1>0, <1>4, <2>1 DEF PlanReset, Goto, Control, Planning, Beginning, Installing, Ending
  <2> QED BY <1>4, <2>2, JustGoes DEF PlanReset, ResetsTaint
<1>5. CASE RequestFails \/ RejectReset
  BY <1>5, ToDown, JustGoes DEF RequestFails, RejectReset, ResetsTaint
<1> QED BY <1>1, <1>2, <1>3, <1>4, <1>5

\* Failures that leave the disk to the next boot or to the restore.
LEMMA FailResetKeepsInv ==
    ASSUME Inv, FailReset, MayFail, journal.kind = "reset",
           pc \in {"moved", "installing", "seal", "validate", "activate"}
    PROVE  Inv'
<1>1. Control'
  BY DEF FailReset, Goto, local, disk, Inv, Control, Planning, Beginning, Installing, Ending,
         Uncommitted
<1> QED BY <1>1, JustGoes DEF FailReset, MayFail, ResetsTaint, Steps

LEMMA StopsKeepInv ==
    ASSUME Inv, MoveFails \/ (ActivateFails /\ journal.kind # "reset") \/ Stop \/ Launch
    PROVE  Inv'
<1>1. CASE Goto("down")
  BY <1>1, ToDown, JustGoes DEF MoveFails, ActivateFails, Stop, Launch, MayFail, ResetsTaint, Steps
<1>2. CASE Launch /\ Goto("running")
  <2>1. Control'
    BY <1>2 DEF Launch, Goto, local, disk, Inv, Control, Planning, Beginning, Installing, Ending
  <2> QED BY <1>2, <2>1, JustGoes DEF Launch, ResetsTaint, Steps
<1> QED BY <1>1, <1>2 DEF MoveFails, ActivateFails, Stop, Launch

(***************************************************************************)
(* The end of an operation.                                                *)
(***************************************************************************)

\* operation.json may go when there is no quarantine and the tree is whole.
LEMMA CompleteKeepsInv ==
    ASSUME Inv, Complete, NEW step \in Steps, Goto(step), ~quar.held, Control',
           GuardHolds /\ state # None /\ state \notin complete =>
               ~mode.staged /\ tainted /\ step \in {"reset", "begun", "quarantine"}
    PROVE  Inv'
<1> USE LifecycleModes DEF Complete, Goto, local, NoJournal, Inv
<1>1. TypeOK'
  BY DEF TypeOK, Stages
<1>2. JournalIsSound' /\ QuarantineIsSound' /\ NoncesAreSound'
  BY DEF JournalIsSound, QuarantineIsSound, NoncesAreSound, TypeOK
<1>3. WholeOrGuarded'
  BY DEF WholeOrGuarded, GuardHolds
<1> QED BY <1>1, <1>2, <1>3

LEMMA RecoveryDoneKeepsInv == ASSUME Inv, RecoveryDone PROVE Inv'
<1> USE DEF RecoveryDone
<1>1. ~quar.held /\ ~tainted /\ ~Unrecoverable
  BY DEF Inv, Control, Planning
<1>2. ~CutShort \/ mode.staged
  BY <1>1 DEF Unrecoverable, HasQuarantine, CutShort
<1>3. GuardHolds /\ state # None => state \in complete
  BY <1>2 DEF Inv, WholeOrGuarded
<1>4. Control'
  BY <1>1 DEF Complete, Goto, local, Inv, Control, Planning, Beginning, Installing, Ending
<1> QED BY <1>1, <1>3, <1>4, CompleteKeepsInv DEF Steps

LEMMA AcceptKeepsInv == ASSUME Inv, AcceptReset PROVE Inv'
<1> USE DEF AcceptReset
<1>0. ~quar.held /\ state # None /\ Confirmed /\ want # None
  BY DEF Inv, Control, Planning, Authorizes, Confirmed
<1>1. CASE journal = NoJournal /\ Goto("reset") /\ UNCHANGED disk
  <2>1. Control'
    BY <1>0, <1>1 DEF Goto, local, disk, Confirmed, Control, Planning, Beginning, Installing, Ending
  <2> QED BY <1>1, <2>1, JustGoes DEF ResetsTaint, Steps
<1>2. CASE journal.stage = "tainted" /\ Goto("reset") /\ Complete
  <2>1. Control'
    BY <1>0, <1>2 DEF Complete, Goto, local, Confirmed, Control, Planning, Beginning, Installing,
                      Ending
  <2>2. tainted /\ ~mode.staged
    BY <1>2 DEF Inv, Control, Planning, JournalIsSound
  <2> QED BY <1>0, <1>2, <2>1, <2>2, CompleteKeepsInv DEF Steps
<1> QED BY <1>1, <1>2

\* A failed update that is not reset: fallback, or taint.
LEMMA FallBackKeepsInv ==
    ASSUME Inv, FallBack, journal.kind = "install", pc \in {"installing", "seal", "validate"},
           mode.staged \/ mode.sealFails \/ journal.prev = None
    PROVE  Inv'
<1> USE DEF FallBack
<1>1. ~quar.held /\ state = journal.prev
  BY DEF Inv, QuarantineIsSound, JournalIsSound, Control, Installing
<1>2. GuardHolds /\ state # None => state \in complete
  BY <1>1 DEF Inv, WholeOrGuarded, GuardHolds
<1>3. CASE Goto("launch") /\ state # None
  <2>1. Control'
    BY <1>3 DEF Complete, Goto, local, Inv, Control, Planning, Beginning, Installing, Ending
  <2> QED BY <1>1, <1>2, <1>3, <2>1, CompleteKeepsInv DEF Steps
<1>4. CASE Goto("down")
  BY <1>1, <1>2, <1>4, ToDown, CompleteKeepsInv DEF Steps
<1> QED BY <1>1, <1>3, <1>4

LEMMA TaintKeepsInv ==
    ASSUME Inv, Taint, journal.kind = "install", pc \in {"installing", "validate"} PROVE Inv'
<1> USE DEF Taint, Advance, Goto, local
<1>0. TypeOK /\ JournalIsSound /\ Control /\ ~quar.held /\ state = journal.prev
  BY DEF Inv, QuarantineIsSound, JournalIsSound, Control, Installing
<1>1. TypeOK'
  BY <1>0 DEF TypeOK, Stages, Steps
<1>2. journal' = [journal EXCEPT !.stage = "tainted"] /\ journal'.stage = "tainted"
      /\ journal'.kind = "install" /\ journal'.prev = state /\ journal'.nonce = journal.nonce
  BY <1>0 DEF TypeOK
<1>3. JournalIsSound' /\ QuarantineIsSound' /\ NoncesAreSound'
  BY <1>0, <1>2 DEF Inv, JournalIsSound, QuarantineIsSound, NoncesAreSound, NoJournal
<1>4. WholeOrGuarded'
  BY <1>0, <1>2 DEF WholeOrGuarded, CutShort
<1> QED BY <1>1, <1>3, <1>4, ToDown DEF Inv

LEMMA CandidateFailureKeepsInv ==
    ASSUME Inv, InstallFails \/ SealFails \/ ValidateFails \/ ActivateFails PROVE Inv'
<1>0. JournalIsSound /\ Control
  BY DEF Inv
<1>1. CASE journal.kind = "reset"
  BY <1>1, FailResetKeepsInv DEF InstallFails, SealFails, ValidateFails, ActivateFails
<1>2. CASE journal.kind # "reset"
  <2>1. CASE ActivateFails
    BY <1>2, <2>1, StopsKeepInv
  <2>2. CASE InstallFails \/ ValidateFails
    <3>1. pc \in {"installing", "validate"} /\ FailUpdate /\ journal.kind = "install"
      BY <1>0, <1>2, <2>2 DEF InstallFails, ValidateFails, Control, Installing, Uncommitted
    <3> QED BY <3>1, FallBackKeepsInv, TaintKeepsInv DEF FailUpdate
  <2>3. CASE SealFails
    <3>1. pc = "seal" /\ FallBack /\ journal.kind = "install" /\ (mode.staged \/ mode.sealFails)
      BY <1>0, <1>2, <2>3 DEF SealFails, Control, Installing, Uncommitted
    <3> QED BY <3>1, FallBackKeepsInv
  <2> QED BY <2>1, <2>2, <2>3
<1> QED BY <1>1, <1>2

(***************************************************************************)
(* The confirmation of a reset.                                            *)
(***************************************************************************)

LEMMA RequestKeepsInv == ASSUME Inv, RequestReset PROVE Inv'
<1> USE LifecycleModes DEF RequestReset
<1>0. TypeOK /\ Control /\ ~quar.held
  BY DEF Inv, Control, Planning
<1>1. TypeOK'
  BY <1>0 DEF TypeOK, Pendings, Steps, local
<1>2. JournalIsSound' /\ QuarantineIsSound'
  BY <1>0 DEF Inv, JournalIsSound, QuarantineIsSound, NoQuarantine
<1>3. NoncesAreSound'
  BY <1>0 DEF Inv, NoncesAreSound, TypeOK, Pendings
<1>4. WholeOrGuarded'
  BY <1>0 DEF Inv, WholeOrGuarded, GuardHolds, CutShort, local
<1>5. Control'
  BY <1>0 DEF Control, Planning, Beginning, Installing, Ending
<1> QED BY <1>1, <1>2, <1>3, <1>4, <1>5 DEF Inv

LEMMA ExpireKeepsInv == ASSUME Inv, Expire PROVE Inv'
<1> USE LifecycleModes DEF Expire, NoPending
<1>0. TypeOK /\ Control
  BY DEF Inv
<1>1. TypeOK'
  BY <1>0 DEF TypeOK, Pendings, local
<1>2. JournalIsSound' /\ QuarantineIsSound' /\ NoncesAreSound'
  BY <1>0 DEF Inv, JournalIsSound, QuarantineIsSound, NoncesAreSound, TypeOK
<1>3. WholeOrGuarded'
  BY <1>0 DEF Inv, WholeOrGuarded, GuardHolds, CutShort, local
<1>4. Control'
  BY <1>0 DEF Control, Planning, Beginning, Installing, Ending
<1> QED BY <1>1, <1>2, <1>3, <1>4 DEF Inv

(***************************************************************************)
(* The transaction.                                                        *)
(***************************************************************************)

LEMMA BeginKeepsInv == ASSUME Inv, BeginInstall \/ BeginReset PROVE Inv'
<1> USE DEF BeginInstall, BeginReset, BeginOperation, Goto, local
<1>0. TypeOK /\ Control /\ ~quar.held /\ journal = NoJournal
  BY DEF Inv, QuarantineIsSound, NoJournal
<1>1. /\ journal'.stage = "prepared" /\ journal'.id = None /\ journal'.prev = state
      /\ journal'.kind = IF pc = "begin" THEN "install" ELSE "reset"
      /\ journal'.nonce = IF pc = "begin" THEN 0 ELSE pending.nonce
  OBVIOUS
<1>2. TypeOK'
  <2>1. pending.nonce \in 0 .. MaxNonces /\ 0 \in 0 .. MaxNonces
    BY <1>0, LifecycleModes DEF TypeOK, Pendings
  <2>2. pc' \in Steps
    BY DEF Steps
  <2>3. journal' \in [kind : {"none", "install", "reset"}, stage : Stages \cup {"none"},
                      id : Installs \cup {None}, prev : Installs \cup {None},
                      nonce : 0 .. MaxNonces]
    BY <1>0, <2>1 DEF TypeOK, Stages
  <2> QED BY <1>0, <2>2, <2>3 DEF TypeOK
<1>3. JournalIsSound' /\ QuarantineIsSound' /\ NoncesAreSound'
  BY <1>0, <1>1 DEF Inv, TypeOK, Pendings, JournalIsSound, QuarantineIsSound, NoncesAreSound, NoJournal
<1>4. WholeOrGuarded'
  BY <1>0 DEF Inv, WholeOrGuarded, GuardHolds, CutShort, NoJournal
<1>5. Control'
  BY <1>0, <1>1 DEF Control, Planning, Beginning, Installing, Ending, Confirmed
<1> QED BY <1>2, <1>3, <1>4, <1>5 DEF Inv

\* A stage of operation.json that names no candidate yet.
LEMMA EarlyAdvanceKeepsInv ==
    ASSUME Inv, AdvanceInstalling \/ AdvanceQuarantine PROVE Inv'
<1> USE DEF AdvanceInstalling, AdvanceQuarantine, Advance, Goto, local
<1>0. /\ TypeOK /\ Control /\ JournalIsSound
      /\ journal.stage \in {"prepared", "quarantine"} /\ journal.id = None
      /\ journal.kind = IF pc = "started" THEN "install" ELSE "reset"
  BY DEF Inv, JournalIsSound, Control, Beginning, Installing
<1>1. /\ journal'.stage = IF pc = "begun" THEN "quarantine" ELSE "installing"
      /\ journal'.kind = journal.kind /\ journal'.id = None
      /\ journal'.prev = journal.prev /\ journal'.nonce = journal.nonce
  BY <1>0 DEF TypeOK
<1>2. TypeOK'
  BY <1>0 DEF TypeOK, Stages, Steps
<1>3. JournalIsSound' /\ QuarantineIsSound' /\ NoncesAreSound'
  BY <1>0, <1>1 DEF Inv, JournalIsSound, QuarantineIsSound, NoncesAreSound, NoJournal
<1>4. WholeOrGuarded'
  BY <1>0, <1>1 DEF Inv, WholeOrGuarded, GuardHolds, CutShort
<1>5. Control'
  BY <1>0, <1>1 DEF Inv, QuarantineIsSound, Control, Planning, Beginning, Installing, Ending,
                    Confirmed, Uncommitted
<1> QED BY <1>2, <1>3, <1>4, <1>5 DEF Inv

LEMMA MoveKeepsInv == ASSUME Inv, MoveIntoQuarantine PROVE Inv'
<1> USE DEF MoveIntoQuarantine, Goto, local, NoPending
<1>0. /\ TypeOK /\ Control /\ state # None
      /\ journal.kind = "reset" /\ journal.stage = "quarantine"
  BY DEF Inv, Control, Beginning
<1>1. TypeOK'
  BY <1>0, LifecycleModes DEF TypeOK, Pendings, Steps
<1>2. JournalIsSound' /\ QuarantineIsSound' /\ NoncesAreSound'
  BY <1>0 DEF Inv, TypeOK, JournalIsSound, QuarantineIsSound, NoncesAreSound
<1>3. WholeOrGuarded'
  BY <1>0 DEF Inv, WholeOrGuarded, GuardHolds, CutShort
<1>4. Control'
  BY <1>0 DEF Control, Planning, Beginning, Installing, Ending, Uncommitted
<1> QED BY <1>1, <1>2, <1>3, <1>4 DEF Inv

LEMMA InstallKeepsInv == ASSUME Inv, InstallStarts \/ InstallDone PROVE Inv'
<1> USE DEF InstallStarts, InstallDone, Goto, local
<1>0. /\ TypeOK /\ Control /\ JournalIsSound /\ WholeOrGuarded /\ want # None
      /\ journal.stage = "installing" /\ journal.id = None /\ Uncommitted
  BY DEF Inv, JournalIsSound, Control, Planning, Installing
<1>1. TypeOK'
  BY <1>0 DEF TypeOK, Steps
<1>2. JournalIsSound' /\ QuarantineIsSound' /\ NoncesAreSound'
  BY <1>0 DEF Inv, JournalIsSound, QuarantineIsSound, NoncesAreSound
<1>3. WholeOrGuarded'
  BY <1>0 DEF JournalIsSound, WholeOrGuarded, GuardHolds, CutShort, Uncommitted
<1>4. Control'
  BY <1>0 DEF Control, Planning, Beginning, Installing, Ending, Uncommitted
<1> QED BY <1>1, <1>2, <1>3, <1>4 DEF Inv

\* A stage that names the candidate.
LEMMA LateAdvanceKeepsInv ==
    ASSUME Inv, Seal \/ AdvanceValidated \/ AdvanceInstalled PROVE Inv'
<1> USE DEF Seal, AdvanceValidated, AdvanceInstalled, Advance, Goto, local
<1>0. /\ TypeOK /\ Control /\ JournalIsSound /\ QuarantineIsSound /\ WholeOrGuarded
      /\ want # None /\ want \in complete
      /\ journal.stage = IF pc = "seal" THEN "installing"
                         ELSE IF pc = "validate" THEN "validating" ELSE "validated"
      /\ pc # "seal" => journal.id = want
      /\ IF pc = "activated" THEN state = want ELSE Uncommitted
  BY DEF Inv, Control, Planning, Installing, Ending
<1>1. /\ journal'.stage = IF pc = "seal" THEN "validating"
                          ELSE IF pc = "validate" THEN "validated" ELSE "installed"
      /\ journal'.id = want /\ journal'.kind = journal.kind
      /\ journal'.prev = journal.prev /\ journal'.nonce = journal.nonce
  BY <1>0 DEF TypeOK
<1>2. TypeOK'
  BY <1>0 DEF TypeOK, Stages, Steps
<1>3. JournalIsSound' /\ NoncesAreSound'
  BY <1>0, <1>1 DEF Inv, JournalIsSound, NoncesAreSound, NoJournal, Uncommitted
<1>4. QuarantineIsSound'
  BY <1>0, <1>1 DEF QuarantineIsSound, Uncommitted
<1>5. WholeOrGuarded'
  BY <1>0, <1>1 DEF JournalIsSound, WholeOrGuarded, GuardHolds, CutShort, Uncommitted
<1>6. Control'
  BY <1>0, <1>1 DEF Control, Planning, Beginning, Installing, Ending, Uncommitted, QuarantineIsSound
<1> QED BY <1>2, <1>3, <1>4, <1>5, <1>6 DEF Inv

LEMMA SaveKeepsInv == ASSUME Inv, SaveState PROVE Inv'
<1> USE DEF SaveState, local
<1>0. /\ TypeOK /\ Control /\ JournalIsSound /\ QuarantineIsSound
      /\ want # None /\ want \in complete /\ journal.stage = "validated" /\ journal.id = want
      /\ Uncommitted
  BY DEF Inv, Control, Planning, Installing
<1>1. TypeOK'
  BY <1>0 DEF TypeOK, Steps
<1>2. JournalIsSound' /\ QuarantineIsSound'
  BY <1>0 DEF JournalIsSound, QuarantineIsSound
<1>3. NoncesAreSound'
  <2>1. pending.nonce # 0 => pending.nonce # journal.nonce
    BY <1>0 DEF Uncommitted, JournalIsSound, QuarantineIsSound, NoPending
  <2>2. journal.nonce \in 0 .. issued
    BY <1>0, LifecycleModes DEF Inv, NoncesAreSound, TypeOK
  <2> QED BY <1>0, <2>1, <2>2 DEF Inv, NoncesAreSound
<1>4. WholeOrGuarded'
  BY <1>0 DEF WholeOrGuarded, GuardHolds
<1>5. Control'
  BY <1>0 DEF Control, Planning, Beginning, Installing, Ending
<1> QED BY <1>1, <1>2, <1>3, <1>4, <1>5 DEF Inv

(***************************************************************************)
(* The quarantine on its way out.                                          *)
(***************************************************************************)

LEMMA RestoreKeepsInv ==
    ASSUME Inv, RestoreQuarantine, NEW step \in {"recovered", "restored"}, Goto(step),
           IF step = "recovered" THEN pc = "recover" ELSE pc = "restore",
           HasQuarantine, quar.held, state = None
    PROVE  Inv'
<1> USE DEF RestoreQuarantine, Goto, local, NoQuarantine, NoPending
<1>0. TypeOK /\ Control /\ QuarantineIsSound /\ journal.kind = "reset"
  BY DEF Inv, HasQuarantine
<1>1. TypeOK'
  BY <1>0, LifecycleModes DEF TypeOK, Pendings, Steps
<1>2. JournalIsSound' /\ QuarantineIsSound' /\ NoncesAreSound'
  BY <1>0 DEF Inv, TypeOK, JournalIsSound, QuarantineIsSound, NoncesAreSound
<1>3. WholeOrGuarded'
  BY <1>0 DEF Inv, WholeOrGuarded, GuardHolds
<1>4. Control'
  BY <1>0 DEF Control, Planning, Beginning, Installing, Ending, Unrecoverable, HasQuarantine
<1> QED BY <1>1, <1>2, <1>3, <1>4 DEF Inv

LEMMA PurgeKeepsInv ==
    ASSUME Inv, PurgeQuarantine, NEW step \in {"recovered", "finish"}, Goto(step),
           IF step = "recovered" THEN pc = "recover" ELSE pc = "purge",
           HasQuarantine, state # None, step = "finish" => journal.stage = "installed"
    PROVE  Inv'
<1> USE DEF PurgeQuarantine, Goto, local, NoQuarantine, NoPending
<1>0. TypeOK /\ Control /\ journal.kind = "reset"
  BY DEF Inv, HasQuarantine
<1>1. TypeOK'
  BY <1>0, LifecycleModes DEF TypeOK, Pendings, Steps
<1>2. JournalIsSound' /\ QuarantineIsSound' /\ NoncesAreSound'
  BY <1>0 DEF Inv, TypeOK, JournalIsSound, QuarantineIsSound, NoncesAreSound
<1>3. WholeOrGuarded'
  BY <1>0 DEF Inv, WholeOrGuarded, GuardHolds, CutShort
<1>4. Control'
  BY <1>0 DEF Control, Planning, Beginning, Installing, Ending, Unrecoverable, HasQuarantine
<1> QED BY <1>1, <1>2, <1>3, <1>4 DEF Inv

LEMMA RecoverResetKeepsInv == ASSUME Inv, RecoverReset PROVE Inv'
<1> USE DEF RecoverReset
<1>0. /\ Control /\ JournalIsSound /\ QuarantineIsSound
      /\ HasQuarantine /\ pc = "recover" /\ Goto("recovered")
  BY DEF Inv
<1>1. CASE ~quar.held /\ UNCHANGED disk
  <2>1. Control'
    BY <1>0, <1>1 DEF Goto, local, disk, Control, Planning, Beginning, Installing, Ending,
                      Unrecoverable, HasQuarantine
  <2> QED BY <1>0, <1>1, <2>1, JustGoes DEF ResetsTaint, Steps
<1>2. CASE quar.held /\ journal.stage \in {"validated", "installed"} /\ state = journal.id
  <2>1. state # None /\ PurgeQuarantine
    BY <1>0, <1>2 DEF JournalIsSound
  <2> QED BY <1>0, <2>1, PurgeKeepsInv
<1>3. CASE quar.held /\ ~(journal.stage \in {"validated", "installed"} /\ state = journal.id)
  <2>1. state = None /\ RestoreQuarantine
    BY <1>0, <1>3 DEF QuarantineIsSound
  <2> QED BY <1>0, <1>3, <2>1, RestoreKeepsInv
<1> QED BY <1>1, <1>2, <1>3

LEMMA ResetEndKeepsInv ==
    ASSUME Inv, RestoreAfterFailure \/ RestoreDone \/ Purge \/ Finish PROVE Inv'
<1>0. TypeOK /\ Control /\ JournalIsSound /\ QuarantineIsSound
  BY DEF Inv
<1>1. CASE RestoreAfterFailure
  <2>1. HasQuarantine /\ quar.held /\ state = None
    BY <1>0, <1>1 DEF RestoreAfterFailure, Control, Ending, HasQuarantine, QuarantineIsSound
  <2> QED BY <1>1, <2>1, RestoreKeepsInv DEF RestoreAfterFailure
<1>2. CASE RestoreDone
  <2>1. journal.kind = "reset" /\ ~quar.held
    BY <1>0, <1>2 DEF RestoreDone, Control, Ending
  <2>2. GuardHolds /\ state # None => state \in complete
    BY <1>2, <2>1 DEF RestoreDone, Inv, WholeOrGuarded, CutShort
  <2> QED BY <1>2, <2>1, <2>2, ToDown, CompleteKeepsInv DEF RestoreDone, Steps
<1>3. CASE Purge
  <2>1. HasQuarantine /\ state # None /\ journal.stage = "installed"
    BY <1>0, <1>3 DEF Purge, Control, Ending, HasQuarantine
  <2> QED BY <1>3, <2>1, PurgeKeepsInv DEF Purge
<1>4. CASE Finish
  <2> USE DEF Finish, NoJournal, NoPending, Goto, local
  <2>1. journal.stage = "installed" /\ ~quar.held /\ state # None
    BY <1>0, <1>4 DEF Control, Ending
  <2>2. TypeOK'
    BY <1>0, <1>4, LifecycleModes DEF TypeOK, Pendings, Stages, Steps
  <2>3. JournalIsSound' /\ QuarantineIsSound' /\ NoncesAreSound'
    BY <1>0, <1>4, <2>1 DEF Inv, TypeOK, JournalIsSound, QuarantineIsSound, NoncesAreSound
  <2>4. WholeOrGuarded'
    BY <1>4, <2>1 DEF Inv, WholeOrGuarded, GuardHolds, CutShort
  <2>5. Control'
    BY <1>0, <1>4, <2>1 DEF Control, Planning, Beginning, Installing, Ending
  <2> QED BY <2>2, <2>3, <2>4, <2>5 DEF Inv
<1> QED BY <1>1, <1>2, <1>3, <1>4

------------------------------------------------------------------------------

LEMMA StepKeepsInv == ASSUME Inv, [Next]_vars PROVE Inv'
<1>1. CASE BootAnyway
  BY <1>1, BootKeepsInv DEF BootAnyway
<1>2. CASE Recovery
  BY <1>2, PassingKeepsInv, RecoverResetKeepsInv, RecoveryDoneKeepsInv DEF Recovery
<1>3. CASE Plan
  BY <1>3, PlanningKeepsInv, RequestKeepsInv, AcceptKeepsInv DEF Plan
<1>4. CASE Transaction
  BY <1>4, BeginKeepsInv, EarlyAdvanceKeepsInv, MoveKeepsInv, InstallKeepsInv,
     LateAdvanceKeepsInv, SaveKeepsInv, ResetEndKeepsInv DEF Transaction
<1>5. CASE Failure
  BY <1>5, StopsKeepInv, CandidateFailureKeepsInv, ResetEndKeepsInv DEF Failure
<1>6. CASE Launch \/ Stop
  BY <1>6, StopsKeepInv
<1>7. CASE Crash \/ Expire
  BY <1>7, CrashKeepsInv, ExpireKeepsInv
<1>8. CASE UNCHANGED vars
  BY <1>8 DEF vars, disk, local, Inv, TypeOK, JournalIsSound, QuarantineIsSound, NoncesAreSound,
              WholeOrGuarded, GuardHolds, CutShort, Control, Planning, Unrecoverable, HasQuarantine,
              Beginning, Confirmed, Installing, Uncommitted, Ending
<1> QED BY <1>1, <1>2, <1>3, <1>4, <1>5, <1>6, <1>7, <1>8 DEF Next, Launcher

\* What the journal, the taint, the confirmation and the quarantine say of one
\* another at each step of Run (app.go) is inductive.
THEOREM Invariance == Spec => []Inv
BY InitEstablishesInv, StepKeepsInv, PTL DEF Spec

------------------------------------------------------------------------------
(***************************************************************************)
(* The theorems.                                                           *)
(***************************************************************************)

\* state.json, operation.json, the confirmation, the quarantine and the steps
\* of the launcher are of their types.
THEOREM TypeCorrect == Spec => []TypeOK
BY Invariance, PTL DEF Inv

\* A server runs only on the whole installation that state.json names,
\* whatever was interrupted before (README.md:78), as long as the taint guards
\* every partial tree.
THEOREM RunsAlwaysComplete == Spec => []RunsCompleteInstallation
<1>1. Inv => RunsCompleteInstallation
  BY DEF Inv, WholeOrGuarded, CutShort, Control, Planning, NoJournal, RunsCompleteInstallation
<1> QED BY <1>1, Invariance, PTL

\* An installation that an update was cut short in is never left without the
\* journal that keeps the launcher from starting it (app.go, operation.go).
THEOREM PartialTreeIsAlwaysGuarded == Spec => []PartialTreeIsGuarded
<1>1. Inv => PartialTreeIsGuarded
  BY DEF Inv, WholeOrGuarded, CutShort, Control, Planning, NoJournal, PartialTreeIsGuarded
<1> QED BY <1>1, Invariance, PTL

\* The nonce of a committed reset authorizes no other one, whatever crashed
\* after the commit and whatever recovery did (reset.go, app.go).
THEOREM NonceIsAlwaysUsedOnce == Spec => []NonceIsUsedOnce
<1>1. Inv => NonceIsUsedOnce
  BY DEF Inv, NoncesAreSound, NonceIsUsedOnce
<1> QED BY <1>1, Invariance, PTL

(***************************************************************************)
(* What a step may do to the two places an installation can be in.         *)
(***************************************************************************)

LEMMA StepMovesInstallation ==
    ASSUME Inv, [Next]_vars
    PROVE  \/ UNCHANGED <<state, quar>>
           \/ quar.held /\ state = None /\ RestoreQuarantine
           \/ quar.held /\ state # None /\ PurgeQuarantine
           \/ quar.held /\ want # None /\ state' = want /\ UNCHANGED quar
           \/ ~quar.held /\ want # None /\ state' = want /\ UNCHANGED quar
           \/ MoveIntoQuarantine
<1>0. Control /\ JournalIsSound /\ QuarantineIsSound
  BY DEF Inv
<1>1. CASE RecoverReset
  <2>1. CASE quar.held /\ journal.stage \in {"validated", "installed"} /\ state = journal.id
    BY <1>0, <1>1, <2>1 DEF RecoverReset, JournalIsSound
  <2>2. CASE quar.held /\ ~(journal.stage \in {"validated", "installed"} /\ state = journal.id)
    BY <1>0, <1>1, <2>2 DEF RecoverReset, QuarantineIsSound
  <2>3. CASE ~quar.held
    BY <1>1, <2>3 DEF RecoverReset, disk
  <2> QED BY <2>1, <2>2, <2>3
<1>2. CASE RestoreAfterFailure
  BY <1>0, <1>2 DEF RestoreAfterFailure, Control, Ending
<1>3. CASE Purge
  <2>1. CASE quar.held
    BY <1>0, <1>3, <2>1 DEF Purge, Control, Ending
  <2>2. CASE ~quar.held
    BY <1>0, <1>3, <2>2 DEF Purge, PurgeQuarantine, QuarantineIsSound
  <2> QED BY <2>1, <2>2
<1>4. CASE SaveState
  BY <1>0, <1>4 DEF SaveState, Control, Planning
<1>5. CASE MoveIntoQuarantine
  BY <1>5
<1>6. CASE BootAnyway \/ Plan \/ Launch \/ Stop \/ Crash \/ Expire \/ UNCHANGED vars
  BY <1>6 DEF BootAnyway, Boot, Plan, PlanRun, PrepareFails, PlanUpdate, PlanReset, RequestReset,
              RequestFails, RejectReset, AcceptReset, Launch, Stop, Crash, Expire, Complete, disk, vars
<1>7. CASE PassTaint \/ RefuseRecovery \/ RecoverNothing \/ RecoverInstall \/ RecoveryDone
  BY <1>7 DEF PassTaint, RefuseRecovery, RecoverNothing, RecoverInstall, RecoveryDone, Complete, disk
<1>8. CASE \/ BeginInstall \/ BeginReset \/ AdvanceInstalling \/ AdvanceQuarantine
           \/ InstallStarts \/ InstallDone \/ Seal \/ AdvanceValidated \/ AdvanceInstalled \/ Finish
  BY <1>8 DEF BeginInstall, BeginReset, BeginOperation, AdvanceInstalling, AdvanceQuarantine,
              InstallStarts, InstallDone, Seal, AdvanceValidated, AdvanceInstalled, Finish, Advance
<1>9. CASE MoveFails \/ InstallFails \/ SealFails \/ ValidateFails \/ ActivateFails \/ RestoreDone
  BY <1>9 DEF MoveFails, InstallFails, SealFails, ValidateFails, ActivateFails, RestoreDone,
              FailReset, FailUpdate, FallBack, Taint, Advance, Complete, disk
<1> QED BY <1>1, <1>2, <1>3, <1>4, <1>5, <1>6, <1>7, <1>8, <1>9
        DEF Next, Launcher, Recovery, Transaction, Failure

\* No failure, crash or recovery leaves the server root with no installation
\* and no quarantine that holds one (operation.go, app.go).
THEOREM InstallationIsNeverLost == Spec => InstallationIsNeverForgotten
<1> DEFINE Kept == state # None \/ quar.state # None => state' # None \/ quar'.state # None
<1>1. ASSUME Inv, [Next]_vars PROVE Kept
  <2>1. /\ ~quar.held => quar = NoQuarantine /\ quar.state = None
        /\ quar.held => quar.state # None
    BY <1>1 DEF Inv, QuarantineIsSound, NoQuarantine
  <2>2. MoveIntoQuarantine => ~quar.held
    BY <1>1 DEF MoveIntoQuarantine, Inv, Control, Beginning
  <2> QED BY <1>1, <2>1, <2>2, StepMovesInstallation
          DEF RestoreQuarantine, PurgeQuarantine, MoveIntoQuarantine
<1> QED BY <1>1, Invariance, PTL DEF Spec, InstallationIsNeverForgotten

\* Whatever is moved into the quarantine is the installation the user's
\* confirmation names, to make way for the one it names (app.go:470).
THEOREM ResetIsAlwaysConfirmed == Spec => ResetIsConfirmed
<1> DEFINE Asked == ~quar.held /\ quar'.held =>
                        confirm = pending.nonce /\ pending.src = state /\ pending.tgt = want
<1>1. ASSUME Inv, [Next]_vars PROVE Asked
  <2>1. ASSUME ~quar.held, quar'.held PROVE MoveIntoQuarantine
    BY <1>1, <2>1, StepMovesInstallation
       DEF RestoreQuarantine, PurgeQuarantine, NoQuarantine
  <2>2. MoveIntoQuarantine => Confirmed
    BY <1>1 DEF MoveIntoQuarantine, Inv, Control, Beginning
  <2> QED BY <2>1, <2>2 DEF Confirmed
<1> QED BY <1>1, Invariance, PTL DEF Spec, ResetIsConfirmed

==============================================================================
