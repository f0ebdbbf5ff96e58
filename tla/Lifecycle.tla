------------------------------ MODULE Lifecycle ------------------------------
(***************************************************************************)
(* From boot to boot: how a PCVM launcher recovers the operation it finds  *)
(* (RecoverOperation), decides what to do (Run), and installs, updates or  *)
(* resets (installTransaction, installWithReset). The durable guards are   *)
(* the stage in operation.json, the install ID in state.json, and the      *)
(* nonce in pending-switch.json that authorizes a reset.                   *)
(*                                                                         *)
(* A move into the quarantine, a restore and a purge are single steps      *)
(* here; that they act like single steps is what module Quarantine shows.  *)
(* A launcher may be killed between any two steps, and any step that can   *)
(* return an error may do so.                                              *)
(***************************************************************************)
EXTENDS Integers

CONSTANTS
    Installs,            \* install IDs, one per artifact
    ResetPairs,          \* <<from, to>> for which a transition needs a reset
    Modes,               \* the providers and failures considered, see ModeSet
    MaxNonces,           \* bound on the reset confirmations created
    MaxCrashes           \* bound on the crashes of a behaviour

None == 0

ASSUME InstallsAreIDs == Installs \subseteq Nat \ {None} /\ ResetPairs \subseteq Installs \X Installs

\* staged: the rollback mode of the provider, staged or in-place; sealFails:
\* sealing an in-place update can fail; resetFails: the reset of a tainted
\* installation can.
ModeSet == [staged : BOOLEAN, sealFails : BOOLEAN, resetFails : BOOLEAN]

ASSUME LifecycleModes == Modes \subseteq ModeSet /\ MaxNonces \in Nat /\ MaxCrashes \in Nat

VARIABLES
    state,      \* the install ID in state.json, None when there is no file
    complete,   \* the installations whose files are whole in the live tree
    pending,    \* pending-switch.json
    quar,       \* the three above, as they were moved into the quarantine
    journal,    \* operation.json
    pc,         \* next step of the launcher, "down" when it is not running
    want,       \* the installation the startup variables ask for
    confirm,    \* RESET_CONFIRM: 0 for none, a nonce, or Request
    tainted,    \* taintedResetFlow of this boot
    issued,     \* number of nonces created
    spent,      \* the nonces of committed resets
    mode,       \* the member of Modes of a behaviour, chosen in Init
    crashes     \* number of crashes so far

local == <<want, confirm, tainted>>
disk == <<state, complete, pending, quar, journal>>
vars == <<disk, pc, local, issued, spent, mode, crashes>>

Request == -1

NoPending == [src |-> None, tgt |-> None, nonce |-> 0]
NoJournal == [kind |-> "none", stage |-> "none", id |-> None, prev |-> None, nonce |-> 0]
NoQuarantine == [held |-> FALSE, state |-> None, complete |-> {}, pending |-> NoPending]

Stages == {"prepared", "quarantine", "installing", "validating", "validated", "installed", "tainted"}

Steps == {"down", "recover", "recovered", "plan", "auth", "reset", "begun", "quarantine", "moved",
          "begin", "started", "install", "installing", "seal", "validate", "activate",
          "activated", "purge", "finish", "restore", "restored", "launch", "running"}

Init ==
    /\ state = None /\ complete = {} /\ pending = NoPending
    /\ quar = NoQuarantine /\ journal = NoJournal
    /\ pc = "down" /\ want = None /\ confirm = 0 /\ tainted = FALSE
    /\ issued = 0 /\ spent = {} /\ mode \in Modes /\ crashes = 0

Goto(step) == pc' = step /\ UNCHANGED <<local, issued, spent, mode, crashes>>

\* journal.Advance, and journal.Complete.
Advance(stage) ==
    /\ journal' = [journal EXCEPT !.stage = stage]
    /\ UNCHANGED <<state, complete, pending, quar>>

Complete == journal' = NoJournal /\ UNCHANGED <<state, complete, pending, quar>>

------------------------------------------------------------------------------
(***************************************************************************)
(* Boot and RecoverOperation.                                              *)
(***************************************************************************)

Boot(w, c) ==
    /\ pc = "down"
    /\ pc' = "recover" /\ want' = w /\ confirm' = c /\ tainted' = FALSE
    /\ UNCHANGED <<disk, issued, spent, mode, crashes>>

\* Only a boot that carries a reset confirmation gets past a taint.
PassTaint ==
    /\ pc = "recover" /\ journal.stage = "tainted" /\ confirm # 0
    /\ pc' = "plan" /\ tainted' = TRUE
    /\ UNCHANGED <<disk, want, confirm, issued, spent, mode, crashes>>

HasQuarantine == journal.kind = "reset" /\ journal.stage # "prepared"

\* An operation whose recovery is an error: the boot ends, the journal stays.
Unrecoverable ==
    /\ ~HasQuarantine
    /\ \/ journal.stage = "tainted"
       \/ journal.stage \in {"installing", "validating", "validated"} /\ ~mode.staged
          /\ ~(journal.stage = "validated" /\ state = journal.id)
       \/ journal.stage = "installed" /\ state # journal.id

RefuseRecovery ==
    /\ pc = "recover" /\ Unrecoverable
    /\ journal.stage = "tainted" => confirm = 0
    /\ Goto("down") /\ UNCHANGED disk

RecoverNothing ==
    /\ pc = "recover" /\ journal = NoJournal
    /\ Goto("plan") /\ UNCHANGED disk

RecoverInstall ==
    /\ pc = "recover" /\ journal # NoJournal
    /\ ~HasQuarantine /\ ~Unrecoverable
    /\ Goto("recovered") /\ UNCHANGED disk

\* q.Commit when state.json holds what the journal validated, otherwise
\* q.Restore or q.RestorePartial; nothing when the quarantine is gone.
RestoreQuarantine ==
    /\ state' = quar.state /\ complete' = quar.complete /\ pending' = quar.pending
    /\ quar' = NoQuarantine
    /\ UNCHANGED journal

PurgeQuarantine == quar' = NoQuarantine /\ UNCHANGED <<state, complete, pending, journal>>

\* Mutant: commits by the stage alone, without looking at state.json.
RecoverResetByStage ==
    /\ pc = "recover" /\ HasQuarantine
    /\ IF ~quar.held THEN UNCHANGED disk
       ELSE IF journal.stage \in {"validated", "installed"}
            THEN PurgeQuarantine
            ELSE RestoreQuarantine
    /\ Goto("recovered")

\* Mutant: restores whatever quarantine it finds.
RecoverResetByRestore ==
    /\ pc = "recover" /\ HasQuarantine
    /\ IF quar.held THEN RestoreQuarantine ELSE UNCHANGED disk
    /\ Goto("recovered")

\* Mutant: insists on a quarantine.
RecoverResetInsisting ==
    /\ pc = "recover" /\ HasQuarantine
    /\ IF ~quar.held THEN Goto("down") /\ UNCHANGED disk
       ELSE /\ Goto("recovered")
            /\ IF journal.stage \in {"validated", "installed"} /\ state = journal.id
               THEN PurgeQuarantine
               ELSE RestoreQuarantine

RecoverReset ==
    /\ pc = "recover" /\ HasQuarantine
    /\ IF ~quar.held THEN UNCHANGED disk
       ELSE IF journal.stage \in {"validated", "installed"} /\ state = journal.id
            THEN PurgeQuarantine
            ELSE RestoreQuarantine
    /\ Goto("recovered")

RecoveryDone ==
    /\ pc = "recovered"
    /\ Complete /\ Goto("plan")

------------------------------------------------------------------------------
(***************************************************************************)
(* What to do: run the installed release, update it, or reset.             *)
(***************************************************************************)

NeedsReset == tainted \/ (state # None /\ <<state, want>> \in ResetPairs)

PlanRun ==
    /\ pc = "plan" /\ ~tainted /\ state = want
    /\ Goto("launch") /\ UNCHANGED disk

\* Resolving or preparing the target fails: the installed release is started,
\* unless the installation is tainted. Other failures, and any failure before a
\* reset, end the boot.
PrepareFails ==
    /\ pc = "plan" /\ (tainted \/ state # want)
    /\ \/ state # None /\ ~tainted /\ Goto("launch")
       \/ Goto("down")
    /\ UNCHANGED disk

PlanUpdate ==
    /\ pc = "plan" /\ ~NeedsReset /\ state # want
    /\ Goto("begin") /\ UNCHANGED disk

PlanReset ==
    /\ pc = "plan" /\ NeedsReset
    /\ Goto("auth") /\ UNCHANGED disk

\* Mutant: a confirmation is good for any target.
AuthorizesAnyTarget == pending.nonce # 0 /\ pending.src = state

\* pending-switch.json authorizes the reset from exactly this installation to
\* exactly this target.
Authorizes == pending.nonce # 0 /\ pending.src = state /\ pending.tgt = want

RequestReset ==
    /\ pc = "auth" /\ (confirm = Request \/ ~Authorizes)
    /\ issued < MaxNonces
    /\ pending' = [src |-> state, tgt |-> want, nonce |-> issued + 1]
    /\ issued' = issued + 1
    /\ pc' = "down"
    /\ UNCHANGED <<state, complete, quar, journal, local, spent, mode, crashes>>

\* Creating or saving the confirmation fails.
RequestFails ==
    /\ pc = "auth" /\ (confirm = Request \/ ~Authorizes)
    /\ Goto("down") /\ UNCHANGED disk

RejectReset ==
    /\ pc = "auth" /\ Authorizes /\ confirm \notin {Request, pending.nonce}
    /\ Goto("down") /\ UNCHANGED disk

\* The nonce is right: the taint guard of this installation is taken away.
AcceptReset ==
    /\ pc = "auth" /\ Authorizes /\ confirm = pending.nonce
    /\ \/ journal = NoJournal /\ Goto("reset") /\ UNCHANGED disk
       \/ journal.stage = "tainted" /\ journal.prev = state /\ Goto("reset") /\ Complete

------------------------------------------------------------------------------
(***************************************************************************)
(* The two transactions up to the installation of the candidate.           *)
(***************************************************************************)

\* BeginOperation refuses while a journal exists.
BeginOperation(kind, step) ==
    /\ journal = NoJournal
    /\ journal' = [kind |-> kind, stage |-> "prepared", id |-> None, prev |-> state,
                   nonce |-> IF kind = "reset" THEN pending.nonce ELSE 0]
    /\ UNCHANGED <<state, complete, pending, quar>>
    /\ Goto(step)

BeginInstall == pc = "begin" /\ BeginOperation("install", "started")
BeginReset == pc = "reset" /\ BeginOperation("reset", "begun")

AdvanceInstalling ==
    /\ pc \in {"started", "moved"}
    /\ Advance("installing") /\ Goto("install")

AdvanceQuarantine ==
    /\ pc = "begun"
    /\ Advance("quarantine") /\ Goto("quarantine")

MoveIntoQuarantine ==
    /\ pc = "quarantine"
    /\ quar' = [held |-> TRUE, state |-> state, complete |-> complete, pending |-> pending]
    /\ state' = None /\ complete' = {} /\ pending' = NoPending
    /\ UNCHANGED journal
    /\ Goto("moved")

MayFail == tainted => mode.resetFails

\* The move fails and is undone; the journal stays.
MoveFails ==
    /\ pc = "quarantine" /\ MayFail
    /\ Goto("down") /\ UNCHANGED disk

\* An in-place installer works on the live files; a staged one builds a
\* release beside them.
InstallStarts ==
    /\ pc = "install"
    /\ complete' = IF mode.staged THEN complete ELSE {}
    /\ UNCHANGED <<state, pending, quar, journal>>
    /\ Goto("installing")

InstallDone ==
    /\ pc = "installing"
    /\ complete' = complete \cup {want}
    /\ UNCHANGED <<state, pending, quar, journal>>
    /\ Goto("seal")

------------------------------------------------------------------------------
(***************************************************************************)
(* The failures of a candidate.                                            *)
(***************************************************************************)

\* A failed staged update falls back to the installed release.
FallBack ==
    /\ Complete
    /\ IF mode.staged /\ journal.prev # None THEN Goto("launch") ELSE Goto("down")

\* Mutant: the journal is completed with the failed update.
TaintForgotten ==
    /\ ~mode.staged /\ journal.prev # None
    /\ Complete /\ Goto("down")

\* A failed update of the live tree leaves a durable taint.
Taint ==
    /\ ~mode.staged /\ journal.prev # None
    /\ Advance("tainted") /\ Goto("down")

FailUpdate == IF mode.staged \/ journal.prev = None THEN FallBack ELSE Taint

FailReset == Goto("restore") /\ UNCHANGED disk

\* Mutant: the installer's error is dropped.
InstallFailsUnseen ==
    /\ pc \in {"moved", "installing"} /\ MayFail
    /\ IF pc = "moved" THEN FailReset ELSE Goto("seal") /\ UNCHANGED disk

\* The installer fails, or, in a reset, the stage before it.
InstallFails ==
    /\ pc \in {"moved", "installing"} /\ MayFail
    /\ IF journal.kind = "reset" THEN FailReset ELSE FailUpdate

\* A failure to seal completes the journal whatever the rollback mode.
SealFails ==
    /\ pc = "seal" /\ MayFail
    /\ mode.staged \/ mode.sealFails
    /\ IF journal.kind = "reset" THEN FailReset ELSE FallBack

ValidateFails ==
    /\ pc = "validate" /\ MayFail
    /\ IF journal.kind = "reset" THEN FailReset ELSE FailUpdate

\* Before SaveState an activation that fails leaves the journal in place.
ActivateFails ==
    /\ pc = "activate" /\ MayFail
    /\ IF journal.kind = "reset" THEN FailReset ELSE Goto("down") /\ UNCHANGED disk

RestoreAfterFailure ==
    /\ pc = "restore"
    /\ RestoreQuarantine /\ Goto("restored")

RestoreDone ==
    /\ pc = "restored"
    /\ Complete /\ Goto("down")

------------------------------------------------------------------------------
(***************************************************************************)
(* Seal, validate, commit.                                                 *)
(***************************************************************************)

Seal ==
    /\ pc = "seal"
    /\ journal' = [journal EXCEPT !.stage = "validating", !.id = want]
    /\ UNCHANGED <<state, complete, pending, quar>>
    /\ Goto("validate")

AdvanceValidated ==
    /\ pc = "validate"
    /\ Advance("validated") /\ Goto("activate")

\* The commit point.
SaveState ==
    /\ pc = "activate"
    /\ state' = want
    /\ spent' = spent \cup {journal.nonce}
    /\ pc' = "activated"
    /\ UNCHANGED <<complete, pending, quar, journal, local, issued, mode, crashes>>

AdvanceInstalled ==
    /\ pc = "activated"
    /\ Advance("installed")
    /\ IF journal.kind = "reset" THEN Goto("purge") ELSE Goto("finish")

Purge ==
    /\ pc = "purge"
    /\ PurgeQuarantine /\ Goto("finish")

\* pending-switch.json is removed after a reset; then the journal.
Finish ==
    /\ pc = "finish"
    /\ journal' = NoJournal
    /\ pending' = IF journal.kind = "reset" THEN NoPending ELSE pending
    /\ UNCHANGED <<state, complete, quar>>
    /\ Goto("launch")

------------------------------------------------------------------------------

\* runState: the receipt seals some of the installation's files, so it may or
\* may not tell that an update was cut short.
Launch ==
    /\ pc = "launch"
    /\ \/ Goto("running")
       \/ Goto("down") /\ state \notin complete
    /\ UNCHANGED disk

Stop ==
    /\ pc = "running"
    /\ Goto("down") /\ UNCHANGED disk

\* A tainted installation is being reset and the reset has not committed.
ResetsTaint ==
    /\ tainted
    /\ pc \in {"reset", "begun", "quarantine", "moved", "install", "installing", "seal",
               "validate", "activate", "restore", "restored"}

Crash ==
    /\ pc \notin {"down", "running"} /\ crashes < MaxCrashes
    /\ ResetsTaint => mode.resetFails
    /\ pc' = "down" /\ crashes' = crashes + 1
    /\ UNCHANGED <<disk, local, issued, spent, mode>>

\* The thirty minutes of a pending reset are over.
Expire ==
    /\ pc = "down" /\ pending # NoPending
    /\ pending' = NoPending
    /\ UNCHANGED <<state, complete, quar, journal, pc, local, issued, spent, mode, crashes>>

Recovery ==
    \/ PassTaint \/ RefuseRecovery \/ RecoverNothing \/ RecoverInstall \/ RecoverReset
    \/ RecoveryDone

Plan ==
    \/ PlanRun \/ PrepareFails \/ PlanUpdate \/ PlanReset
    \/ RequestReset \/ RequestFails \/ RejectReset \/ AcceptReset

Transaction ==
    \/ BeginInstall \/ BeginReset \/ AdvanceInstalling \/ AdvanceQuarantine
    \/ MoveIntoQuarantine \/ InstallStarts \/ InstallDone \/ Seal \/ AdvanceValidated
    \/ SaveState \/ AdvanceInstalled \/ Purge \/ Finish

Failure ==
    \/ MoveFails \/ InstallFails \/ SealFails \/ ValidateFails \/ ActivateFails
    \/ RestoreAfterFailure \/ RestoreDone

BootAnyway == \E w \in Installs, c \in {0, Request} \cup 1 .. issued : Boot(w, c)

Launcher == BootAnyway \/ Recovery \/ Plan \/ Transaction \/ Failure \/ Launch \/ Stop

Next == Launcher \/ Crash \/ Expire

Spec == Init /\ [][Next]_vars

\* The panel restarts the launcher, with whatever startup variables the user
\* has set, and no step of it waits for anyone.
FairSpec == Spec /\ WF_vars(Launcher)

------------------------------------------------------------------------------
(***************************************************************************)
(* Properties.                                                             *)
(***************************************************************************)

Pendings == [src : Installs \cup {None}, tgt : Installs \cup {None}, nonce : 0 .. MaxNonces]

TypeOK ==
    /\ state \in Installs \cup {None}
    /\ complete \subseteq Installs
    /\ pending \in Pendings
    /\ quar \in [held : BOOLEAN, state : Installs \cup {None}, complete : SUBSET Installs,
                 pending : Pendings]
    /\ journal \in [kind : {"none", "install", "reset"}, stage : Stages \cup {"none"},
                    id : Installs \cup {None}, prev : Installs \cup {None},
                    nonce : 0 .. MaxNonces]
    /\ pc \in Steps
    /\ want \in Installs \cup {None}
    /\ confirm \in {0, Request} \cup 1 .. MaxNonces
    /\ tainted \in BOOLEAN
    /\ issued \in 0 .. MaxNonces
    /\ spent \subseteq 0 .. MaxNonces
    /\ mode \in Modes
    /\ crashes \in 0 .. MaxCrashes

\* The taint guards partial trees, unless an in-place update fails while it is
\* sealed (app.go:293) or the reset of a tainted installation fails (app.go:473).
GuardHolds == mode.staged \/ ~(mode.sealFails \/ mode.resetFails)

\* A server runs only on the whole installation state.json names, never on
\* one an update was cut short in (README.md:78, "refuses to start the
\* possibly partial installation").
RunsCompleteInstallation == GuardHolds /\ pc = "running" => state \in complete

\* Once something is installed, an installation is there or in the
\* quarantine: no failure and no recovery leaves the server root with none.
InstallationIsNeverForgotten ==
    [][state # None \/ quar.state # None => state' # None \/ quar'.state # None]_vars

\* What a reset moves away is what its confirmation was created for, and the
\* user has confirmed it (app.go:470, "Authorization is now bound to both the
\* exact old state and verified target").
ResetIsConfirmed ==
    [][~quar.held /\ quar'.held => /\ confirm = pending.nonce
                                   /\ pending.src = state /\ pending.tgt = want]_vars

\* A confirmation that was used for a committed reset never authorizes
\* another one, whatever crashed after the commit.
NonceIsUsedOnce == pending.nonce # 0 => pending.nonce \notin spent

\* A launcher that is not in the middle of an operation has no journal, but
\* for one that no boot may pass without a reset.
PartialTreeIsGuarded ==
    GuardHolds /\ pc \in {"down", "launch"} /\ state # None /\ state \notin complete
        => pc = "down" /\ journal # NoJournal

\* A staged operation, interrupted or not, is always resolved by the boots
\* that follow.
OperationsResolve == (mode.staged /\ journal # NoJournal) ~> (journal = NoJournal)

==============================================================================
