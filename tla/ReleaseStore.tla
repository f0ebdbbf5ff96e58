---------------------------- MODULE ReleaseStore -----------------------------
(***************************************************************************)
(* The releases of one staged provider under .pcvm/releases/<provider>:    *)
(* release_store.go, with its callers in provider.go and app.go.           *)
(*                                                                         *)
(* An update copies the candidate into a stage, renames the stage to the   *)
(* release's identity, writes index.json with the new and the previous     *)
(* release, removes the others, and only then saves state.json. A launch   *)
(* validates the release of state.json and repairs the index.              *)
(***************************************************************************)
EXTENDS Naturals

CONSTANTS
    Releases,    \* the identities of releases
    None,        \* no release
    MaxCrashes   \* bound on the crashes of a behaviour

ASSUME ReleaseAssumption == None \notin Releases /\ MaxCrashes \in Nat

VARIABLES
    tree,       \* what releases/<provider>/<id> holds
    stages,     \* whether .stage-* directories exist
    index,      \* index.json; with current None when there is no file
    state,      \* the release of state.json
    pc,         \* next step of the launcher, "down" when it is not running
    want,       \* the release the launcher installs or launches
    keep,       \* the previous release pruneProviderReleases keeps
    crashes

disk == <<tree, stages, index, state>>
vars == <<tree, stages, index, state, pc, want, keep, crashes>>

\* A removal that was cut short leaves a release without its metadata
\* (headless) or without its payload (hollow).
Trees == {"none", "whole", "headless", "hollow"}

Steps == {"down", "plan", "activate", "seal", "record", "prune", "save", "launch", "repair",
          "tidy", "running", "refused"}

NoIndex == [current |-> None, previous |-> None]

Init ==
    /\ tree = [r \in Releases |-> "none"]
    /\ stages = FALSE /\ index = NoIndex /\ state = None
    /\ pc = "down" /\ want = None /\ keep = None /\ crashes = 0

\* validateRelease and validateReleaseByID.
Valid(r) == r \in Releases /\ tree[r] = "whole"

\* validateRelease says "does not exist", rather than "is invalid".
Missing(r) == r \in Releases /\ tree[r] \in {"none", "headless"}

------------------------------------------------------------------------------

Boot ==
    /\ pc = "down"
    /\ pc' = "plan"
    /\ UNCHANGED <<disk, want, keep, crashes>>

\* No state is due for a run without one.
PlanRun ==
    /\ pc = "plan" /\ state # None
    /\ pc' = "launch" /\ want' = state
    /\ UNCHANGED <<disk, keep, crashes>>

\* An installation or update; of the same release when only the runtime or
\* the configuration changed. It begins with a stage of its own.
PlanInstall(r) ==
    /\ pc = "plan"
    /\ pc' = "activate" /\ want' = r /\ stages' = TRUE
    /\ UNCHANGED <<tree, index, state, keep, crashes>>

\* A failed staged update starts the installed release; a failed first
\* installation ends the launcher.
GiveUp == /\ pc' = IF state = None THEN "down" ELSE "launch"
          /\ want' = state

\* A new identity is renamed into place; an existing one must be the same
\* tree. Other stages may be left from earlier attempts.
Activate ==
    /\ pc = "activate" /\ tree[want] \in {"none", "whole"}
    /\ pc' = "seal" /\ stages' \in {FALSE, TRUE}
    /\ tree' = [tree EXCEPT ![want] = "whole"]
    /\ UNCHANGED <<index, state, want, keep, crashes>>

\* The stage could not be made, the existing release is damaged, or its
\* content differs from what was downloaded now.
ActivateFails ==
    /\ pc = "activate"
    /\ GiveUp
    /\ stages' \in {FALSE, TRUE}
    /\ UNCHANGED <<tree, index, state, keep, crashes>>

Seal ==
    /\ pc = "seal"
    /\ \/ pc' = "record" /\ UNCHANGED want
       \/ GiveUp
    /\ UNCHANGED <<disk, keep, crashes>>

\* recordReleaseActivation: the previous release to record when the release
\* before this one was prev.
PreviousOf(r, prev) ==
    IF prev # r THEN prev
    ELSE IF index.current = r /\ Valid(index.previous) THEN index.previous ELSE None

\* Mutant: the index is overwritten without the previous release.
RecordForgetting(r, prev) ==
    /\ Valid(r)
    /\ index' = [current |-> r, previous |-> None]
    /\ keep' = None

Record(r, prev) ==
    LET previous == PreviousOf(r, prev)
    IN  /\ Valid(r)
        /\ previous = None \/ Missing(previous) \/ Valid(previous)
        /\ index' = [current |-> r, previous |-> IF Valid(previous) THEN previous ELSE None]
        /\ keep' = IF Valid(previous) THEN previous ELSE None

RecordInstall ==
    /\ pc = "record"
    /\ Record(want, state)
    /\ pc' = "prune"
    /\ UNCHANGED <<tree, stages, state, want, crashes>>

\* Any error of activateValidatedState before the commit ends the launcher.
RecordFails ==
    /\ pc \in {"record", "prune", "save"}
    /\ pc' = "down"
    /\ UNCHANGED <<disk, want, keep, crashes>>

Doomed == {r \in Releases \ {want, keep} : tree[r] # "none"}

\* Mutant: everything but the current release is removed.
PruneAllOthers(after) ==
    LET others == {r \in Releases \ {want} : tree[r] # "none"}
    IN  /\ IF others = {} THEN pc' = after /\ stages' = FALSE /\ UNCHANGED tree
           ELSE /\ \E r \in others : tree' = [tree EXCEPT ![r] = "none"]
                /\ UNCHANGED <<stages, pc>>
        /\ UNCHANGED <<index, state, want, keep, crashes>>

\* Mutant: the stages of interrupted installations are left behind.
PruneReleasesOnly(after) ==
    /\ IF Doomed = {} THEN pc' = after /\ UNCHANGED <<stages, tree>>
       ELSE /\ \E r \in Doomed : tree' = [tree EXCEPT ![r] = "none"]
            /\ UNCHANGED <<stages, pc>>
    /\ UNCHANGED <<index, state, want, keep, crashes>>

\* pruneProviderReleases: os.RemoveAll of one release after the other, its two
\* parts in any order, and of the stages.
Prune(after) ==
    /\ IF Doomed = {}
       THEN pc' = after /\ stages' = FALSE /\ UNCHANGED tree
       ELSE /\ \E r \in Doomed :
                  tree' \in {[tree EXCEPT ![r] = t] :
                             t \in IF tree[r] = "whole" THEN {"headless", "hollow"} ELSE {"none"}}
            /\ UNCHANGED <<stages, pc>>
    /\ UNCHANGED <<index, state, want, keep, crashes>>

PruneInstall == pc = "prune" /\ Prune("save")

SaveState ==
    /\ pc = "save"
    /\ state' = want /\ pc' = "launch"
    /\ UNCHANGED <<tree, stages, index, want, keep, crashes>>

\* rewriteStagedLaunchToRelease: RELEASE_MISSING unless the release is valid.
CheckRelease ==
    /\ pc = "launch"
    /\ pc' = IF Valid(want) THEN "repair" ELSE "refused"
    /\ UNCHANGED <<disk, want, keep, crashes>>

\* repairReleaseActivation: the previous release is what the index names
\* beside the release of state.json.
RepairPrevious ==
    LET candidate == IF index.current # want THEN index.current ELSE index.previous
    IN  IF candidate = want THEN None ELSE candidate

\* An invalid previous pointer is an error, RELEASE_INDEX.
Repair ==
    /\ pc = "repair"
    /\ IF RepairPrevious = None \/ Valid(RepairPrevious)
       THEN Record(want, RepairPrevious) /\ pc' = "tidy"
       ELSE pc' = "refused" /\ UNCHANGED <<index, keep>>
    /\ UNCHANGED <<tree, stages, state, want, crashes>>

Tidy == pc = "tidy" /\ Prune("running")

Stop ==
    /\ pc \in {"running", "refused"}
    /\ pc' = "down"
    /\ UNCHANGED <<disk, want, keep, crashes>>

\* Memory is lost, the disk is not.
Crash ==
    /\ pc # "down" /\ crashes < MaxCrashes
    /\ pc' = "down" /\ crashes' = crashes + 1
    /\ want' = None /\ keep' = None
    /\ UNCHANGED disk

Launcher == \/ Boot \/ PlanRun \/ (\E r \in Releases : PlanInstall(r)) \/ Activate
            \/ ActivateFails \/ Seal \/ RecordInstall \/ RecordFails \/ PruneInstall \/ SaveState
            \/ CheckRelease \/ Repair \/ Tidy \/ Stop

Next == Launcher \/ Crash

Spec == Init /\ [][Next]_vars

------------------------------------------------------------------------------

TypeOK ==
    /\ tree \in [Releases -> Trees] /\ stages \in BOOLEAN
    /\ index \in [current : Releases \cup {None}, previous : Releases \cup {None}]
    /\ index.previous # None => index.previous # index.current
    /\ state \in Releases \cup {None}
    /\ pc \in Steps /\ want \in Releases \cup {None} /\ keep \in Releases \cup {None}
    /\ crashes \in 0 .. MaxCrashes

\* The release of state.json is whole at every moment, kills inside a prune or
\* between index.json and state.json included.
InstalledReleaseIsWhole == state # None => Valid(state)

\* What index.json names is whole, so that the repair at launch, which refuses
\* to start a server over a bad pointer, never has to.
IndexNamesWholeReleases ==
    /\ index.current # None => Valid(index.current)
    /\ index.previous # None => Valid(index.previous)

\* No launch is refused for the sake of the release store.
NeverRefused == pc # "refused"

\* A server runs with an index that names its release, and nothing is left of
\* interrupted installations and removals.
RunsTidy ==
    pc = "running" => /\ index.current = state
                      /\ ~stages
                      /\ \A r \in Releases \ {index.current, index.previous} : tree[r] = "none"

\* The commit of an update leaves the release that ran before it, whole, as the
\* previous release.
UpdateKeepsPrevious ==
    [][state # None /\ state' # state =>
           index' = [current |-> state', previous |-> state] /\ tree'[state] = "whole"]_vars

==============================================================================
