---------------------------- MODULE RuntimeCache -----------------------------
(***************************************************************************)
(* The runtime cache .pcvm/cache (runtime.go, cache.go), filled by the     *)
(* launcher when it prepares an installation and before every launch, and  *)
(* pruned by the launcher and by `pcvm cache prune` (diagnostics.go),      *)
(* which is a process of its own and takes no lock.                        *)
(***************************************************************************)
EXTENDS Naturals, FiniteSets, SequencesExt

CONSTANTS
    Runtimes,    \* the runtime trees of the catalog
    Stagings,    \* names for .tree-* directories
    None,
    MaxCrashes,  \* bound on the crashes of the launcher
    MaxPrunes    \* bound on the calls of `pcvm cache prune`

ASSUME CacheAssumption ==
    Runtimes \cap Stagings = {} /\ None \notin Runtimes \cup Stagings
    /\ MaxCrashes \in Nat /\ MaxPrunes \in Nat

VARIABLES
    dirs,       \* the directories of trees/sha256, the most recently modified first
    whole,      \* those that hold every file of their manifest
    receipts, blobs,
    artifact,   \* the download of the installation in preparation
    active,     \* the runtime of state.json
    tight,      \* CACHE_LIMIT_MB has room for one tree only
    pc,         \* next step of each process
    aim,        \* what the launcher needs the runtime want for
    want,
    staging,    \* the launcher's own .tree-* directory
    keep, prior, doomed,   \* of each process's prune
    disturbed,  \* a prune overlapped the work of this launcher before its launch
    crashes, prunes

cache == <<dirs, whole, receipts, blobs, artifact>>
prune == <<keep, prior, doomed>>
bounds == <<crashes, prunes>>
vars == <<cache, active, tight, pc, aim, want, staging, prune, disturbed, bounds>>

Procs == {"launcher", "pruner"}
Names == Runtimes \cup Stagings
PruneSteps == {"list", "remove", "blobs", "receipts", "limit"}
Steps == PruneSteps \cup {"down", "plan", "fetch", "ensure", "download", "extract", "activate",
                          "receipt", "consume", "install", "clean", "running"}

Init ==
    /\ dirs = <<>> /\ whole = {} /\ receipts = {} /\ blobs = {} /\ artifact = FALSE
    /\ active = None /\ tight \in BOOLEAN
    /\ pc = [p \in Procs |-> "down"] /\ aim = "launch" /\ want = None /\ staging = None
    /\ keep = [p \in Procs |-> None] /\ prior = keep /\ doomed = [p \in Procs |-> {}]
    /\ disturbed = FALSE /\ crashes = 0 /\ prunes = 0

At(p, step) == pc[p] = step
Goto(p, step) == pc' = [pc EXCEPT ![p] = step]

Present(d) == Contains(dirs, d)
Without(d) == IF Present(d) THEN RemoveAt(dirs, CHOOSE i \in DOMAIN dirs : dirs[i] = d) ELSE dirs
Newest(d) == <<d>> \o Without(d)

\* loadRuntimeTreeReceipt and installedRuntimeTreeMatches.
Verified(r) == r \in receipts /\ Present(r) /\ r \in whole

\* os.RemoveAll, which a crash or another process may see half done; removing
\* a child makes the directory the most recently modified one.
Break(d) == whole' = whole \ {d} /\ dirs' \in {dirs, Newest(d)}
Gone(d) == whole' = whole \ {d} /\ dirs' = Without(d)

------------------------------------------------------------------------------
\* The launcher.

LauncherKeeps == UNCHANGED <<active, tight, prune, disturbed, bounds>>

Boot ==
    /\ At("launcher", "down")
    /\ Goto("launcher", "plan") /\ disturbed' = ~At("pruner", "down")
    /\ aim' = "launch" /\ want' = None
    /\ UNCHANGED <<cache, active, tight, staging, prune, bounds>>

PlanLaunch ==
    /\ At("launcher", "plan") /\ active # None
    /\ Goto("launcher", "ensure") /\ aim' = "launch" /\ want' = active
    /\ UNCHANGED <<cache, staging>> /\ LauncherKeeps

\* An installation, update or reset with the runtime r: (*App).prepare, which
\* comes before the confirmation of a reset.
PlanInstall(r) ==
    /\ At("launcher", "plan")
    /\ Goto("launcher", "fetch") /\ aim' = "prepare" /\ want' = r
    /\ UNCHANGED <<cache, staging>> /\ LauncherKeeps

\* A failed update runs the installed release; a failed or unconfirmed reset
\* and a failed first installation end the launcher.
GiveUp ==
    /\ staging' = None
    /\ \/ Goto("launcher", "down") /\ UNCHANGED <<aim, want>>
       \/ /\ aim = "prepare" /\ active # None
          /\ Goto("launcher", "ensure") /\ aim' = "launch" /\ want' = active

FetchArtifact ==
    /\ At("launcher", "fetch")
    /\ \/ artifact' = TRUE /\ Goto("launcher", "ensure") /\ UNCHANGED <<aim, want, staging>>
       \/ UNCHANGED artifact /\ GiveUp
    /\ UNCHANGED <<dirs, whole, receipts, blobs>> /\ LauncherKeeps

Ensured == Goto("launcher", CASE aim = "prepare" -> "install"
                              [] aim = "launch" -> "clean"
                              [] OTHER -> "running")

\* Mutant: the receipt alone makes a hit.
HitByReceipt ==
    /\ At("launcher", "ensure") /\ want \in receipts /\ Present(want)
    /\ dirs' = Newest(want) /\ blobs' = blobs \ {want}
    /\ Ensured
    /\ UNCHANGED <<whole, receipts, artifact, aim, want, staging>> /\ LauncherKeeps

Hit ==
    /\ At("launcher", "ensure") /\ Verified(want)
    /\ dirs' = Newest(want) /\ blobs' = blobs \ {want}
    /\ Ensured
    /\ UNCHANGED <<whole, receipts, artifact, aim, want, staging>> /\ LauncherKeeps

\* The tree that is missing or failed verification is removed, its receipt too.
Miss ==
    /\ At("launcher", "ensure") /\ ~Verified(want)
    /\ \/ Present(want) /\ want \in whole /\ Break(want) /\ UNCHANGED <<pc, receipts>>
       \/ /\ Gone(want) /\ receipts' = receipts \ {want}
          /\ Goto("launcher", "download")
    /\ UNCHANGED <<blobs, artifact, aim, want, staging>> /\ LauncherKeeps

Download ==
    /\ At("launcher", "download")
    /\ \/ /\ blobs' = blobs \cup {want}
          /\ \E s \in Stagings : ~Present(s) /\ staging' = s /\ dirs' = Newest(s)
          /\ Goto("launcher", "extract") /\ UNCHANGED <<aim, want>>
       \/ UNCHANGED <<blobs, dirs>> /\ GiveUp
    /\ UNCHANGED <<whole, receipts, artifact>> /\ LauncherKeeps

\* The archive is extracted and the result verified.
Extract ==
    /\ At("launcher", "extract") /\ want \in blobs /\ Present(staging)
    /\ whole' = whole \cup {staging} /\ dirs' = Newest(staging)
    /\ Goto("launcher", "activate")
    /\ UNCHANGED <<receipts, blobs, artifact, aim, want, staging>> /\ LauncherKeeps

\* A failure removes the staging directory on the way out.
ExtractFails ==
    /\ At("launcher", "extract")
    /\ Gone(staging) /\ GiveUp
    /\ UNCHANGED <<receipts, blobs, artifact>> /\ LauncherKeeps

\* The rename of the staging directory to the name of its tree.
Activate ==
    /\ At("launcher", "activate") /\ Present(staging)
    /\ dirs' = [i \in DOMAIN dirs |-> IF dirs[i] = staging THEN want ELSE dirs[i]]
    /\ whole' = {IF d = staging THEN want ELSE d : d \in whole}
    /\ staging' = None /\ Goto("launcher", "receipt")
    /\ UNCHANGED <<receipts, blobs, artifact, aim, want>> /\ LauncherKeeps

ActivateFails ==
    /\ At("launcher", "activate") /\ ~Present(staging)
    /\ GiveUp
    /\ UNCHANGED cache /\ LauncherKeeps

SaveReceipt ==
    /\ At("launcher", "receipt")
    /\ receipts' = receipts \cup {want} /\ Goto("launcher", "consume")
    /\ UNCHANGED <<dirs, whole, blobs, artifact, aim, want, staging>> /\ LauncherKeeps

\* The archive is removed and the cache pruned around the new tree.
Consume ==
    /\ At("launcher", "consume")
    /\ blobs' = blobs \ {want} /\ Goto("launcher", "list")
    /\ UNCHANGED <<dirs, whole, receipts, artifact, aim, want, staging>> /\ LauncherKeeps

\* The installation itself, up to the save of state.json.
Install ==
    /\ At("launcher", "install") /\ artifact
    /\ active' = want /\ aim' = "launch" /\ Goto("launcher", "ensure")
    /\ UNCHANGED <<cache, want, staging, tight, prune, disturbed, bounds>>

InstallFails ==
    /\ At("launcher", "install")
    /\ GiveUp
    /\ UNCHANGED cache /\ LauncherKeeps

\* cleanupConsumedInstallCache, before the prune of a launch.
CleanArtifacts ==
    /\ At("launcher", "clean")
    /\ artifact' = FALSE /\ aim' = "tidy" /\ Goto("launcher", "list")
    /\ UNCHANGED <<dirs, whole, receipts, blobs, want, staging>> /\ LauncherKeeps

Stop ==
    /\ At("launcher", "running")
    /\ Goto("launcher", "down")
    /\ UNCHANGED <<cache, aim, want, staging>> /\ LauncherKeeps

\* The launcher is killed, and with the container every other process.
Crash ==
    /\ ~At("launcher", "down") /\ crashes < MaxCrashes
    /\ crashes' = crashes + 1
    /\ pc' = [p \in Procs |-> "down"]
    /\ want' = None /\ staging' = None
    /\ keep' = [p \in Procs |-> None] /\ prior' = keep' /\ doomed' = [p \in Procs |-> {}]
    /\ UNCHANGED <<cache, active, tight, aim, disturbed, prunes>>

------------------------------------------------------------------------------
\* (RuntimeManager).Prune, of either process.

\* PruneCache: the artifacts go first, then the state is read.
PruneCommand ==
    /\ At("pruner", "down") /\ prunes < MaxPrunes /\ active # None
    /\ prunes' = prunes + 1 /\ artifact' = FALSE
    /\ keep' = [keep EXCEPT !["pruner"] = active]
    /\ disturbed' = (disturbed \/ pc["launcher"] \notin {"down", "running"})
    /\ Goto("pruner", "list")
    /\ UNCHANGED <<dirs, whole, receipts, blobs, active, tight, aim, want, staging, prior, doomed,
                   crashes>>

PruneKeeps == UNCHANGED <<active, tight, aim, want, staging, disturbed, bounds>>

\* The most recent directory beside the kept one is the prior one.
List(p) ==
    LET root == IF p = "pruner" THEN keep[p] ELSE want
        rest == Without(root)
    IN  /\ At(p, "list")
        /\ keep' = [keep EXCEPT ![p] = root]
        /\ prior' = [prior EXCEPT ![p] = IF rest = <<>> THEN None ELSE Head(rest)]
        /\ doomed' = [doomed EXCEPT ![p] = IF rest = <<>> THEN {} ELSE ToSet(Tail(rest))]
        /\ Goto(p, "remove")
        /\ UNCHANGED cache /\ PruneKeeps

RemoveTree(p) ==
    /\ At(p, "remove")
    /\ \E d \in doomed[p] :
          \/ d \in whole /\ Break(d) /\ UNCHANGED doomed
          \/ Gone(d) /\ doomed' = [doomed EXCEPT ![p] = @ \ {d}]
    /\ UNCHANGED <<receipts, blobs, artifact, pc, aim, keep, prior>> /\ PruneKeeps

RemoveBlobs(p) ==
    /\ At(p, "remove") /\ doomed[p] = {}
    /\ blobs' = {} /\ Goto(p, "receipts")
    /\ UNCHANGED <<dirs, whole, receipts, artifact, prune>> /\ PruneKeeps

\* Mutant: the receipts of removed trees stay.
KeepReceipts(p) ==
    /\ At(p, "receipts")
    /\ Goto(p, "limit")
    /\ UNCHANGED <<cache, prune>> /\ PruneKeeps

PruneReceipts(p) ==
    /\ At(p, "receipts")
    /\ receipts' = receipts \cap {keep[p], prior[p]} /\ Goto(p, "limit")
    /\ UNCHANGED <<dirs, whole, blobs, artifact, prune>> /\ PruneKeeps

\* Two trees exceed a tight limit when they are whole.
OverLimit(p) ==
    IF ~tight \/ prior[p] = None \/ ~Present(prior[p]) THEN {FALSE}
    ELSE IF {keep[p], prior[p]} \subseteq whole THEN {TRUE} ELSE BOOLEAN

Pruned(p) ==
    /\ IF p = "pruner" THEN Goto(p, "down") ELSE Ensured
    /\ keep' = [keep EXCEPT ![p] = None] /\ prior' = [prior EXCEPT ![p] = None]
    /\ UNCHANGED doomed

EnforceLimit(p) ==
    /\ At(p, "limit")
    /\ \E over \in OverLimit(p) :
          IF over
          THEN \/ prior[p] \in whole /\ Break(prior[p]) /\ UNCHANGED <<pc, receipts, prune>>
               \/ Gone(prior[p]) /\ receipts' = receipts \cap {keep[p]} /\ Pruned(p)
          ELSE UNCHANGED <<dirs, whole, receipts>> /\ Pruned(p)
    /\ UNCHANGED <<blobs, artifact>> /\ PruneKeeps

Prune == \E p \in Procs :
    List(p) \/ RemoveTree(p) \/ RemoveBlobs(p) \/ PruneReceipts(p) \/ EnforceLimit(p)

Next ==
    \/ Boot \/ PlanLaunch \/ (\E r \in Runtimes : PlanInstall(r)) \/ FetchArtifact
    \/ Hit \/ Miss \/ Download \/ Extract \/ ExtractFails \/ Activate \/ ActivateFails
    \/ SaveReceipt \/ Consume \/ Install \/ InstallFails
    \/ CleanArtifacts \/ Stop \/ Crash
    \/ PruneCommand \/ Prune

Spec == Init /\ [][Next]_vars

------------------------------------------------------------------------------

DirsOK == dirs \in Seq(Names) /\ IsInjective(dirs) /\ whole \subseteq ToSet(dirs)

CacheOK == receipts \subseteq Runtimes /\ blobs \subseteq Runtimes

LauncherOK ==
    /\ active \in Runtimes \cup {None} /\ want \in Runtimes \cup {None}
    /\ staging \in Stagings \cup {None} /\ aim \in {"prepare", "launch", "tidy"}

ProcsOK ==
    /\ pc \in [Procs -> Steps] /\ doomed \in [Procs -> SUBSET Names]
    /\ keep \in [Procs -> Runtimes \cup {None}] /\ prior \in [Procs -> Names \cup {None}]

FlagsOK == artifact \in BOOLEAN /\ tight \in BOOLEAN /\ disturbed \in BOOLEAN

BoundsOK == crashes \in 0 .. MaxCrashes /\ prunes \in 0 .. MaxPrunes

TypeOK == DirsOK /\ CacheOK /\ LauncherOK /\ ProcsOK /\ FlagsOK /\ BoundsOK

\* An installer and a server run on a runtime whose tree is whole, whatever
\* crashes and prunes came before, and whatever prune runs beside the server.
RuntimeIsUsable ==
    ~disturbed => /\ At("launcher", "install") => want \in whole
                  /\ At("launcher", "running") => Verified(active)

\* A server runs with the active tree and at most one other, their receipts
\* and no consumed download.
CacheIsTidy ==
    At("launcher", "running") /\ ~disturbed =>
        /\ Len(dirs) <= 2 /\ receipts \subseteq ToSet(dirs)
        /\ blobs = {} /\ ~artifact
        /\ tight => ToSet(dirs) \cap whole \subseteq {active}

\* README.md:141: the cache keeps the active runtime tree. The prune that
\* follows a preparation does not: it keeps the tree that was prepared.
ActiveRuntimeIsKept == active # None /\ At("launcher", "plan") /\ prunes = 0 => active \in whole

==============================================================================
