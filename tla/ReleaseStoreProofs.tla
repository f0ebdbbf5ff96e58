-------------------------- MODULE ReleaseStoreProofs --------------------------
(***************************************************************************)
(* Proofs about ReleaseStore: the installed release is whole at every      *)
(* moment, no launch is refused for the sake of the store, a server runs   *)
(* with a tidy store, and an update keeps the release it replaces.         *)
(***************************************************************************)
EXTENDS ReleaseStore, TLAPS

(***************************************************************************)
(* The inductive invariant.                                                *)
(***************************************************************************)

Named(r, previous) == index = [current |-> r, previous |-> previous]

\* The release of state.json is one of the two that index.json names, which is
\* why a prune, that spares those two, spares it.
StateIsIndexed ==
    /\ state # None => state \in {index.current, index.previous}
    /\ index.current = None => index.previous = None

\* What the launcher has done to the release it installs...
Installing ==
    /\ pc = "activate" => want \in Releases
    /\ pc \in {"seal", "record"} => Valid(want)
    /\ pc \in {"prune", "save"} => /\ Valid(want) /\ Named(want, keep)
                                   /\ state \notin {None, want} => keep = state

\* ... or launches.
Launching ==
    /\ pc \in {"launch", "repair", "tidy", "running"} => want = state /\ state # None
    /\ pc \in {"tidy", "running"} => Named(want, keep)
    /\ pc = "running" => Doomed = {} /\ ~stages

Inv ==
    /\ TypeOK
    /\ InstalledReleaseIsWhole /\ IndexNamesWholeReleases /\ NeverRefused
    /\ StateIsIndexed /\ Installing /\ Launching

------------------------------------------------------------------------------

LEMMA InitEstablishesInv == Init => Inv
<1> SUFFICES ASSUME Init PROVE Inv
  OBVIOUS
<1>1. TypeOK
  <2>1. tree \in [Releases -> Trees]
    BY DEF Init, Trees
  <2>2. index \in [current : Releases \cup {None}, previous : Releases \cup {None}]
        /\ (index.previous # None => index.previous # index.current)
    BY DEF Init, NoIndex
  <2>3. crashes \in 0 .. MaxCrashes
    BY ReleaseAssumption DEF Init
  <2> QED BY <2>1, <2>2, <2>3 DEF Init, TypeOK, Steps
<1>2. pc = "down" /\ index.current = None /\ index.previous = None /\ state = None
  BY DEF Init, NoIndex
<1> QED BY <1>1, <1>2
     DEF Inv, InstalledReleaseIsWhole, IndexNamesWholeReleases, NeverRefused, StateIsIndexed,
         Installing, Launching

\* A prune takes apart only what is neither the current nor the kept release.
LEMMA PruneSparesOthers ==
    ASSUME NEW after, TypeOK, Prune(after)
    PROVE  /\ tree' \in [Releases -> Trees]
           /\ \A r \in Releases : r \in {want, keep} => tree'[r] = tree[r]
           /\ stages' \in BOOLEAN
           /\ (pc' = after /\ Doomed = {} /\ tree' = tree /\ ~stages') \/ pc' = pc
<1>1. CASE Doomed = {}
  BY <1>1 DEF Prune, TypeOK
<1>2. CASE Doomed # {}
  <2>1. PICK r \in Doomed, t \in {"headless", "hollow", "none"} : tree' = [tree EXCEPT ![r] = t]
    BY <1>2 DEF Prune
  <2>2. stages' = stages /\ pc' = pc
    BY <1>2 DEF Prune
  <2> QED
    BY <2>1, <2>2 DEF TypeOK, Doomed, Trees
<1> QED BY <1>1, <1>2

\* What is recorded are two different releases, and both are whole.
LEMMA RecordNamesWhole ==
    ASSUME NEW r, NEW prev, r \in Releases, prev \in Releases \cup {None},
           TypeOK, IndexNamesWholeReleases, prev # None => Valid(prev), Record(r, prev)
    PROVE  /\ Valid(r)
           /\ index' = [current |-> r, previous |-> keep']
           /\ keep' \in Releases \cup {None} /\ keep' # r
           /\ keep' # None => Valid(keep')
           /\ prev # r => keep' = prev
<1> USE ReleaseAssumption
<1>1. PreviousOf(r, prev) \in Releases \cup {None} /\ PreviousOf(r, prev) # r
  BY DEF PreviousOf, TypeOK, Valid
<1>2. PreviousOf(r, prev) # None => Valid(PreviousOf(r, prev))
  BY DEF PreviousOf, Valid
<1>3. prev # r => PreviousOf(r, prev) = prev
  BY DEF PreviousOf
<1>4. ~Valid(None)
  BY DEF Valid
<1> QED BY <1>1, <1>2, <1>3, <1>4 DEF Record

------------------------------------------------------------------------------
(***************************************************************************)
(* The steps of the launcher. What a step leaves of the store is a fact of *)
(* its own, and what it says of the launcher follows.                      *)
(***************************************************************************)

\* Nothing on the disk changes, but for stages, and the launcher goes on.
LEMMA DiskUnchanged ==
    ASSUME Inv, UNCHANGED <<tree, index, state>>, stages' \in BOOLEAN,
           pc' \in Steps \ {"refused"}, want' \in Releases \cup {None},
           keep' \in Releases \cup {None}, crashes' \in 0 .. MaxCrashes,
           Installing', Launching'
    PROVE  Inv'
BY DEF Inv, TypeOK, InstalledReleaseIsWhole, IndexNamesWholeReleases, NeverRefused,
       StateIsIndexed, Valid

LEMMA PruneKeepsInv ==
    ASSUME NEW after \in {"save", "running"}, Inv, Prune(after), Named(want, keep),
           IF after = "save" THEN pc = "prune" ELSE pc = "tidy"
    PROVE  Inv'
<1> USE ReleaseAssumption
<1>1. /\ tree' \in [Releases -> Trees] /\ stages' \in BOOLEAN
      /\ \A r \in Releases : r \in {want, keep} => tree'[r] = tree[r]
      /\ (pc' = after /\ Doomed = {} /\ tree' = tree /\ ~stages') \/ pc' = pc
  BY PruneSparesOthers DEF Inv
<1>2. UNCHANGED <<index, state, want, keep, crashes>>
  BY DEF Prune
<1>3. \A r \in {want, keep} : Valid(r) => Valid(r)'
  BY <1>1 DEF Valid
<1>4. index.current = want /\ index.previous = keep
  BY DEF Named
<1>5. TypeOK'
  BY <1>1, <1>2 DEF Inv, TypeOK, Steps
<1>6. InstalledReleaseIsWhole' /\ IndexNamesWholeReleases' /\ StateIsIndexed'
  BY <1>2, <1>3, <1>4
  DEF Inv, InstalledReleaseIsWhole, IndexNamesWholeReleases, StateIsIndexed, Valid
<1>7. NeverRefused'
  BY <1>1 DEF NeverRefused
<1>8. Installing'
  BY <1>1, <1>2, <1>3 DEF Inv, Installing, Named, Valid
<1>9. Launching'
  <2>1. Doomed = {} /\ tree' = tree => Doomed' = {}
    BY <1>2 DEF Doomed
  <2> QED BY <1>1, <1>2, <2>1 DEF Inv, Launching, Named
<1> QED BY <1>5, <1>6, <1>7, <1>8, <1>9 DEF Inv

LEMMA RecordKeepsInv ==
    ASSUME Inv, NEW prev \in Releases \cup {None}, want \in Releases,
           prev # None => Valid(prev), Record(want, prev),
           state # None => state \in {want, prev},
           UNCHANGED <<tree, stages, state, want, crashes>>,
           \/ pc = "record" /\ pc' = "prune"
           \/ pc = "repair" /\ pc' = "tidy"
    PROVE  Inv'
<1> USE ReleaseAssumption
<1>1. /\ Valid(want)
      /\ index' = [current |-> want, previous |-> keep']
      /\ keep' \in Releases \cup {None} /\ keep' # want
      /\ keep' # None => Valid(keep')
      /\ prev # want => keep' = prev
  BY RecordNamesWhole DEF Inv
<1>2. index'.current = want /\ index'.previous = keep' /\ want # None
  BY <1>1
<1>3. \A r : Valid(r)' <=> Valid(r)
  BY DEF Valid
<1>4. TypeOK'
  BY <1>1, <1>2 DEF Inv, TypeOK, Steps
<1>5. InstalledReleaseIsWhole' /\ IndexNamesWholeReleases' /\ NeverRefused'
  BY <1>1, <1>2, <1>3 DEF Inv, InstalledReleaseIsWhole, IndexNamesWholeReleases, NeverRefused, Valid
<1>6. StateIsIndexed'
  BY <1>1, <1>2 DEF StateIsIndexed
<1>7. Installing' /\ Launching'
  BY <1>1, <1>2, <1>3 DEF Inv, Installing, Launching, Named, Valid
<1> QED BY <1>4, <1>5, <1>6, <1>7 DEF Inv

LEMMA StepKeepsInv == Inv /\ [Next]_vars => Inv'
<1> SUFFICES ASSUME Inv, [Next]_vars PROVE Inv'
  OBVIOUS
<1> USE ReleaseAssumption
<1>1. TypeOK /\ index.current \in Releases \cup {None} /\ index.previous \in Releases \cup {None}
  BY DEF Inv, TypeOK
<1>2. CASE UNCHANGED vars
  BY <1>2, <1>1, DiskUnchanged
  DEF vars, disk, Inv, TypeOK, NeverRefused, Installing, Launching, Named, Valid, Doomed
<1>3. CASE Boot
  <2> UNCHANGED <<disk, want, keep, crashes>> /\ pc' = "plan"
    BY <1>3 DEF Boot
  <2> QED BY <1>1, DiskUnchanged DEF disk, TypeOK, Steps, Installing, Launching
<1>4. CASE PlanRun
  <2> UNCHANGED <<disk, keep, crashes>> /\ pc' = "launch" /\ want' = state /\ state # None
    BY <1>4 DEF PlanRun
  <2> QED BY <1>1, DiskUnchanged DEF disk, TypeOK, Steps, Installing, Launching
<1>5. ASSUME NEW r \in Releases, PlanInstall(r) PROVE Inv'
  <2> /\ UNCHANGED <<tree, index, state, keep, crashes>> /\ stages' \in BOOLEAN
      /\ pc' = "activate" /\ want' = r
    BY <1>5 DEF PlanInstall
  <2> QED BY <1>1, DiskUnchanged DEF TypeOK, Steps, Installing, Launching
<1>6. CASE Activate
  <2>1. /\ pc = "activate" /\ tree[want] \in {"none", "whole"} /\ want \in Releases
        /\ pc' = "seal" /\ stages' \in BOOLEAN
        /\ tree' = [tree EXCEPT ![want] = "whole"]
        /\ UNCHANGED <<index, state, want, keep, crashes>>
    BY <1>6 DEF Activate, Inv, Installing
  <2>2. tree' \in [Releases -> Trees] /\ \A r : Valid(r) => Valid(r)'
    BY <1>1, <2>1 DEF TypeOK, Trees, Valid
  <2>3. Valid(want)'
    BY <1>1, <2>1 DEF TypeOK, Valid
  <2>4. TypeOK'
    BY <1>1, <2>1, <2>2 DEF TypeOK, Steps
  <2>5. InstalledReleaseIsWhole' /\ IndexNamesWholeReleases' /\ NeverRefused' /\ StateIsIndexed'
    <3>1. InstalledReleaseIsWhole'
      BY <2>1, <2>2 DEF Inv, InstalledReleaseIsWhole
    <3>2. IndexNamesWholeReleases'
      BY <2>1, <2>2 DEF Inv, IndexNamesWholeReleases
    <3> QED BY <2>1, <3>1, <3>2 DEF Inv, NeverRefused, StateIsIndexed
  <2>6. Installing' /\ Launching'
    BY <2>1, <2>3 DEF Installing, Launching
  <2> QED BY <2>4, <2>5, <2>6 DEF Inv
<1>7. CASE ActivateFails
  <2> UNCHANGED <<tree, index, state, keep, crashes>> /\ stages' \in BOOLEAN /\ GiveUp
    BY <1>7 DEF ActivateFails
  <2> QED BY <1>1, DiskUnchanged DEF GiveUp, TypeOK, Steps, Installing, Launching
<1>8. CASE Seal
  <2>1. UNCHANGED <<disk, keep, crashes>> /\ pc = "seal"
    BY <1>8 DEF Seal
  <2>2. CASE pc' = "record" /\ UNCHANGED want
    BY <1>1, <2>1, <2>2, DiskUnchanged
    DEF disk, Inv, TypeOK, Steps, Installing, Launching, Valid
  <2>3. CASE GiveUp
    BY <1>1, <2>1, <2>3, DiskUnchanged DEF disk, GiveUp, TypeOK, Steps, Installing, Launching
  <2> QED BY <1>8, <2>2, <2>3 DEF Seal
<1>9. CASE RecordInstall
  <2>1. /\ pc = "record" /\ pc' = "prune" /\ Record(want, state)
        /\ UNCHANGED <<tree, stages, state, want, crashes>>
    BY <1>9 DEF RecordInstall
  <2>2. want \in Releases /\ state \in Releases \cup {None} /\ (state # None => Valid(state))
    BY <1>1, <2>1 DEF Inv, TypeOK, Installing, InstalledReleaseIsWhole, Valid
  <2> QED BY <2>1, <2>2, RecordKeepsInv
<1>10. CASE RecordFails
  <2> UNCHANGED <<disk, want, keep, crashes>> /\ pc' = "down"
    BY <1>10 DEF RecordFails
  <2> QED BY <1>1, DiskUnchanged DEF disk, TypeOK, Steps, Installing, Launching
<1>11. CASE PruneInstall
  <2>1. pc = "prune" /\ Prune("save") /\ Named(want, keep)
    BY <1>11 DEF PruneInstall, Inv, Installing
  <2> QED BY <2>1, PruneKeepsInv
<1>12. CASE SaveState
  <2>1. /\ pc = "save" /\ pc' = "launch" /\ state' = want
        /\ UNCHANGED <<tree, stages, index, want, keep, crashes>>
        /\ Valid(want) /\ index.current = want
    BY <1>12 DEF SaveState, Inv, Installing, Named
  <2>2. TypeOK' /\ want # None
    BY <1>1, <2>1 DEF TypeOK, Steps, Valid
  <2>3. InstalledReleaseIsWhole' /\ IndexNamesWholeReleases' /\ NeverRefused' /\ StateIsIndexed'
    BY <2>1, <2>2
    DEF Inv, InstalledReleaseIsWhole, IndexNamesWholeReleases, NeverRefused, StateIsIndexed, Valid
  <2>4. Installing' /\ Launching'
    BY <2>1, <2>2 DEF Installing, Launching
  <2> QED BY <2>2, <2>3, <2>4 DEF Inv
<1>13. CASE CheckRelease
  <2>1. UNCHANGED <<disk, want, keep, crashes>> /\ pc = "launch" /\ want = state /\ state # None
    BY <1>13 DEF CheckRelease, Inv, Launching
  <2>2. pc' = "repair"
    BY <1>13, <2>1 DEF CheckRelease, Inv, InstalledReleaseIsWhole
  <2> QED BY <1>1, <2>1, <2>2, DiskUnchanged DEF disk, TypeOK, Steps, Installing, Launching
<1>14. CASE Repair
  <2>1. pc = "repair" /\ want = state /\ state \in Releases
        /\ UNCHANGED <<tree, stages, state, want, crashes>>
    BY <1>14, <1>1 DEF Repair, Inv, Launching, TypeOK
  <2>2. /\ RepairPrevious \in Releases \cup {None}
        /\ RepairPrevious # None => Valid(RepairPrevious)
    BY <1>1 DEF RepairPrevious, Inv, IndexNamesWholeReleases
  <2>3. Record(want, RepairPrevious) /\ pc' = "tidy"
    BY <1>14, <2>2 DEF Repair
  <2> QED BY <2>1, <2>2, <2>3, RecordKeepsInv
<1>15. CASE Tidy
  <2>1. pc = "tidy" /\ Prune("running") /\ Named(want, keep)
    BY <1>15 DEF Tidy, Inv, Launching
  <2> QED BY <2>1, PruneKeepsInv
<1>16. CASE Stop
  <2> UNCHANGED <<disk, want, keep, crashes>> /\ pc' = "down"
    BY <1>16 DEF Stop
  <2> QED BY <1>1, DiskUnchanged DEF disk, TypeOK, Steps, Installing, Launching
<1>17. CASE Crash
  <2> /\ UNCHANGED disk /\ pc' = "down" /\ want' = None /\ keep' = None
      /\ crashes' \in 0 .. MaxCrashes
    BY <1>17, <1>1 DEF Crash, TypeOK
  <2> QED BY <1>1, DiskUnchanged DEF disk, TypeOK, Steps, Installing, Launching
<1> QED BY <1>2, <1>3, <1>4, <1>5, <1>6, <1>7, <1>8, <1>9, <1>10, <1>11, <1>12, <1>13, <1>14,
           <1>15, <1>16, <1>17 DEF Next, Launcher

LEMMA Invariance == Spec => []Inv
<1>1. Init => Inv
  BY InitEstablishesInv
<1>2. Inv /\ [Next]_vars => Inv'
  BY StepKeepsInv
<1> QED BY <1>1, <1>2, PTL DEF Spec

------------------------------------------------------------------------------
(***************************************************************************)
(* Theorems.                                                               *)
(***************************************************************************)

\* The store is well typed, for every set of releases and any crashes.
THEOREM TypeCorrect == Spec => []TypeOK
<1>1. Inv => TypeOK
  BY DEF Inv
<1> QED BY <1>1, Invariance, PTL

\* The release of state.json is whole at every moment (release_store.go:476).
THEOREM InstalledReleaseWhole == Spec => []InstalledReleaseIsWhole
<1>1. Inv => InstalledReleaseIsWhole
  BY DEF Inv
<1> QED BY <1>1, Invariance, PTL

\* No launch ends in RELEASE_MISSING or RELEASE_INDEX (release_store.go:533).
THEOREM LaunchesAreNotRefused == Spec => []NeverRefused
<1>1. Inv => NeverRefused
  BY DEF Inv
<1> QED BY <1>1, Invariance, PTL

\* A server runs with a store of its release and the previous one only
\* (release_store.go:545).
THEOREM ServersRunTidy == Spec => []RunsTidy
<1>1. Inv => RunsTidy
  <2> SUFFICES ASSUME Inv, pc = "running" PROVE RunsTidy
    BY DEF RunsTidy
  <2>1. index.current = want /\ index.previous = keep /\ want = state /\ Doomed = {} /\ ~stages
    BY DEF Inv, Launching, Named
  <2>2. ASSUME NEW r \in Releases \ {want, keep} PROVE tree[r] = "none"
    BY <2>1, <2>2 DEF Doomed
  <2> QED BY <2>1, <2>2 DEF RunsTidy
<1> QED BY <1>1, Invariance, PTL

\* The commit of an update leaves the release it replaces, whole, as the
\* previous one (release_store.go:451).
THEOREM UpdatesKeepPrevious == Spec => UpdateKeepsPrevious
<1> DEFINE Kept == state # None /\ state' # state =>
                     index' = [current |-> state', previous |-> state] /\ tree'[state] = "whole"
<1>1. Inv /\ [Next]_vars => Kept
  <2> SUFFICES ASSUME Inv, [Next]_vars, state # None, state' # state PROVE Kept
    OBVIOUS
  <2>1. SaveState
    BY DEF Next, Launcher, vars, disk, Boot, PlanRun, PlanInstall, Activate, ActivateFails, Seal,
           RecordInstall, RecordFails, PruneInstall, Prune, CheckRelease, Repair, Tidy, Stop, Crash
  <2>2. state' = want /\ UNCHANGED <<tree, index>> /\ Named(want, keep) /\ keep = state
    BY <2>1 DEF SaveState, Inv, Installing
  <2>3. tree[state] = "whole"
    BY DEF Inv, InstalledReleaseIsWhole, Valid
  <2> QED BY <2>2, <2>3 DEF Named
<1>2. Inv /\ [Next]_vars => [Kept]_vars
  BY <1>1
<1> QED BY <1>2, Invariance, PTL DEF Spec, UpdateKeepsPrevious

==============================================================================
