-------------------------- MODULE RuntimeCacheProofs ---------------------------
(***************************************************************************)
(* Proofs about RuntimeCache: an undisturbed launcher installs and serves  *)
(* on whole runtime trees, and a server runs on a tidy cache, whatever the *)
(* prune command does beside it.                                           *)
(***************************************************************************)
EXTENDS RuntimeCache, SequenceTheorems, TLAPS

Trees == ToSet(dirs)

(***************************************************************************)
(* The directories as a set.                                               *)
(***************************************************************************)

LEMMA PresentIsMember == ASSUME DirsOK PROVE \A d : Present(d) <=> d \in Trees
BY DEF DirsOK, Present, Contains, Trees, ToSet

LEMMA MemberIsIndexed ==
    ASSUME NEW s \in Seq(Names), NEW x
    PROVE  x \in ToSet(s) <=> \E i \in 1 .. Len(s) : s[i] = x
BY DEF ToSet

LEMMA InjectiveIs ==
    ASSUME NEW s \in Seq(Names)
    PROVE  IsInjective(s) <=> \A i, j \in 1 .. Len(s) : s[i] = s[j] => i = j
BY DEF IsInjective

\* What is left of s without its element at i is in places k or k + 1 of s.
LEMMA Squeezed ==
    ASSUME NEW s \in Seq(Names), IsInjective(s), NEW i \in 1 .. Len(s), NEW t \in Seq(Names),
           Len(t) = Len(s) - 1,
           \A k \in 1 .. Len(t) : t[k] = IF k < i THEN s[k] ELSE s[k + 1]
    PROVE  IsInjective(t) /\ ToSet(t) = ToSet(s) \ {s[i]}
<1>1. Len(s) \in Nat /\ \A j, k \in 1 .. Len(s) : s[j] = s[k] => j = k
  BY InjectiveIs
<1>2. \A k \in 1 .. Len(t) : k \in 1 .. Len(s) /\ k + 1 \in 1 .. Len(s)
  BY <1>1
<1>3. IsInjective(t)
  <2> SUFFICES ASSUME NEW j \in 1 .. Len(t), NEW k \in 1 .. Len(t), t[j] = t[k] PROVE j = k
    BY InjectiveIs
  <2> DEFINE at(m) == IF m < i THEN m ELSE m + 1
  <2>1. t[j] = s[at(j)] /\ t[k] = s[at(k)] /\ at(j) \in 1 .. Len(s) /\ at(k) \in 1 .. Len(s)
    BY <1>2
  <2>2. at(j) = at(k)
    BY <1>1, <2>1
  <2> QED BY <2>2
<1>4. ASSUME NEW x \in ToSet(t) PROVE x \in ToSet(s) /\ x # s[i]
  <2>1. PICK k \in 1 .. Len(t) : t[k] = x
    BY <1>4, MemberIsIndexed
  <2>2. CASE k < i
    <3>1. x = s[k] /\ k \in 1 .. Len(s) /\ k # i
      BY <1>2, <2>1, <2>2
    <3> QED BY <1>1, <3>1, MemberIsIndexed
  <2>3. CASE ~(k < i)
    <3>1. x = s[k + 1] /\ k + 1 \in 1 .. Len(s) /\ k + 1 # i
      BY <1>2, <2>1, <2>3
    <3> QED BY <1>1, <3>1, MemberIsIndexed
  <2> QED BY <2>2, <2>3
<1>5. ASSUME NEW x \in ToSet(s), x # s[i] PROVE x \in ToSet(t)
  <2>1. PICK j \in 1 .. Len(s) : s[j] = x
    BY <1>5, MemberIsIndexed
  <2>2. CASE j < i
    <3>1. j \in 1 .. Len(t) /\ t[j] = x
      BY <1>1, <2>1, <2>2
    <3> QED BY <3>1, MemberIsIndexed
  <2>3. CASE j > i
    <3>1. j - 1 \in 1 .. Len(t) /\ ~(j - 1 < i) /\ (j - 1) + 1 = j
      BY <1>1, <2>1, <2>3
    <3>2. t[j - 1] = x
      BY <2>1, <3>1
    <3> QED BY <3>1, <3>2, MemberIsIndexed
  <2>4. j # i
    BY <1>5, <2>1
  <2> QED BY <1>1, <2>2, <2>3, <2>4
<1> QED BY <1>3, <1>4, <1>5

LEMMA RemoveAtIs ==
    ASSUME NEW s \in Seq(Names), IsInjective(s), NEW i \in 1 .. Len(s)
    PROVE  /\ RemoveAt(s, i) \in Seq(Names) /\ IsInjective(RemoveAt(s, i))
           /\ ToSet(RemoveAt(s, i)) = ToSet(s) \ {s[i]}
<1> DEFINE a == SubSeq(s, 1, i - 1)
           b == SubSeq(s, i + 1, Len(s))
           t == a \o b
<1>1. Len(s) \in Nat /\ \A j \in 1 .. Len(s) : s[j] \in Names
  BY ElementOfSeq
<1>2. /\ a \in Seq(Names) /\ Len(a) = i - 1 /\ \A j \in 1 .. i - 1 : a[j] = s[j]
      /\ b \in Seq(Names) /\ Len(b) = Len(s) - i /\ \A j \in 1 .. Len(s) - i : b[j] = s[i + j]
  BY <1>1
<1> HIDE DEF a, b
<1>3. /\ t \in Seq(Names) /\ Len(t) = Len(s) - 1
      /\ \A j \in 1 .. Len(s) - 1 : t[j] = IF j < i THEN s[j] ELSE s[j + 1]
  <2>1. /\ t \in Seq(Names) /\ Len(t) = Len(a) + Len(b)
        /\ \A j \in 1 .. Len(a) + Len(b) : t[j] = IF j <= Len(a) THEN a[j] ELSE b[j - Len(a)]
    BY <1>2, ConcatProperties
  <2>2. Len(a) + Len(b) = Len(s) - 1
    BY <1>1, <1>2
  <2>3. ASSUME NEW j \in 1 .. Len(s) - 1 PROVE t[j] = IF j < i THEN s[j] ELSE s[j + 1]
    <3>1. CASE j < i
      <4>1. j \in 1 .. i - 1 /\ j <= Len(a)
        BY <1>1, <1>2, <3>1
      <4> QED BY <1>2, <2>1, <2>2, <3>1, <4>1
    <3>2. CASE ~(j < i)
      <4>1. j - Len(a) \in 1 .. Len(s) - i /\ ~(j <= Len(a)) /\ i + (j - Len(a)) = j + 1
        BY <1>1, <1>2, <3>2
      <4>2. t[j] = b[j - Len(a)]
        BY <2>1, <2>2, <4>1
      <4>3. b[j - Len(a)] = s[i + (j - Len(a))]
        BY <1>2, <4>1
      <4> QED BY <3>2, <4>1, <4>2, <4>3
    <3> QED BY <3>1, <3>2
  <2> QED BY <2>1, <2>2, <2>3
<1>4. RemoveAt(s, i) = t
  BY DEF RemoveAt, a, b
<1> HIDE DEF t
<1>5. \A k \in 1 .. Len(t) : t[k] = IF k < i THEN s[k] ELSE s[k + 1]
  BY <1>3
<1>6. IsInjective(t) /\ ToSet(t) = ToSet(s) \ {s[i]}
  BY <1>3, <1>5, Squeezed
<1> QED BY <1>3, <1>4, <1>6

LEMMA WithoutIs ==
    ASSUME DirsOK, NEW d
    PROVE  /\ Without(d) \in Seq(Names) /\ IsInjective(Without(d))
           /\ ToSet(Without(d)) = Trees \ {d}
<1>1. CASE Present(d)
  <2> DEFINE i == CHOOSE i \in DOMAIN dirs : dirs[i] = d
  <2>1. i \in 1 .. Len(dirs) /\ dirs[i] = d
    BY <1>1 DEF Present, Contains, DirsOK
  <2> HIDE DEF i
  <2>2. Without(d) = RemoveAt(dirs, i)
    BY <1>1 DEF Without, i
  <2> QED BY <2>1, <2>2, RemoveAtIs DEF DirsOK, Trees
<1>2. CASE ~Present(d)
  BY <1>2, PresentIsMember DEF Without, DirsOK, Trees
<1> QED BY <1>1, <1>2

LEMMA NewestIs ==
    ASSUME DirsOK, NEW d \in Names
    PROVE  /\ Newest(d) \in Seq(Names) /\ IsInjective(Newest(d))
           /\ ToSet(Newest(d)) = Trees \cup {d}
<1> DEFINE s == Without(d)
           t == <<d>> \o s
<1>1. s \in Seq(Names) /\ IsInjective(s) /\ ToSet(s) = Trees \ {d}
  BY WithoutIs
<1>2. t = Newest(d)
  BY DEF Newest
<1> HIDE DEF s
<1>3. Len(s) \in Nat /\ <<d>> \in Seq(Names) /\ Len(<<d>>) = 1
  BY <1>1
<1>4. /\ t \in Seq(Names) /\ Len(t) = Len(s) + 1
      /\ t[1] = d /\ \A i \in 2 .. Len(s) + 1 : t[i] = s[i - 1]
  BY <1>1, <1>3, ConcatProperties
<1> HIDE DEF t
<1>5. \A i \in 1 .. Len(s) : s[i] # d
  BY <1>1, MemberIsIndexed
<1>6. IsInjective(t)
  <2>1. \A i, j \in 1 .. Len(s) : s[i] = s[j] => i = j
    BY <1>1, InjectiveIs
  <2> QED BY <1>1, <1>3, <1>4, <1>5, <2>1, InjectiveIs
<1>7. ASSUME NEW x PROVE x \in ToSet(t) <=> x \in ToSet(s) \cup {d}
  <2>1. \A i \in 1 .. Len(s) : i + 1 \in 2 .. Len(s) + 1 /\ t[i + 1] = s[i]
    BY <1>3, <1>4
  <2>2. x \in ToSet(t) <=> \E i \in 1 .. Len(s) + 1 : t[i] = x
    BY <1>4, MemberIsIndexed
  <2>3. x \in ToSet(s) <=> \E i \in 1 .. Len(s) : s[i] = x
    BY <1>1, MemberIsIndexed
  <2> QED BY <1>3, <1>4, <2>1, <2>2, <2>3
<1> QED BY <1>1, <1>2, <1>4, <1>6, <1>7

LEMMA RestIs ==
    ASSUME NEW s \in Seq(Names), IsInjective(s), s # <<>>
    PROVE  Head(s) \in ToSet(s) /\ ToSet(Tail(s)) = ToSet(s) \ {Head(s)}
<1>1. /\ Len(s) \in Nat \ {0} /\ Head(s) = s[1]
      /\ Tail(s) \in Seq(Names) /\ Len(Tail(s)) = Len(s) - 1
      /\ \A i \in 1 .. Len(Tail(s)) : Tail(s)[i] = s[i + 1]
  BY HeadTailProperties, EmptySeq
<1>2. \A k \in 1 .. Len(Tail(s)) : Tail(s)[k] = IF k < 1 THEN s[k] ELSE s[k + 1]
  BY <1>1
<1>3. 1 \in 1 .. Len(s)
  BY <1>1
<1> DEFINE t == Tail(s)
<1> HIDE DEF t
<1>4. ToSet(t) = ToSet(s) \ {s[1]}
  BY <1>1, <1>2, <1>3, Squeezed DEF t
<1>5. s[1] \in ToSet(s)
  BY <1>3, MemberIsIndexed
<1> QED BY <1>1, <1>4, <1>5 DEF t

\* The sequences of directories that steps of the code leave behind.
LEMMA BreakIs ==
    ASSUME DirsOK, NEW d \in Trees, Break(d)
    PROVE  DirsOK' /\ Trees' = Trees /\ whole' = whole \ {d}
<1>1. d \in Names
  BY DEF DirsOK, Trees, ToSet
<1> QED BY <1>1, NewestIs DEF Break, DirsOK, Trees

LEMMA GoneIs ==
    ASSUME DirsOK, NEW d, Gone(d)
    PROVE  DirsOK' /\ Trees' = Trees \ {d} /\ whole' = whole \ {d}
BY WithoutIs DEF Gone, DirsOK, Trees

LEMMA TouchIs ==
    ASSUME DirsOK, NEW d \in Names, dirs' = Newest(d), whole' \subseteq whole \cup {d}
    PROVE  DirsOK' /\ Trees' = Trees \cup {d}
BY NewestIs DEF DirsOK, Trees

LEMMA RenameIs ==
    ASSUME DirsOK, NEW s \in Trees, NEW r \in Names \ Trees,
           dirs' = [i \in DOMAIN dirs |-> IF dirs[i] = s THEN r ELSE dirs[i]],
           whole' = {IF d = s THEN r ELSE d : d \in whole}
    PROVE  DirsOK' /\ (s \in whole => r \in whole')
<1>1. dirs \in [1 .. Len(dirs) -> Names] /\ Len(dirs) \in Nat /\ DOMAIN dirs = 1 .. Len(dirs)
  BY DEF DirsOK
<1>2. \A i \in 1 .. Len(dirs) : dirs[i] \in Trees
  BY <1>1 DEF Trees, ToSet
<1>3. dirs' \in Seq(Names) /\ DOMAIN dirs' = 1 .. Len(dirs)
  BY <1>1
<1>4. IsInjective(dirs')
  BY <1>1, <1>2, <1>3 DEF DirsOK, IsInjective
<1>5. whole' \subseteq ToSet(dirs')
  <2> SUFFICES ASSUME NEW d \in whole PROVE (IF d = s THEN r ELSE d) \in ToSet(dirs')
    OBVIOUS
  <2>1. PICK i \in 1 .. Len(dirs) : dirs[i] = d
    BY <1>1 DEF DirsOK, ToSet
  <2>2. dirs'[i] = IF d = s THEN r ELSE d
    BY <1>1, <2>1
  <2> QED BY <1>3, <2>2 DEF ToSet
<1> QED BY <1>3, <1>4, <1>5 DEF DirsOK

(***************************************************************************)
(* The inductive invariant.                                                *)
(***************************************************************************)

Filling == {"extract", "activate"}
Removing == {"remove", "receipts", "limit"}

\* The tree r is whole and has its receipt: in these states Verified(r).
Usable(r) == r \in receipts \cap whole

\* What the launcher is after at each of its steps.
Control ==
    /\ pc["pruner"] \in PruneSteps \cup {"down"}
    /\ pc["launcher"] \notin {"down", "plan"} => want \in Runtimes
    /\ pc["launcher"] \in Filling => staging \in Stagings
    /\ pc["launcher"] \in Filling \cup {"download"} => want \notin Trees
    /\ aim # "prepare" /\ pc["launcher"] \notin {"down", "plan"} => want = active
    /\ pc["launcher"] \in {"fetch", "install"} => aim = "prepare"
    /\ pc["launcher"] \in Filling \cup {"ensure", "download", "receipt", "consume"} => aim # "tidy"
    /\ pc["launcher"] = "clean" => aim = "launch"
    /\ pc["launcher"] = "running" => aim = "tidy"

\* What a prune has to remove never is the tree it keeps nor the prior one.
Round(p) ==
    /\ pc[p] # "remove" => doomed[p] = {}
    /\ pc[p] \in Removing => /\ keep[p] \in Runtimes /\ prior[p] # keep[p]
                            /\ {keep[p], prior[p]} \cap doomed[p] = {}

Pruning ==
    /\ Round("launcher") /\ Round("pruner")
    /\ pc["launcher"] \in Removing => keep["launcher"] = want
    /\ pc["pruner"] # "down" => keep["pruner"] \in Runtimes

\* No prune is under way beside an undisturbed launcher but while its server
\* runs, and that one keeps the active tree.
Beside ==
    ~disturbed /\ pc["pruner"] # "down" =>
        /\ pc["launcher"] \in {"down", "running"}
        /\ pc["launcher"] = "running" => keep["pruner"] = active /\ doomed["pruner"] = {}

\* How far the tree in preparation is.
Made ==
    ~disturbed =>
        /\ pc["launcher"] \in Filling => staging \in Trees
        /\ pc["launcher"] = "activate" => staging \in whole
        /\ pc["launcher"] = "receipt" => want \in whole
        /\ pc["launcher"] \in Removing \cup {"consume", "list", "install", "clean", "running"} =>
              Usable(want)

\* How far the prune before a launch is.
Tidying ==
    ~disturbed /\ aim = "tidy" =>
        /\ pc["launcher"] \in Removing \cup {"list", "running"} => ~artifact
        /\ pc["launcher"] \in Removing =>
              /\ Trees \subseteq {want, prior["launcher"]} \cup doomed["launcher"]
              /\ prior["launcher"] \in Trees \cup {None}
        /\ pc["launcher"] \in {"receipts", "limit", "running"} => blobs = {}
        /\ pc["launcher"] \in {"limit", "running"} => receipts \subseteq Trees
        /\ pc["launcher"] = "running" => /\ \E d : Trees \subseteq {active, d}
                                         /\ tight => Trees \cap whole \subseteq {active}

Inv == TypeOK /\ Control /\ Pruning /\ Beside /\ Made /\ Tidying

------------------------------------------------------------------------------

LEMMA InitEstablishesInv == Init => Inv
<1> SUFFICES ASSUME Init PROVE Inv
  OBVIOUS
<1> USE CacheAssumption DEF Init
<1>1. DirsOK
  BY DEF DirsOK, IsInjective, ToSet
<1>2. CacheOK /\ LauncherOK /\ FlagsOK
  BY DEF CacheOK, LauncherOK, FlagsOK
<1>3. ProcsOK
  BY DEF ProcsOK, Procs, Steps
<1>4. BoundsOK
  BY DEF BoundsOK
<1>5. Control /\ Pruning /\ Beside /\ Made /\ Tidying
  BY DEF Control, Pruning, Round, Beside, Made, Tidying, Procs, Removing, Filling
<1> QED BY <1>1, <1>2, <1>3, <1>4, <1>5 DEF Inv, TypeOK

\* What the steps below need of the types.
LEMMA Types ==
    ASSUME Inv
    PROVE  /\ DirsOK /\ CacheOK /\ LauncherOK /\ ProcsOK /\ FlagsOK /\ BoundsOK
           /\ Control /\ Pruning /\ Beside /\ Made /\ Tidying
           /\ whole \subseteq Trees /\ Trees \subseteq Names
           /\ \A d : Present(d) <=> d \in Trees
           /\ Runtimes \subseteq Names /\ Stagings \subseteq Names /\ None \notin Names
           /\ Runtimes \cap Stagings = {}
<1>1. TypeOK /\ Control /\ Pruning /\ Beside /\ Made /\ Tidying
  BY DEF Inv
<1>2. DirsOK
  BY <1>1 DEF TypeOK
<1>3. Trees \subseteq Names
  BY <1>2 DEF DirsOK, Trees, ToSet
<1> QED BY <1>1, <1>2, <1>3, PresentIsMember, CacheAssumption DEF TypeOK, DirsOK, Trees, Names

(***************************************************************************)
(* Steps of the launcher that leave the directories alone.                 *)
(***************************************************************************)

LEMMA PlanKeepsInv ==
    ASSUME Inv, UNCHANGED <<dirs, whole>>,
           \/ Boot \/ PlanLaunch \/ (\E r \in Runtimes : PlanInstall(r)) \/ FetchArtifact
           \/ ActivateFails \/ SaveReceipt \/ Consume \/ Install \/ InstallFails
           \/ CleanArtifacts \/ Stop
    PROVE  Inv'
<1> USE Types DEF At, Goto, GiveUp, LauncherKeeps, cache, prune, bounds
<1>0. DirsOK' /\ Trees' = Trees
  BY DEF DirsOK, Trees
<1>1. BoundsOK'
  BY DEF BoundsOK, Boot, PlanLaunch, PlanInstall, FetchArtifact, ActivateFails, SaveReceipt, Consume,
         Install, InstallFails, CleanArtifacts, Stop
<1>2. CacheOK' /\ LauncherOK' /\ FlagsOK'
  BY DEF CacheOK, LauncherOK, FlagsOK, Control, Boot, PlanLaunch, PlanInstall, FetchArtifact,
         ActivateFails, SaveReceipt, Consume, Install, InstallFails, CleanArtifacts, Stop, Ensured
<1>a. /\ keep' = keep /\ prior' = prior /\ doomed' = doomed
      /\ \E s \in Steps \ Removing : pc' = [pc EXCEPT !["launcher"] = s]
  <2>1. keep' = keep /\ prior' = prior /\ doomed' = doomed
    BY DEF Boot, PlanLaunch, PlanInstall, FetchArtifact, ActivateFails, SaveReceipt, Consume, Install,
           InstallFails, CleanArtifacts, Stop
  <2>2. \A s \in {"down", "plan", "fetch", "ensure", "consume", "list", "install", "running"} :
           s \in Steps \ Removing
    BY DEF Steps, PruneSteps, Removing
  <2>3. \E s \in {"down", "plan", "fetch", "ensure", "consume", "list", "install", "running"} :
           pc' = [pc EXCEPT !["launcher"] = s]
    <3>1. CASE Boot \/ PlanLaunch \/ FetchArtifact \/ Install \/ CleanArtifacts \/ Stop
      BY <3>1 DEF Boot, PlanLaunch, FetchArtifact, Install, CleanArtifacts, Stop
    <3>2. CASE (\E r \in Runtimes : PlanInstall(r)) \/ ActivateFails \/ SaveReceipt \/ Consume
               \/ InstallFails
      BY <3>2 DEF PlanInstall, ActivateFails, SaveReceipt, Consume, InstallFails
    <3> QED BY <3>1, <3>2
  <2> QED BY <2>1, <2>2, <2>3
<1>b. /\ pc' \in [Procs -> Steps] /\ pc'["launcher"] \notin Removing
      /\ pc'["pruner"] = pc["pruner"] /\ pc["launcher"] \notin Removing
  BY <1>a DEF ProcsOK, Procs, Removing, Boot, PlanLaunch, PlanInstall, FetchArtifact, ActivateFails,
         SaveReceipt, Consume, Install, InstallFails, CleanArtifacts, Stop
<1>3. ProcsOK'
  BY <1>a, <1>b DEF ProcsOK
<1>4. Control'
  BY <1>0 DEF Control, ProcsOK, LauncherOK, Procs, Filling, PruneSteps, Boot, PlanLaunch, PlanInstall,
         FetchArtifact, ActivateFails, SaveReceipt, Consume, Install, InstallFails, CleanArtifacts, Stop
<1>5. Pruning'
  BY <1>a, <1>b DEF Pruning, Round, Removing
<1>c. Beside'
  <2>1. CASE Boot
    BY <1>b, <2>1 DEF Beside, Boot
  <2>2. CASE Stop
    BY <1>b, <2>2 DEF Beside, Stop, ProcsOK, Procs
  <2>3. CASE ~Boot /\ ~Stop
    <3>1. pc["launcher"] \notin {"down", "running"} /\ disturbed' = disturbed
      BY <2>3 DEF PlanLaunch, PlanInstall, FetchArtifact, ActivateFails, SaveReceipt, Consume,
                  Install, InstallFails, CleanArtifacts
    <3> QED BY <1>b, <3>1 DEF Beside
  <2> QED BY <2>1, <2>2, <2>3
<1>6. Made'
  BY <1>0 DEF Made, Control, ProcsOK, Procs, Removing, Filling, Usable, Boot, PlanLaunch, PlanInstall,
         FetchArtifact, ActivateFails, SaveReceipt, Consume, Install, InstallFails, CleanArtifacts, Stop
<1>7. Tidying'
  BY <1>0 DEF Tidying, Control, ProcsOK, Procs, Removing, Filling, Boot, PlanLaunch, PlanInstall,
         FetchArtifact, ActivateFails, SaveReceipt, Consume, Install, InstallFails, CleanArtifacts, Stop
<1> QED BY <1>0, <1>1, <1>2, <1>3, <1>4, <1>5, <1>c, <1>6, <1>7 DEF Inv, TypeOK

(***************************************************************************)
(* Steps of the launcher that prepare a tree.                              *)
(***************************************************************************)

LEMMA WorkKeepsInv ==
    ASSUME Inv, LauncherKeeps, artifact' = artifact,
           pc["launcher"] \in Filling \cup {"ensure", "download"},
           NEW s \in Filling \cup {"down", "ensure", "download", "receipt", "install", "clean"},
           pc' = [pc EXCEPT !["launcher"] = s],
           DirsOK', CacheOK', LauncherOK', Control', Made'
    PROVE  Inv'
<1> USE Types DEF LauncherKeeps, prune, bounds
<1>1. /\ pc' \in [Procs -> Steps] /\ pc'["launcher"] = s /\ pc'["pruner"] = pc["pruner"]
      /\ s \notin Removing \cup {"list", "running"} /\ pc["launcher"] \notin Removing \cup {"down", "running"}
  BY DEF ProcsOK, Procs, Steps, PruneSteps, Filling, Removing
<1>2. ProcsOK' /\ FlagsOK' /\ BoundsOK'
  BY <1>1 DEF ProcsOK, FlagsOK, BoundsOK
<1>3. Pruning'
  BY <1>1 DEF Pruning, Round, Removing
<1>4. Beside' /\ Tidying'
  BY <1>1 DEF Beside, Tidying, Removing
<1> QED BY <1>2, <1>3, <1>4 DEF Inv, TypeOK

LEMMA EnsureKeepsInv == ASSUME Inv, Hit \/ Miss PROVE Inv'
<1> USE Types DEF At, Goto
<1>0. pc["launcher"] = "ensure" /\ want \in Runtimes /\ aim \in {"prepare", "launch"}
      /\ LauncherKeeps /\ artifact' = artifact /\ UNCHANGED <<aim, want, staging, active, disturbed>>
  BY DEF Hit, Miss, Control, LauncherOK, LauncherKeeps
<1>1. CASE Hit
  <2>1. want \in Trees /\ Usable(want) /\ whole' = whole /\ receipts' = receipts
    BY <1>1 DEF Hit, Verified, Usable
  <2>2. DirsOK' /\ Trees' = Trees
    BY <1>0, <1>1, <2>1, TouchIs DEF Hit
  <2>3. PICK s \in {"install", "clean"} : pc' = [pc EXCEPT !["launcher"] = s]
                                         /\ (s = "install" <=> aim = "prepare")
    BY <1>0, <1>1 DEF Hit, Ensured
  <2>4. pc'["launcher"] = s /\ pc'["pruner"] = pc["pruner"]
    BY <2>3 DEF ProcsOK, Procs
  <2>5. CacheOK' /\ LauncherOK'
    BY <1>0, <1>1 DEF Hit, CacheOK, LauncherOK
  <2>6. Control'
    BY <1>0, <2>3, <2>4 DEF Control, Filling
  <2>7. Made'
    BY <1>0, <2>1, <2>3, <2>4 DEF Made, Usable, Filling, Removing
  <2> QED BY <1>0, <2>2, <2>3, <2>5, <2>6, <2>7, WorkKeepsInv
<1>2. CASE Miss
  <2>1. CASE Present(want) /\ Break(want) /\ UNCHANGED <<pc, receipts>>
    <3>1. DirsOK' /\ Trees' = Trees
      BY <2>1, BreakIs
    <3>2. CacheOK' /\ LauncherOK'
      BY <1>0, <1>2, <2>1 DEF Miss, CacheOK, LauncherOK
    <3>3. Control' /\ Made'
      BY <1>0, <2>1 DEF Control, Made, Filling, Removing
    <3>4. pc' = [pc EXCEPT !["launcher"] = "ensure"]
      BY <1>0, <2>1 DEF ProcsOK, Procs
    <3> QED BY <1>0, <3>1, <3>2, <3>3, <3>4, WorkKeepsInv
  <2>2. CASE Gone(want) /\ receipts' = receipts \ {want} /\ Goto("launcher", "download")
    <3>1. DirsOK' /\ Trees' = Trees \ {want}
      BY <2>2, GoneIs
    <3>2. CacheOK' /\ LauncherOK'
      BY <1>0, <1>2, <2>2 DEF Miss, CacheOK, LauncherOK
    <3>3. pc'["launcher"] = "download" /\ pc'["pruner"] = pc["pruner"]
      BY <2>2 DEF ProcsOK, Procs
    <3>4. Control' /\ Made'
      BY <1>0, <3>1, <3>3 DEF Control, Made, Filling, Removing
    <3> QED BY <1>0, <2>2, <3>1, <3>2, <3>4, WorkKeepsInv
  <2> QED BY <1>2, <2>1, <2>2 DEF Miss
<1> QED BY <1>1, <1>2

\* What GiveUp is followed by needs nothing of the tree in preparation.
LEMMA GiveUpKeepsInv ==
    ASSUME Inv, GiveUp, LauncherKeeps, artifact' = artifact,
           pc["launcher"] \in Filling \cup {"download"}, DirsOK', CacheOK'
    PROVE  Inv'
<1> USE Types DEF Goto
<1>1. PICK s \in {"down", "ensure"} :
         /\ pc' = [pc EXCEPT !["launcher"] = s]
         /\ s = "ensure" => active # None /\ aim' = "launch" /\ want' = active
         /\ s = "down" => UNCHANGED <<aim, want>>
  BY DEF GiveUp
<1>2. pc'["launcher"] = s /\ pc'["pruner"] = pc["pruner"] /\ active' = active /\ staging' = None
  BY <1>1 DEF GiveUp, LauncherKeeps, ProcsOK, Procs
<1>3. LauncherOK'
  BY <1>1, <1>2 DEF LauncherOK
<1>4. Control' /\ Made'
  BY <1>1, <1>2 DEF LauncherOK, Control, Made, Filling, Removing
<1> QED BY <1>1, <1>3, <1>4, WorkKeepsInv

LEMMA DownloadKeepsInv == ASSUME Inv, Download PROVE Inv'
<1> USE Types DEF At, Goto
<1>0. pc["launcher"] = "download" /\ want \in Runtimes \ Trees /\ aim \in {"prepare", "launch"}
      /\ LauncherKeeps /\ artifact' = artifact /\ UNCHANGED <<active, disturbed, whole, receipts>>
      /\ (aim # "prepare" => want = active)
  BY DEF Download, Control, LauncherOK, LauncherKeeps, Filling
<1>1. CASE GiveUp /\ UNCHANGED <<blobs, dirs>>
  <2>1. DirsOK' /\ CacheOK'
    BY <1>0, <1>1 DEF DirsOK, CacheOK
  <2> QED BY <1>0, <1>1, <2>1, GiveUpKeepsInv
<1>2. ASSUME blobs' = blobs \cup {want}, NEW s \in Stagings, staging' = s, dirs' = Newest(s),
             Goto("launcher", "extract"), UNCHANGED <<aim, want>>
      PROVE  Inv'
  <2>1. DirsOK' /\ Trees' = Trees \cup {s}
    BY <1>0, <1>2, TouchIs
  <2>2. CacheOK' /\ LauncherOK'
    BY <1>0, <1>2 DEF CacheOK, LauncherOK
  <2>3. pc'["launcher"] = "extract" /\ pc'["pruner"] = pc["pruner"]
    BY <1>2 DEF ProcsOK, Procs
  <2>4. Control' /\ Made'
    BY <1>0, <1>2, <2>1, <2>3 DEF Control, Made, Filling, Removing
  <2>5. pc' = [pc EXCEPT !["launcher"] = "extract"] /\ "extract" \in Filling
    BY <1>2 DEF Filling
  <2> QED BY <1>0, <2>1, <2>2, <2>4, <2>5, WorkKeepsInv
<1> QED BY <1>1, <1>2 DEF Download

LEMMA FillKeepsInv == ASSUME Inv, Extract \/ ExtractFails \/ Activate PROVE Inv'
<1> USE Types DEF At, Goto
<1>0. pc["launcher"] \in Filling /\ want \in Runtimes \ Trees /\ staging \in Stagings
      /\ aim \in {"prepare", "launch"} /\ (aim # "prepare" => want = active)
      /\ LauncherKeeps /\ artifact' = artifact /\ UNCHANGED <<active, disturbed>>
      /\ "activate" \in Filling
  BY DEF Extract, ExtractFails, Activate, Control, LauncherOK, LauncherKeeps, Filling
<1>1. CASE Extract
  <2>1. staging \in Trees /\ UNCHANGED <<aim, want, staging, receipts, blobs>>
        /\ whole' = whole \cup {staging} /\ pc' = [pc EXCEPT !["launcher"] = "activate"]
    BY <1>1 DEF Extract
  <2>2. DirsOK' /\ Trees' = Trees
    BY <1>0, <1>1, <2>1, TouchIs DEF Extract
  <2>3. CacheOK' /\ LauncherOK'
    BY <1>0, <2>1 DEF CacheOK, LauncherOK
  <2>4. pc'["launcher"] = "activate" /\ pc'["pruner"] = pc["pruner"]
    BY <2>1 DEF ProcsOK, Procs
  <2>5. Control' /\ Made'
    BY <1>0, <2>1, <2>2, <2>4 DEF Control, Made, Filling, Removing
  <2> QED BY <1>0, <2>1, <2>2, <2>3, <2>5, WorkKeepsInv
<1>2. CASE ExtractFails
  <2>1. DirsOK' /\ CacheOK' /\ GiveUp
    BY <1>2, GoneIs DEF ExtractFails, CacheOK
  <2> QED BY <1>0, <2>1, GiveUpKeepsInv
<1>3. CASE Activate
  <2>1. staging \in Trees /\ UNCHANGED <<aim, want, receipts, blobs>> /\ staging' = None
        /\ pc' = [pc EXCEPT !["launcher"] = "receipt"] /\ pc["launcher"] = "activate"
    BY <1>3 DEF Activate
  <2>2. DirsOK' /\ (staging \in whole => want \in whole')
    BY <1>0, <1>3, <2>1, RenameIs DEF Activate
  <2>3. CacheOK' /\ LauncherOK'
    BY <1>0, <2>1 DEF CacheOK, LauncherOK
  <2>4. pc'["launcher"] = "receipt" /\ pc'["pruner"] = pc["pruner"]
    BY <2>1 DEF ProcsOK, Procs
  <2>5. Control' /\ Made'
    BY <1>0, <2>1, <2>2, <2>4 DEF Control, Made, Filling, Removing
  <2> QED BY <1>0, <2>1, <2>2, <2>3, <2>5, WorkKeepsInv
<1> QED BY <1>1, <1>2, <1>3

(***************************************************************************)
(* Prunes.                                                                 *)
(***************************************************************************)

LEMMA StartStopKeepsInv == ASSUME Inv, PruneCommand \/ Crash PROVE Inv'
<1> USE Types, CacheAssumption DEF At, Goto, cache, bounds
<1>0. DirsOK' /\ Trees' = Trees /\ whole' = whole /\ receipts' = receipts /\ blobs' = blobs
  BY DEF DirsOK, Trees, PruneCommand, Crash
<1>1. BoundsOK'
  BY DEF BoundsOK, PruneCommand, Crash
<1>2. CacheOK' /\ LauncherOK'
  BY <1>0 DEF CacheOK, LauncherOK, PruneCommand, Crash
<1>3. FlagsOK'
  BY DEF FlagsOK, PruneCommand, Crash
<1>4. CASE PruneCommand
  <2>1. /\ pc["pruner"] = "down" /\ pc' = [pc EXCEPT !["pruner"] = "list"]
        /\ keep' = [keep EXCEPT !["pruner"] = active] /\ active \in Runtimes
        /\ UNCHANGED <<prior, doomed, active, tight, aim, want, staging>> /\ ~artifact'
        /\ (~disturbed' => ~disturbed /\ pc["launcher"] \in {"down", "running"})
    BY <1>4 DEF PruneCommand, LauncherOK
  <2>2. /\ pc' \in [Procs -> Steps] /\ pc'["pruner"] = "list" /\ pc'["launcher"] = pc["launcher"]
        /\ keep' \in [Procs -> Runtimes \cup {None}]
        /\ keep'["pruner"] = active /\ keep'["launcher"] = keep["launcher"]
    BY <2>1 DEF ProcsOK, Procs, Steps, PruneSteps
  <2>3. ProcsOK'
    BY <2>1, <2>2 DEF ProcsOK
  <2>4. Control'
    BY <1>0, <2>1, <2>2 DEF Control, PruneSteps
  <2>5. Pruning' /\ Beside'
    BY <2>1, <2>2 DEF Pruning, Round, Beside, Removing
  <2>6. Made' /\ Tidying'
    BY <1>0, <2>1, <2>2 DEF Made, Tidying, Usable
  <2> QED BY <1>0, <1>1, <1>2, <1>3, <2>3, <2>4, <2>5, <2>6 DEF Inv, TypeOK
<1>5. CASE Crash
  <2>1. /\ pc' = [p \in Procs |-> "down"] /\ keep' = [p \in Procs |-> None] /\ prior' = keep'
        /\ doomed' = [p \in Procs |-> {}]
    BY <1>5 DEF Crash
  <2>2. pc'["launcher"] = "down" /\ pc'["pruner"] = "down" /\ doomed'["launcher"] = {}
        /\ doomed'["pruner"] = {}
    BY <2>1 DEF Procs
  <2>3. ProcsOK'
    BY <2>1 DEF ProcsOK, Procs, Steps
  <2>4. Control' /\ Pruning' /\ Beside' /\ Made' /\ Tidying'
    BY <2>2 DEF Control, Pruning, Round, Beside, Made, Tidying, Filling, Removing
  <2> QED BY <1>0, <1>1, <1>2, <1>3, <2>3, <2>4 DEF Inv, TypeOK
<1> QED BY <1>4, <1>5

LEMMA ListKeepsInv == ASSUME Inv, NEW p \in Procs, List(p) PROVE Inv'
<1> USE Types, CacheAssumption DEF At, Goto, PruneKeeps, cache, bounds
<1> DEFINE root == IF p = "pruner" THEN keep[p] ELSE want
           rest == Without(root)
<1>0. DirsOK' /\ Trees' = Trees /\ UNCHANGED <<dirs, whole, receipts, blobs, artifact>>
      /\ UNCHANGED <<active, tight, aim, want, staging, disturbed, crashes, prunes>>
      /\ pc[p] = "list" /\ pc' = [pc EXCEPT ![p] = "remove"]
  BY DEF List, DirsOK, Trees
<1>1. root \in Runtimes
  BY <1>0 DEF Control, Pruning, Procs
<1>2. rest \in Seq(Names) /\ IsInjective(rest) /\ ToSet(rest) = Trees \ {root}
  BY WithoutIs
<1>3. PICK first, others :
         /\ first \in (Trees \ {root}) \cup {None} /\ others = Trees \ {root, first}
         /\ first = None => Trees \subseteq {root}
         /\ keep' = [keep EXCEPT ![p] = root] /\ prior' = [prior EXCEPT ![p] = first]
         /\ doomed' = [doomed EXCEPT ![p] = others]
  <2>1. CASE rest = <<>>
    <3>1. Trees \ {root} = {}
      BY <1>2, <2>1 DEF ToSet
    <3>2. /\ keep' = [keep EXCEPT ![p] = root] /\ prior' = [prior EXCEPT ![p] = None]
          /\ doomed' = [doomed EXCEPT ![p] = {}]
      BY <2>1 DEF List
    <3> QED BY <3>1, <3>2
  <2>2. CASE rest # <<>>
    <3>1. Head(rest) \in Trees \ {root} /\ ToSet(Tail(rest)) = Trees \ {root, Head(rest)}
      BY <1>2, <2>2, RestIs
    <3>2. /\ keep' = [keep EXCEPT ![p] = root] /\ prior' = [prior EXCEPT ![p] = Head(rest)]
          /\ doomed' = [doomed EXCEPT ![p] = ToSet(Tail(rest))]
      BY <2>2 DEF List
    <3> QED BY <3>1, <3>2
  <2> QED BY <2>1, <2>2
<1>4. root = IF p = "pruner" THEN keep[p] ELSE want
  OBVIOUS
<1> HIDE DEF root, rest
<1>5. /\ first \in Names \cup {None} /\ others \subseteq Names /\ first # root
      /\ root \notin others /\ first \notin others
  BY <1>1, <1>3
<1>6. /\ pc'[p] = "remove" /\ keep'[p] = root /\ prior'[p] = first /\ doomed'[p] = others
      /\ \A q \in Procs \ {p} : /\ pc'[q] = pc[q] /\ keep'[q] = keep[q]
                              /\ prior'[q] = prior[q] /\ doomed'[q] = doomed[q]
  BY <1>0, <1>3 DEF ProcsOK
<1>7. ProcsOK'
  <2>1. "remove" \in Steps
    BY DEF Steps, PruneSteps
  <2> QED BY <1>0, <1>1, <1>3, <1>5, <2>1 DEF ProcsOK
<1>8. CacheOK' /\ LauncherOK' /\ FlagsOK' /\ BoundsOK'
  BY <1>0 DEF CacheOK, LauncherOK, FlagsOK, BoundsOK
<1>9. CASE p = "launcher"
  <2>1. pc["launcher"] = "list" /\ root = want
    BY <1>0, <1>4, <1>9
  <2>2. Control'
    BY <1>0, <1>6, <1>9, <2>1 DEF Control, Filling, Procs
  <2>3. Pruning'
    BY <1>1, <1>5, <1>6, <1>0, <1>9, <2>1 DEF Pruning, Round, Procs, Removing
  <2>4. Beside'
    BY <1>0, <1>6, <1>9, <2>1 DEF Beside, Procs
  <2>5. Made'
    BY <1>0, <1>6, <1>9, <2>1 DEF Made, Usable, Filling, Removing
  <2>6. Tidying'
    BY <1>0, <1>3, <1>5, <1>6, <1>9, <2>1 DEF Tidying, Removing
  <2> QED BY <1>0, <1>7, <1>8, <2>2, <2>3, <2>4, <2>5, <2>6 DEF Inv, TypeOK
<1>10. CASE p = "pruner"
  <2>1. pc["pruner"] = "list" /\ root = keep["pruner"] /\ pc'["launcher"] = pc["launcher"]
    BY <1>0, <1>4, <1>6, <1>10 DEF Procs
  <2>2. Control'
    BY <1>0, <1>6, <1>10, <2>1 DEF Control, PruneSteps
  <2>3. Pruning'
    BY <1>1, <1>5, <1>6, <1>0, <1>10, <2>1 DEF Pruning, Round, Procs, Removing
  <2>4. Made' /\ Tidying'
    BY <1>0, <1>6, <1>10, <2>1 DEF Made, Tidying, Usable, Procs
  <2>5. Beside'
    <3>1. ~disturbed /\ pc["launcher"] = "running" => root = active /\ others = {}
      <4> SUFFICES ASSUME ~disturbed, pc["launcher"] = "running" PROVE root = active /\ others = {}
        OBVIOUS
      <4>1. root = active
        BY <2>1 DEF Beside
      <4>2. aim = "tidy"
        BY DEF Control
      <4>3. PICK d : Trees \subseteq {active, d}
        BY <4>2 DEF Tidying
      <4> QED BY <1>3, <4>1, <4>3
    <3> QED BY <1>0, <1>6, <1>10, <2>1, <3>1 DEF Beside
  <2> QED BY <1>0, <1>7, <1>8, <2>2, <2>3, <2>4, <2>5 DEF Inv, TypeOK
<1> QED BY <1>9, <1>10 DEF Procs

\* A step of `pcvm cache prune` only takes away. Beside an undisturbed server
\* it may not take the active tree, its receipt, or the tree of a receipt.
LEMMA PrunerKeepsInv ==
    ASSUME Inv, PruneKeeps, UNCHANGED artifact,
           DirsOK', ProcsOK', Round("pruner")', pc["pruner"] # "down",
           Trees' \subseteq Trees, whole' \subseteq whole, receipts' \subseteq receipts, blobs' \subseteq blobs,
           pc'["launcher"] = pc["launcher"], keep'["launcher"] = keep["launcher"],
           prior'["launcher"] = prior["launcher"], doomed'["launcher"] = doomed["launcher"],
           pc'["pruner"] \in PruneSteps \cup {"down"}, doomed'["pruner"] \subseteq doomed["pruner"],
           pc'["pruner"] # "down" => keep'["pruner"] = keep["pruner"],
           ~disturbed /\ pc["launcher"] = "running" =>
               Usable(active)' /\ (receipts \subseteq Trees => receipts' \subseteq Trees')
    PROVE  Inv'
<1> USE Types DEF PruneKeeps, bounds
<1>1. CacheOK' /\ LauncherOK' /\ FlagsOK' /\ BoundsOK'
  BY DEF CacheOK, LauncherOK, FlagsOK, BoundsOK
<1>2. Control'
  BY DEF Control
<1>3. Pruning' /\ Beside'
  BY DEF Pruning, Round, Beside
<1>4. ~disturbed => pc["launcher"] \in {"down", "running"}
  BY DEF Beside
<1>5. pc["launcher"] = "running" => want = active /\ aim = "tidy"
  BY DEF Control
<1>6. Made'
  BY <1>4, <1>5 DEF Made, Filling, Removing
<1>7. Tidying'
  BY <1>4, <1>5 DEF Tidying, Removing
<1> QED BY <1>1, <1>2, <1>3, <1>6, <1>7 DEF Inv, TypeOK

\* The same for a prune of the launcher, by the step it comes to.
LEMMA LauncherPruneKeepsInv ==
    ASSUME Inv, PruneKeeps, UNCHANGED artifact,
           DirsOK', ProcsOK', Round("launcher")', pc["launcher"] \in Removing,
           Trees' \subseteq Trees, receipts' \subseteq receipts, blobs' \subseteq blobs,
           pc'["pruner"] = pc["pruner"], keep'["pruner"] = keep["pruner"],
           prior'["pruner"] = prior["pruner"], doomed'["pruner"] = doomed["pruner"],
           \/ pc'["launcher"] \in Removing /\ keep'["launcher"] = keep["launcher"]
           \/ pc'["launcher"] = "install" /\ aim = "prepare"
           \/ pc'["launcher"] = "clean" /\ aim = "launch"
           \/ pc'["launcher"] = "running" /\ aim = "tidy",
           ~disturbed => Usable(want)', Tidying'
    PROVE  Inv'
<1> USE Types DEF PruneKeeps, bounds
<1>1. CacheOK' /\ LauncherOK' /\ FlagsOK' /\ BoundsOK'
  BY DEF CacheOK, LauncherOK, FlagsOK, BoundsOK
<1>2. Control'
  BY DEF Control, Filling, Removing
<1>3. Pruning'
  BY DEF Pruning, Round, Removing
<1>4. Beside'
  BY DEF Beside, Removing
<1>5. Made'
  BY DEF Made, Usable, Filling, Removing
<1> QED BY <1>1, <1>2, <1>3, <1>4, <1>5 DEF Inv, TypeOK

LEMMA RemoveTreeKeepsInv == ASSUME Inv, NEW p \in Procs, RemoveTree(p) PROVE Inv'
<1> USE Types DEF At
<1>0. /\ pc[p] = "remove" /\ PruneKeeps /\ UNCHANGED <<artifact, receipts, blobs, pc, keep, prior>>
      /\ UNCHANGED <<active, tight, aim, want, staging, disturbed>>
  BY DEF RemoveTree, PruneKeeps
<1>1. PICK d \in doomed[p] :
         \/ d \in whole /\ Break(d) /\ UNCHANGED doomed
         \/ Gone(d) /\ doomed' = [doomed EXCEPT ![p] = @ \ {d}]
  BY DEF RemoveTree
<1>2. /\ DirsOK' /\ Trees' \in {Trees, Trees \ {d}} /\ whole' = whole \ {d}
      /\ doomed' \in {doomed, [doomed EXCEPT ![p] = @ \ {d}]}
      /\ doomed' = doomed \/ Trees' = Trees \ {d}
  BY <1>1, BreakIs, GoneIs
<1>3. ProcsOK' /\ doomed'[p] \in {doomed[p], doomed[p] \ {d}}
      /\ (doomed'[p] = doomed[p] \/ doomed'[p] = doomed[p] \ {d})
      /\ \A q \in Procs \ {p} : doomed'[q] = doomed[q]
  BY <1>0, <1>2 DEF ProcsOK
<1>4. Round(p) /\ keep[p] # d /\ prior[p] # d
  BY <1>0, <1>1 DEF Pruning, Procs, Round, Removing
<1>5. Round(p)'
  BY <1>0, <1>3, <1>4 DEF Round
<1>6. Trees \subseteq Trees' \cup {d} /\ (d \in Trees' => doomed'[p] = doomed[p])
  BY <1>0, <1>2, <1>3 DEF ProcsOK
<1>7. CASE p = "launcher"
  <2>1. keep["launcher"] = want /\ pc["launcher"] \in Removing /\ "pruner" \in Procs \ {p}
        /\ pc'["launcher"] \in Removing
    BY <1>0, <1>7 DEF Pruning, Removing, Procs
  <2>2. ~disturbed => Usable(want)'
    BY <1>0, <1>2, <1>4, <1>7, <2>1 DEF Made, Usable
  <2>3. Tidying'
    BY <1>0, <1>2, <1>3, <1>4, <1>6, <1>7, <2>1 DEF Tidying, Removing
  <2> QED BY <1>0, <1>2, <1>3, <1>5, <1>7, <2>1, <2>2, <2>3, LauncherPruneKeepsInv
<1>8. CASE p = "pruner"
  <2>1. ~disturbed => pc["launcher"] # "running"
    BY <1>0, <1>1, <1>8 DEF Beside
  <2>2. "launcher" \in Procs \ {p} /\ pc["pruner"] \in PruneSteps \cup {"down"} /\ pc["pruner"] # "down"
    BY <1>0, <1>8 DEF Procs, Control
  <2> QED BY <1>0, <1>2, <1>3, <1>5, <1>8, <2>1, <2>2, PrunerKeepsInv
<1> QED BY <1>7, <1>8 DEF Procs

LEMMA RemoveBlobsKeepsInv == ASSUME Inv, NEW p \in Procs, RemoveBlobs(p) PROVE Inv'
<1> USE Types DEF At, Goto, prune
<1>0. /\ pc[p] = "remove" /\ doomed[p] = {} /\ pc' = [pc EXCEPT ![p] = "receipts"] /\ PruneKeeps
      /\ UNCHANGED <<dirs, whole, receipts, artifact, keep, prior, doomed>> /\ blobs' = {}
      /\ UNCHANGED <<active, tight, aim, want, staging, disturbed>>
  BY DEF RemoveBlobs, PruneKeeps
<1>1. DirsOK' /\ Trees' = Trees
  BY <1>0 DEF DirsOK, Trees
<1>2. ProcsOK' /\ pc'[p] = "receipts" /\ \A q \in Procs \ {p} : pc'[q] = pc[q]
  BY <1>0 DEF ProcsOK, Steps, PruneSteps
<1>3. Round(p)'
  BY <1>0, <1>2 DEF Pruning, Procs, Round, Removing
<1>4. CASE p = "launcher"
  <2>1. keep["launcher"] = want /\ pc["launcher"] \in Removing /\ "pruner" \in Procs \ {p}
        /\ pc'["launcher"] \in Removing
    BY <1>0, <1>2, <1>4 DEF Pruning, Removing, Procs
  <2>2. ~disturbed => Usable(want)'
    BY <1>0, <2>1 DEF Made, Usable
  <2>3. Tidying'
    BY <1>0, <1>1, <1>2, <1>4, <2>1 DEF Tidying, Removing
  <2> QED BY <1>0, <1>1, <1>2, <1>3, <1>4, <2>1, <2>2, <2>3, LauncherPruneKeepsInv
<1>5. CASE p = "pruner"
  <2>1. ~disturbed /\ pc["launcher"] = "running" => Usable(active)'
    BY <1>0 DEF Made, Usable, Control
  <2>2. "launcher" \in Procs \ {p} /\ "receipts" \in PruneSteps
    BY <1>5 DEF Procs, PruneSteps
  <2> QED BY <1>0, <1>1, <1>2, <1>3, <1>5, <2>1, <2>2, PrunerKeepsInv
<1> QED BY <1>4, <1>5 DEF Procs

LEMMA PruneReceiptsKeepsInv == ASSUME Inv, NEW p \in Procs, PruneReceipts(p) PROVE Inv'
<1> USE Types DEF At, Goto, prune
<1>0. /\ pc[p] = "receipts" /\ pc' = [pc EXCEPT ![p] = "limit"] /\ PruneKeeps
      /\ UNCHANGED <<dirs, whole, blobs, artifact, keep, prior, doomed>>
      /\ receipts' = receipts \cap {keep[p], prior[p]}
      /\ UNCHANGED <<active, tight, aim, want, staging, disturbed>>
  BY DEF PruneReceipts, PruneKeeps
<1>1. DirsOK' /\ Trees' = Trees
  BY <1>0 DEF DirsOK, Trees
<1>2. ProcsOK' /\ pc'[p] = "limit" /\ \A q \in Procs \ {p} : pc'[q] = pc[q]
  BY <1>0 DEF ProcsOK, Steps, PruneSteps
<1>3. Round(p)' /\ receipts' \subseteq receipts
  BY <1>0, <1>2 DEF Pruning, Procs, Round, Removing
<1>4. CASE p = "launcher"
  <2>1. keep["launcher"] = want /\ pc["launcher"] \in Removing /\ "pruner" \in Procs \ {p}
        /\ pc'["launcher"] \in Removing
    BY <1>0, <1>2, <1>4 DEF Pruning, Removing, Procs
  <2>2. ~disturbed => Usable(want) /\ Usable(want)'
    BY <1>0, <1>4, <2>1 DEF Made, Usable
  <2>3. None \notin receipts
    BY DEF CacheOK
  <2>4. Tidying'
    BY <1>0, <1>1, <1>2, <1>4, <2>1, <2>2, <2>3 DEF Tidying, Removing, Usable
  <2> QED BY <1>0, <1>1, <1>2, <1>3, <1>4, <2>1, <2>2, <2>4, LauncherPruneKeepsInv
<1>5. CASE p = "pruner"
  <2>1. ~disturbed /\ pc["launcher"] = "running" => Usable(active)'
    BY <1>0, <1>5 DEF Made, Usable, Control, Beside
  <2>2. "launcher" \in Procs \ {p} /\ "limit" \in PruneSteps
    BY <1>5 DEF Procs, PruneSteps
  <2> QED BY <1>0, <1>1, <1>2, <1>3, <1>5, <2>1, <2>2, PrunerKeepsInv
<1> QED BY <1>4, <1>5 DEF Procs

LEMMA EnforceLimitKeepsInv == ASSUME Inv, NEW p \in Procs, EnforceLimit(p) PROVE Inv'
<1> USE Types DEF At, Goto
<1>0. /\ pc[p] = "limit" /\ doomed[p] = {} /\ keep[p] \in Runtimes /\ prior[p] # keep[p]
      /\ PruneKeeps /\ UNCHANGED <<blobs, artifact, active, tight, aim, want, staging, disturbed>>
  BY DEF EnforceLimit, PruneKeeps, Pruning, Round, Removing, Procs
<1>1. \/ /\ prior[p] \in whole /\ Break(prior[p]) /\ UNCHANGED <<pc, receipts, prune>>
      \/ Gone(prior[p]) /\ receipts' = receipts \cap {keep[p]} /\ Pruned(p)
      \/ UNCHANGED <<dirs, whole, receipts>> /\ Pruned(p) /\ FALSE \in OverLimit(p)
  <2>1. OverLimit(p) \subseteq BOOLEAN
    BY DEF OverLimit
  <2>2. PICK over \in OverLimit(p) :
           IF over
           THEN \/ prior[p] \in whole /\ Break(prior[p]) /\ UNCHANGED <<pc, receipts, prune>>
                \/ Gone(prior[p]) /\ receipts' = receipts \cap {keep[p]} /\ Pruned(p)
           ELSE UNCHANGED <<dirs, whole, receipts>> /\ Pruned(p)
    BY DEF EnforceLimit
  <2>3. CASE over = TRUE
    BY <2>2, <2>3
  <2>4. CASE over = FALSE
    BY <2>2, <2>4
  <2> QED BY <2>1, <2>3, <2>4
<1>2. /\ DirsOK' /\ Trees' \subseteq Trees /\ receipts' \subseteq receipts /\ whole' \subseteq whole
      /\ keep[p] \in Trees => keep[p] \in Trees'
      /\ keep[p] \in whole => keep[p] \in whole'
      /\ keep[p] \in receipts => keep[p] \in receipts'
      /\ Trees' = Trees \/ receipts' = receipts \cap {keep[p]}
      /\ UNCHANGED <<dirs, whole>> \/ prior[p] \notin whole'
  <2>1. CASE prior[p] \in whole /\ Break(prior[p]) /\ UNCHANGED <<pc, receipts, prune>>
    BY <1>0, <2>1, BreakIs
  <2>2. CASE Gone(prior[p]) /\ receipts' = receipts \cap {keep[p]}
    BY <1>0, <2>2, GoneIs
  <2>3. CASE UNCHANGED <<dirs, whole, receipts>>
    BY <2>3 DEF DirsOK, Trees
  <2> QED BY <1>1, <2>1, <2>2, <2>3
\* The prune is over, or has the prior tree to finish.
<1>3. \/ /\ UNCHANGED <<pc, keep, prior, doomed>> /\ receipts' = receipts /\ Trees' = Trees
      \/ /\ keep' = [keep EXCEPT ![p] = None] /\ prior' = [prior EXCEPT ![p] = None] /\ doomed' = doomed
         /\ IF p = "pruner" THEN pc' = [pc EXCEPT ![p] = "down"] ELSE Ensured
  <2>1. CASE prior[p] \in whole /\ Break(prior[p]) /\ UNCHANGED <<pc, receipts, prune>>
    BY <2>1, BreakIs DEF prune
  <2> QED BY <1>1, <2>1 DEF Pruned
<1>4. CASE p = "launcher"
  <2>1. /\ keep["launcher"] = want /\ pc["launcher"] = "limit" /\ pc["launcher"] \in Removing
        /\ "pruner" \in Procs \ {p}
    BY <1>0, <1>4 DEF Pruning, Removing, Procs
  <2>2. PICK s \in {"limit", "install", "clean", "running"} :
           /\ pc' = [pc EXCEPT !["launcher"] = s]
           /\ s = "limit" => keep' = keep /\ prior' = prior /\ receipts' = receipts /\ Trees' = Trees
           /\ s = "install" => aim = "prepare"
           /\ s = "clean" => aim = "launch"
           /\ s = "running" => aim = "tidy"
           /\ s # "limit" => Pruned(p)
           /\ doomed' = doomed
    <3>1. CASE UNCHANGED <<pc, keep, prior, doomed>> /\ receipts' = receipts /\ Trees' = Trees
      <4>1. pc' = [pc EXCEPT !["launcher"] = "limit"]
        BY <2>1, <3>1 DEF ProcsOK, Procs
      <4> QED BY <3>1, <4>1
    <3>2. CASE /\ keep' = [keep EXCEPT ![p] = None] /\ prior' = [prior EXCEPT ![p] = None]
               /\ doomed' = doomed /\ Ensured
      BY <1>4, <3>2 DEF Ensured, LauncherOK, Pruned
    <3> QED BY <1>3, <1>4, <3>1, <3>2
  <2>3. /\ pc' \in [Procs -> Steps] /\ pc'["launcher"] = s /\ pc'["pruner"] = pc["pruner"]
    BY <2>2 DEF ProcsOK, Procs, Steps, PruneSteps
  <2>4. /\ keep' \in [Procs -> Runtimes \cup {None}] /\ prior' \in [Procs -> Names \cup {None}]
        /\ keep'["pruner"] = keep["pruner"] /\ prior'["pruner"] = prior["pruner"]
    BY <1>3, <1>4 DEF ProcsOK, Procs
  <2>5. ProcsOK'
    BY <2>2, <2>3, <2>4 DEF ProcsOK
  <2>6. Round("launcher")'
    BY <1>0, <1>4, <2>2, <2>3 DEF Round, Removing
  <2>7. ~disturbed => Usable(want) /\ Usable(want)' /\ want \in Trees'
    BY <1>0, <1>2, <1>4, <2>1 DEF Made, Usable
  <2>8. Tidying'
    <3> SUFFICES ASSUME ~disturbed, aim = "tidy" PROVE Tidying'
      BY <1>0 DEF Tidying
    <3>1. /\ ~artifact /\ blobs = {} /\ receipts \subseteq Trees
          /\ Trees \subseteq {want, prior["launcher"]} /\ prior["launcher"] \in Trees \cup {None}
      BY <1>0, <1>4, <2>1 DEF Tidying
    <3>2. receipts' \subseteq Trees'
      BY <1>2, <1>4, <2>1, <2>7, <3>1
    <3>3. want = active
      BY <2>1 DEF Control
    <3>4. tight /\ s = "running" => Trees' \cap whole' \subseteq {active}
      <4> SUFFICES ASSUME tight, s = "running" PROVE Trees' \cap whole' \subseteq {active}
        OBVIOUS
      <4>1. Pruned(p)
        BY <2>2
      <4>2. CASE UNCHANGED <<dirs, whole>> /\ FALSE \in OverLimit(p)
        <5>1. prior[p] = None \/ prior[p] \notin Trees \/ prior[p] \notin whole
          BY <1>4, <2>1, <2>7, <4>2 DEF OverLimit, Usable
        <5> QED BY <1>2, <1>4, <3>1, <3>3, <4>2, <5>1
      <4>3. CASE Gone(prior[p])
        BY <1>2, <1>4, <3>1, <3>3, <4>3 DEF Gone
      <4>4. pc' # pc
        BY <2>1, <2>3
      <4> QED BY <1>1, <4>2, <4>3, <4>4
    <3>5. s \in Removing => s = "limit"
      BY DEF Removing
    <3> QED BY <1>0, <1>2, <2>2, <2>3, <3>1, <3>2, <3>3, <3>4, <3>5 DEF Tidying
  <2>9. doomed'["pruner"] = doomed["pruner"] /\ (s = "limit" => s \in Removing)
    BY <2>2 DEF Removing
  <2> QED BY <1>0, <1>2, <1>4, <2>1, <2>2, <2>3, <2>4, <2>5, <2>6, <2>7, <2>8, <2>9,
             LauncherPruneKeepsInv
<1>5. CASE p = "pruner"
  <2>1. "launcher" \in Procs \ {p} /\ pc["pruner"] = "limit" /\ "limit" \in PruneSteps /\ doomed' = doomed
    BY <1>0, <1>3, <1>5 DEF Procs, PruneSteps
  <2>2. /\ pc' \in [Procs -> Steps] /\ pc'["pruner"] \in {"limit", "down"}
        /\ pc'["launcher"] = pc["launcher"]
        /\ keep' \in [Procs -> Runtimes \cup {None}] /\ prior' \in [Procs -> Names \cup {None}]
        /\ keep'["launcher"] = keep["launcher"] /\ prior'["launcher"] = prior["launcher"]
        /\ pc'["pruner"] = "limit" => keep'["pruner"] = keep["pruner"] /\ prior'["pruner"] = prior["pruner"]
    <3>1. CASE UNCHANGED <<pc, keep, prior, doomed>>
      BY <2>1, <3>1 DEF ProcsOK
    <3>2. CASE /\ keep' = [keep EXCEPT ![p] = None] /\ prior' = [prior EXCEPT ![p] = None]
               /\ pc' = [pc EXCEPT ![p] = "down"]
      BY <1>5, <3>2 DEF ProcsOK, Procs, Steps
    <3> QED BY <1>3, <1>5, <3>1, <3>2
  <2>3. ProcsOK'
    BY <2>1, <2>2 DEF ProcsOK
  <2>4. Round("pruner")'
    BY <1>0, <1>5, <2>1, <2>2 DEF Round, Removing
  <2>5. ~disturbed /\ pc["launcher"] = "running" =>
            Usable(active)' /\ (receipts \subseteq Trees => receipts' \subseteq Trees')
    <3> SUFFICES ASSUME ~disturbed, pc["launcher"] = "running"
                 PROVE  Usable(active)' /\ (receipts \subseteq Trees => receipts' \subseteq Trees')
      OBVIOUS
    <3>1. keep["pruner"] = active /\ want = active /\ Usable(active)
      BY <2>1 DEF Beside, Control, Made
    <3> QED BY <1>0, <1>2, <1>5, <3>1 DEF Usable
  <2> QED BY <1>0, <1>2, <1>5, <2>1, <2>2, <2>3, <2>4, <2>5, PrunerKeepsInv
<1> QED BY <1>4, <1>5 DEF Procs

(***************************************************************************)
(* The theorems.                                                           *)
(***************************************************************************)

LEMMA StepKeepsInv == ASSUME Inv, [Next]_vars PROVE Inv'
<1>1. CASE \/ Boot \/ PlanLaunch \/ (\E r \in Runtimes : PlanInstall(r)) \/ FetchArtifact
           \/ ActivateFails \/ SaveReceipt \/ Consume \/ Install \/ InstallFails
           \/ CleanArtifacts \/ Stop
  <2>1. UNCHANGED <<dirs, whole>>
    BY <1>1 DEF Boot, PlanLaunch, PlanInstall, FetchArtifact, ActivateFails, SaveReceipt, Consume,
                Install, InstallFails, CleanArtifacts, Stop, cache
  <2> QED BY <1>1, <2>1, PlanKeepsInv
<1>2. CASE Hit \/ Miss
  BY <1>2, EnsureKeepsInv
<1>3. CASE Download
  BY <1>3, DownloadKeepsInv
<1>4. CASE Extract \/ ExtractFails \/ Activate
  BY <1>4, FillKeepsInv
<1>5. CASE PruneCommand \/ Crash
  BY <1>5, StartStopKeepsInv
<1>6. CASE Prune
  BY <1>6, ListKeepsInv, RemoveTreeKeepsInv, RemoveBlobsKeepsInv, PruneReceiptsKeepsInv,
     EnforceLimitKeepsInv DEF Prune
<1>7. CASE UNCHANGED vars
  <2> USE <1>7, Types DEF vars, cache, prune, bounds
  <2>1. DirsOK' /\ Trees' = Trees
    BY DEF DirsOK, Trees
  <2>2. CacheOK' /\ LauncherOK' /\ ProcsOK' /\ FlagsOK' /\ BoundsOK'
    BY DEF CacheOK, LauncherOK, ProcsOK, FlagsOK, BoundsOK
  <2>3. Control' /\ Pruning' /\ Beside'
    BY <2>1 DEF Control, Pruning, Round, Beside
  <2>4. Made' /\ Tidying'
    BY <2>1 DEF Made, Usable, Tidying
  <2> QED BY <2>1, <2>2, <2>3, <2>4 DEF Inv, TypeOK
<1> QED BY <1>1, <1>2, <1>3, <1>4, <1>5, <1>6, <1>7 DEF Next

\* The conjunction of the types and of what is known at each step is
\* inductive, for every catalog and every number of crashes and prunes.
THEOREM Invariance == Spec => []Inv
BY InitEstablishesInv, StepKeepsInv, PTL DEF Spec

\* Every variable keeps its type: no directory is listed twice, and only
\* directories that exist are whole.
THEOREM TypeCorrect == Spec => []TypeOK
<1>1. Inv => TypeOK
  BY DEF Inv
<1> QED BY <1>1, Invariance, PTL

\* EnsureRuntimeTree and Prune: an installer and a server run on a whole tree,
\* whatever crashes and prunes came before, and whatever prune runs beside
\* the server; a prune that overlaps the preparation is excepted.
THEOREM RuntimeIsAlwaysUsable == Spec => []RuntimeIsUsable
<1>1. Inv => RuntimeIsUsable
  <2> SUFFICES ASSUME Inv, ~disturbed
               PROVE  /\ At("launcher", "install") => want \in whole
                      /\ At("launcher", "running") => Verified(active)
    BY DEF RuntimeIsUsable
  <2> USE Types
  <2>1. At("launcher", "install") => want \in whole
    BY DEF At, Made, Usable
  <2>2. At("launcher", "running") => Verified(active)
    BY DEF At, Made, Usable, Control, Verified
  <2> QED BY <2>1, <2>2
<1> QED BY <1>1, Invariance, PTL

\* The prune before a launch leaves the active tree, at most one other, their
\* receipts and no consumed download.
THEOREM CacheIsAlwaysTidy == Spec => []CacheIsTidy
<1>1. Inv => CacheIsTidy
  <2> SUFFICES ASSUME Inv, At("launcher", "running"), ~disturbed
               PROVE  /\ Len(dirs) <= 2 /\ receipts \subseteq ToSet(dirs)
                      /\ blobs = {} /\ ~artifact
                      /\ tight => ToSet(dirs) \cap whole \subseteq {active}
    BY DEF CacheIsTidy
  <2> USE Types DEF At
  <2>1. /\ receipts \subseteq Trees /\ blobs = {} /\ ~artifact
        /\ tight => Trees \cap whole \subseteq {active}
    BY DEF Tidying, Control
  <2>2. PICK d : Trees \subseteq {active, d}
    BY DEF Tidying, Control
  <2>3. Len(dirs) <= 2
    <3> SUFFICES ASSUME ~(Len(dirs) <= 2) PROVE FALSE
      OBVIOUS
    <3>1. dirs \in Seq(Names) /\ Len(dirs) \in Nat /\ 1 \in 1 .. Len(dirs) /\ 2 \in 1 .. Len(dirs)
          /\ 3 \in 1 .. Len(dirs)
      BY DEF DirsOK
    <3>2. \A i \in 1 .. Len(dirs) : dirs[i] \in {active, d}
      BY <2>2, <3>1, MemberIsIndexed DEF Trees
    <3>3. \A i, j \in 1 .. Len(dirs) : dirs[i] = dirs[j] => i = j
      BY <3>1, InjectiveIs DEF DirsOK
    <3> QED BY <3>1, <3>2, <3>3
  <2> QED BY <2>1, <2>3 DEF Trees
<1> QED BY <1>1, Invariance, PTL

==============================================================================
