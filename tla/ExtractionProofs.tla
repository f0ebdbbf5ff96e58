--------------------------- MODULE ExtractionProofs ---------------------------
(***************************************************************************)
(* Proofs about Extraction, for every archive, every destination it is     *)
(* extracted over and every limit: an extraction that succeeds has put     *)
(* every entry in its place, and takes away nothing that has to stay.      *)
(***************************************************************************)
EXTENDS Extraction, TLAPS

(***************************************************************************)
(* The inductive invariant.                                                *)
(***************************************************************************)

Writing == pc \in {"copy", "replace", "rename"}

\* The result of the entry s is there.
Placed(s) ==
    IF s.kind = "file"
    THEN tree[s.path] = File(s.no)
         \/ (format = "zip" /\ s.path \in Configs /\ tree[s.path] \in {Old, Dir})
    ELSE tree[s.path] = <<s.kind, 0>>

\* Every entry admitted so far has its result, but for the file in writing.
Placement ==
    pc \notin {"idle", "failed"} =>
        \A s \in seen : Placed(s) \/ (Writing /\ s.path = cur.path)

\* The file in writing is one of these entries, and has a place to go to where
\* nothing is that must be kept.
Current ==
    Writing =>
        /\ \A a \in Above[cur.path] : tree[a] = Dir
        /\ tree[cur.path] \in {None} \cup Files
        /\ format = "zip" /\ cur.path \in Configs => tree[cur.path] = None
        /\ \E s \in seen : s.path = cur.path
        /\ \A s \in seen : s.path = cur.path => s.kind = "file" /\ s.no = cur.no

\* A file that is not old comes from an entry of its path.
Sourced == \A p \in Paths : tree[p] \in Files => tree[p] = Old \/ \E s \in seen : s.path = p

Inv == TypeOK /\ Placement /\ Current /\ Sourced

------------------------------------------------------------------------------

\* The kinds of nodes are apart, and a file tells its entry.
LEMMA NodesApart ==
    /\ None # Dir /\ None # Link /\ Dir # Link
    /\ \A k : File(k) \notin {None, Dir, Link}
    /\ \A k, l : File(k) = File(l) => k = l
    /\ Dir = <<"dir", 0>> /\ Link = <<"link", 0>>
BY DEF None, Dir, Link, File

LEMMA FilesAreFiles ==
    /\ Old \in Files
    /\ \A k \in 0 .. MaxEntries : File(k) \in Files
    /\ None \notin Files /\ Dir \notin Files /\ Link \notin Files
    /\ \A f \in Files : \E k \in 0 .. MaxEntries : f = File(k)
BY NodesApart, ExtractionAssumption DEF Old, Files

\* Making directories that are missing keeps the tree well formed and whatever
\* was there.
LEMMA EnsuredKeeps ==
    ASSUME tree \in [Paths -> Nodes], Shaped(tree), NEW dirs \in SUBSET Paths, CanEnsure(dirs),
           \A p \in dirs : Above[p] \subseteq dirs
    PROVE  /\ Ensured(dirs) \in [Paths -> Nodes] /\ Shaped(Ensured(dirs))
           /\ \A p \in Paths : tree[p] # None => Ensured(dirs)[p] = tree[p]
           /\ \A p \in Paths \ dirs : Ensured(dirs)[p] = tree[p]
           /\ \A p \in dirs : Ensured(dirs)[p] = Dir
<1>1. Ensured(dirs) \in [Paths -> Nodes]
  BY DEF Ensured, Nodes
<1>2. \A p \in Paths : tree[p] # None => Ensured(dirs)[p] = tree[p]
  BY DEF Ensured, CanEnsure
<1>3. Shaped(Ensured(dirs))
  BY <1>2, NodesApart, ExtractionAssumption DEF Shaped, Ensured
<1> QED BY <1>1, <1>2, <1>3 DEF Ensured

LEMMA AboveIsClosed ==
    ASSUME NEW p \in Paths
    PROVE  /\ Above[p] \subseteq Paths /\ p \notin Above[p]
           /\ \A a \in Above[p] : Above[a] \subseteq Above[p]
BY ExtractionAssumption

\* The budget after an entry that was admitted.
LEMMA AddKeeps ==
    ASSUME Inv, NEW e \in Entries, e.path \in Paths, e.kind \in {"dir", "file", "link"},
           Admits(e), Add(e)
    PROVE  /\ n' \in 0 .. MaxEntries /\ total' \in Nat /\ n + 1 \in 1 .. n'
           /\ \A s \in seen' : s.path \in Paths /\ s.kind \in {"dir", "file", "link"}
                               /\ s.no \in 1 .. n'
           /\ seen \subseteq seen'
           /\ \E s \in seen' : s.path = e.path
           /\ \A s \in seen' : \/ s \in seen /\ (s.path = e.path => s.kind = "dir" /\ e.kind = "dir")
                               \/ s.path = e.path /\ s.kind = e.kind /\ s.no = n + 1
<1> USE ExtractionAssumption
<1>1. n \in Nat /\ total \in Nat /\ e.size \in Nat
  <2>1. n \in 0 .. MaxEntries /\ total \in Nat
    BY DEF Inv, TypeOK
  <2>2. e.size \in Nat
    BY DEF Entries
  <2> QED BY <2>1, <2>2
<1>2. n' = n + 1 /\ n' \in 0 .. MaxEntries /\ n + 1 \in 1 .. n'
  BY <1>1 DEF Add, Admits, WithinLimits
<1>3. total' \in Nat
  BY <1>1 DEF Add
<1>4. \A s \in seen : s.path \in Paths /\ s.kind \in {"dir", "file", "link"} /\ s.no \in 1 .. n'
  BY <1>1, <1>2 DEF Inv, TypeOK
<1>5. CASE \E s \in seen : s.path = e.path
  BY <1>2, <1>3, <1>4, <1>5 DEF Add, Admits
<1>6. CASE ~\E s \in seen : s.path = e.path
  <2> DEFINE new == [path |-> e.path, kind |-> e.kind,
                     size |-> IF e.kind = "file" THEN e.size ELSE 0, no |-> n + 1]
  <2>1. seen' = seen \cup {new}
    BY <1>6 DEF Add
  <2>2. new.path = e.path /\ new.kind = e.kind /\ new.no = n + 1
    OBVIOUS
  <2> HIDE DEF new
  <2> QED BY <1>2, <1>3, <1>4, <1>6, <2>1, <2>2
<1> QED BY <1>5, <1>6

LEMMA PlacedIsThere ==
    ASSUME NEW s, s.kind \in {"dir", "file", "link"}, Placed(s)
    PROVE  tree[s.path] # None
BY NodesApart DEF Placed, Old

LEMMA InitEstablishesInv == Init => Inv
<1> SUFFICES ASSUME Init PROVE Inv
  OBVIOUS
<1> USE ExtractionAssumption DEF Init
<1>1. tree \in [Paths -> Nodes] /\ Shaped(tree)
  BY FilesAreFiles DEF Nodes
<1>2. n \in 0 .. MaxEntries /\ crashes \in 0 .. MaxCrashes /\ packed \in 0 .. 2
  OBVIOUS
<1>3. TypeOK
  BY <1>1, <1>2 DEF TypeOK, Formats
<1>4. Placement /\ Current
  BY DEF Placement, Current, Writing
<1>5. Sourced
  BY FilesAreFiles DEF Sourced
<1> QED BY <1>3, <1>4, <1>5 DEF Inv



(***************************************************************************)
(* The entries.                                                            *)
(***************************************************************************)

\* An entry that keeps what is there and has its result at once.
LEMMA EntryKeepsInv ==
    ASSUME Inv, pc = "entry", UNCHANGED <<archive, cur, pc, crashes>>,
           NEW e \in Entries, e.path \in Paths, e.kind \in {"dir", "file", "link"},
           Admits(e), Add(e),
           tree' \in [Paths -> Nodes], Shaped(tree)',
           \A p \in Paths : tree[p] # None => tree'[p] = tree[p],
           \A p \in Paths : tree'[p] \in Files => tree'[p] = tree[p],
           \A s \in seen' : s.path = e.path /\ s.kind = e.kind => Placed(s)'
    PROVE  Inv'
<1>1. TypeOK'
  BY AddKeeps DEF Inv, TypeOK, archive
<1>2. Placement'
  <2> SUFFICES ASSUME NEW s \in seen' PROVE Placed(s)'
    BY DEF Placement
  <2>1. CASE s \in seen /\ s.path # e.path
    <3>1. Placed(s) /\ s.path \in Paths
      BY <2>1 DEF Inv, TypeOK, Placement, Writing
    <3>2. tree[s.path] # None
      BY <2>1, <3>1, PlacedIsThere DEF Inv, TypeOK
    <3> QED BY <3>1, <3>2 DEF Placed, archive
  <2>2. CASE s.path = e.path /\ s.kind = e.kind
    BY <2>2
  <2> QED BY <2>1, <2>2, AddKeeps
<1>3. Current'
  BY DEF Current, Writing
<1>4. Sourced'
  BY AddKeeps DEF Inv, Sourced
<1> QED BY <1>1, <1>2, <1>3, <1>4 DEF Inv

LEMMA DirectoryEntryKeepsInv ==
    ASSUME Inv, pc = "entry", NEW e \in Entries, e.path \in Paths, DirectoryEntry(e)
    PROVE  Inv'
<1> DEFINE dirs == Above[e.path] \cup {e.path}
<1>1. dirs \in SUBSET Paths /\ \A p \in dirs : Above[p] \subseteq dirs
  BY AboveIsClosed
<1>2. CanEnsure(dirs) /\ tree' = Ensured(dirs)
  BY DEF DirectoryEntry
<1> HIDE DEF dirs
<1>3. /\ tree' \in [Paths -> Nodes] /\ Shaped(tree)'
      /\ \A p \in Paths : tree[p] # None => tree'[p] = tree[p]
      /\ \A p \in Paths \ dirs : tree'[p] = tree[p]
      /\ \A p \in dirs : tree'[p] = Dir
  BY <1>1, <1>2, EnsuredKeeps DEF Inv, TypeOK, Shaped
<1>4. \A p \in Paths : tree'[p] \in Files => tree'[p] = tree[p]
  BY <1>3, FilesAreFiles
<1>5. \A s \in seen' : s.path = e.path /\ s.kind = e.kind => Placed(s)'
  BY <1>3, NodesApart DEF DirectoryEntry, Placed, dirs
<1> QED BY <1>3, <1>4, <1>5, EntryKeepsInv DEF DirectoryEntry

LEMMA LinkEntryKeepsInv ==
    ASSUME Inv, pc = "entry", NEW e \in Entries, e.path \in Paths, LinkEntry(e)
    PROVE  Inv'
<1> DEFINE dirs == Above[e.path]
<1>1. dirs \in SUBSET Paths /\ e.path \notin dirs /\ \A p \in dirs : Above[p] \subseteq dirs
  BY AboveIsClosed
<1>2. CanEnsure(dirs) /\ tree[e.path] = None /\ tree' = [Ensured(dirs) EXCEPT ![e.path] = Link]
  BY DEF LinkEntry
<1>3. \A p \in Paths : e.path \in Above[p] => p \notin dirs
  BY AboveIsClosed
<1> HIDE DEF dirs
<1>4. /\ Ensured(dirs) \in [Paths -> Nodes] /\ Shaped(Ensured(dirs))
      /\ \A p \in Paths : tree[p] # None => Ensured(dirs)[p] = tree[p]
      /\ \A p \in Paths \ dirs : Ensured(dirs)[p] = tree[p]
      /\ \A p \in dirs : Ensured(dirs)[p] = Dir
  BY <1>1, <1>2, EnsuredKeeps DEF Inv, TypeOK
<1>5. Ensured(dirs)[e.path] = None
  BY <1>1, <1>2, <1>4
<1>6. tree' \in [Paths -> Nodes] /\ tree'[e.path] = Link
      /\ \A p \in Paths \ {e.path} : tree'[p] = Ensured(dirs)[p]
  BY <1>2, <1>4 DEF Nodes
<1>7. Shaped(tree)'
  <2> SUFFICES ASSUME NEW p \in Paths, tree'[p] # None, NEW a \in Above[p] PROVE tree'[a] = Dir
    BY DEF Shaped
  <2>1. a \in Paths
    BY AboveIsClosed
  <2>2. CASE p = e.path
    BY <1>1, <1>4, <1>6, <2>1, <2>2 DEF dirs
  <2>3. CASE p # e.path
    BY <1>4, <1>5, <1>6, <2>1, <2>3, NodesApart DEF Shaped
  <2> QED BY <2>2, <2>3
<1>8. \A p \in Paths : tree[p] # None => tree'[p] = tree[p]
  BY <1>2, <1>4, <1>6
<1>9. \A p \in Paths : tree'[p] \in Files => tree'[p] = tree[p]
  BY <1>4, <1>6, FilesAreFiles
<1>10. \A s \in seen' : s.path = e.path /\ s.kind = e.kind => Placed(s)'
  BY <1>6, NodesApart DEF LinkEntry, Placed
<1> QED BY <1>6, <1>7, <1>8, <1>9, <1>10, EntryKeepsInv DEF LinkEntry

\* What is kept of a file's name is old, or a directory.
LEMMA KeepConfigKeepsInv ==
    ASSUME Inv, pc = "entry", NEW e \in Entries, e.path \in Paths, KeepConfig(e)
    PROVE  Inv'
<1>1. tree[e.path] \in {Old, Dir} /\ format = "zip" /\ e.path \in Configs
  <2>1. ~\E s \in seen : s.path = e.path
    BY DEF KeepConfig, Admits
  <2>2. tree[e.path] \in {Dir} \cup Files
    BY DEF KeepConfig, Kept, Inv, TypeOK, Nodes
  <2> QED BY <2>1, <2>2 DEF Inv, Sourced, KeepConfig, Kept
<1>2. \A s \in seen' : s.path = e.path /\ s.kind = e.kind => Placed(s)'
  BY <1>1 DEF KeepConfig, Placed, archive
<1>3. tree' = tree /\ tree' \in [Paths -> Nodes] /\ Shaped(tree)'
  BY DEF KeepConfig, Inv, TypeOK, Shaped
<1> QED BY <1>2, <1>3, EntryKeepsInv DEF KeepConfig

LEMMA FileEntryKeepsInv ==
    ASSUME Inv, pc = "entry", NEW e \in Entries, e.path \in Paths, FileEntry(e)
    PROVE  Inv'
<1> DEFINE dirs == Above[e.path]
<1>1. dirs \in SUBSET Paths /\ e.path \notin dirs /\ \A p \in dirs : Above[p] \subseteq dirs
  BY AboveIsClosed
<1>2. CanEnsure(dirs) /\ tree' = Ensured(dirs) /\ tree[e.path] \in {None} \cup Files
      /\ (format = "zip" /\ e.path \in Configs => tree[e.path] = None)
  BY FilesAreFiles DEF FileEntry, Writable, Kept
<1>0. /\ e.kind \in {"dir", "file", "link"} /\ e.kind = "file" /\ Admits(e) /\ Add(e)
      /\ pc' = "copy" /\ UNCHANGED archive /\ crashes' = crashes
      /\ cur'.path = e.path /\ cur'.no = n + 1
  BY DEF FileEntry
<1> HIDE DEF dirs
<1>3. /\ tree' \in [Paths -> Nodes] /\ Shaped(tree)'
      /\ \A p \in Paths : tree[p] # None => tree'[p] = tree[p]
      /\ \A p \in Paths \ dirs : tree'[p] = tree[p]
      /\ \A p \in dirs : tree'[p] = Dir
  BY <1>1, <1>2, EnsuredKeeps DEF Inv, TypeOK, Shaped
<1>4. TypeOK'
  BY <1>0, <1>3, AddKeeps DEF Inv, TypeOK, archive
<1>5. Placement'
  <2> SUFFICES ASSUME NEW s \in seen', s.path # e.path PROVE Placed(s)'
    BY <1>0 DEF Placement, Writing
  <2>1. s \in seen /\ Placed(s) /\ s.path \in Paths
    BY <1>0, AddKeeps DEF Inv, TypeOK, Placement, Writing
  <2>2. tree[s.path] # None
    BY <2>1, PlacedIsThere DEF Inv, TypeOK
  <2> QED BY <1>0, <1>3, <2>1, <2>2 DEF Placed, archive
<1>6. Current'
  BY <1>0, <1>1, <1>2, <1>3, AddKeeps DEF Current, archive, dirs
<1>7. Sourced'
  BY <1>0, <1>3, AddKeeps, FilesAreFiles DEF Inv, Sourced
<1> QED BY <1>4, <1>5, <1>6, <1>7 DEF Inv

(***************************************************************************)
(* The other steps.                                                        *)
(***************************************************************************)

LEMMA OpenKeepsInv == ASSUME Inv, Open PROVE Inv'
<1> USE DEF Open
<1>0. tree \in [Paths -> Nodes] /\ Shaped(tree)
  BY DEF Inv, TypeOK
<1>1. tree' \in [Paths -> Nodes]
  BY <1>0, FilesAreFiles DEF Nodes
<1>2. \A p \in Paths : /\ tree[p] \notin Files => tree'[p] = tree[p]
                       /\ tree[p] \in Files => tree'[p] = Old
  OBVIOUS
<1>3. Shaped(tree)'
  BY <1>0, <1>2, FilesAreFiles, AboveIsClosed DEF Shaped
<1>4. n' \in 0 .. MaxEntries /\ total' \in Nat /\ packed' \in 0 .. 2
  BY ExtractionAssumption
<1>5. TypeOK'
  BY <1>1, <1>3, <1>4 DEF Inv, TypeOK
<1>6. Placement' /\ Current'
  BY DEF Placement, Current, Writing
<1>7. Sourced'
  BY <1>2 DEF Sourced
<1> QED BY <1>5, <1>6, <1>7 DEF Inv

\* An entry that is skipped or refused.
LEMMA EntryStepKeepsInv == ASSUME Inv, Entry PROVE Inv'
<1>1. PICK e \in Entries :
         \/ SkipEntry(e)
         \/ e.path \in Paths /\ (DirectoryEntry(e) \/ KeepConfig(e) \/ FileEntry(e) \/ LinkEntry(e))
         \/ ~Accepts(e) /\ Fail
  BY DEF Entry
<1>2. pc = "entry"
  BY DEF Entry
<1>3. CASE SkipEntry(e)
  BY <1>3 DEF SkipEntry, vars, archive, budget, Inv, TypeOK, Shaped, Placement, Placed, Writing,
              Current, Sourced
<1>4. CASE Fail
  BY <1>2, <1>4 DEF Fail, archive, budget, Inv, TypeOK, Shaped, Placement, Writing, Current, Sourced
<1>5. CASE e.path \in Paths /\ (DirectoryEntry(e) \/ KeepConfig(e) \/ FileEntry(e) \/ LinkEntry(e))
  BY <1>2, <1>5, DirectoryEntryKeepsInv, KeepConfigKeepsInv, FileEntryKeepsInv, LinkEntryKeepsInv
<1> QED BY <1>1, <1>3, <1>4, <1>5

\* The steps of writeArchiveRegularAt: nothing is below the file that is
\* replaced.
LEMMA WriteKeepsInv == ASSUME Inv, Replace \/ Rename PROVE Inv'
<1>0. /\ tree \in [Paths -> Nodes] /\ Shaped(tree) /\ Writing
      /\ cur.path \in Paths /\ cur.no \in 1 .. n /\ n \in 0 .. MaxEntries
      /\ UNCHANGED <<archive, budget, cur, crashes>>
  BY DEF Inv, TypeOK, Replace, Rename, Writing
<1>1. CASE UNCHANGED tree /\ pc' = "failed"
  BY <1>0, <1>1 DEF archive, budget, Inv, TypeOK, Shaped, Placement, Writing, Current, Sourced
<1>2. ASSUME NEW v \in {None, File(cur.no)}, tree' = [tree EXCEPT ![cur.path] = v],
             pc' \in {"entry", "rename"}, pc' = "rename" => v = None,
             pc' = "entry" => v = File(cur.no)
      PROVE  Inv'
  <2>1. cur.no \in 0 .. MaxEntries
    BY <1>0, ExtractionAssumption
  <2>2. File(cur.no) \in Files
    BY <2>1, FilesAreFiles
  <2>3. tree[cur.path] \in {None} \cup Files /\ \A a \in Above[cur.path] : tree[a] = Dir
    BY <1>0 DEF Inv, Current
  <2>4. tree' \in [Paths -> Nodes] /\ tree'[cur.path] = v
        /\ \A p \in Paths \ {cur.path} : tree'[p] = tree[p]
    BY <1>0, <1>2, <2>2 DEF Nodes
  <2>5. Shaped(tree)'
    <3> SUFFICES ASSUME NEW p \in Paths, tree'[p] # None, NEW a \in Above[p] PROVE tree'[a] = Dir
      BY DEF Shaped
    <3>1. a \in Paths /\ cur.path \notin Above[cur.path]
      BY <1>0, AboveIsClosed
    <3>2. tree[a] = Dir
      BY <1>0, <2>3, <2>4 DEF Shaped
    <3>3. a # cur.path
      BY <2>3, <3>2, FilesAreFiles, NodesApart
    <3> QED BY <2>4, <3>1, <3>2, <3>3
  <2>6. TypeOK'
    BY <1>0, <1>2, <2>4, <2>5 DEF Inv, TypeOK, archive, budget
  <2>7. Placement'
    <3> SUFFICES ASSUME NEW s \in seen, Writing' => s.path # cur.path PROVE Placed(s)'
      BY <1>0 DEF Placement, budget
    <3>1. s.path \in Paths /\ (s.path # cur.path => Placed(s))
      BY <1>0 DEF Inv, TypeOK, Placement, Writing
    <3>2. CASE s.path = cur.path
      BY <1>0, <1>2, <2>4, <3>2 DEF Inv, Current, Writing, Placed
    <3>3. CASE s.path # cur.path
      BY <1>0, <2>4, <3>1, <3>3 DEF Placed, archive
    <3> QED BY <3>2, <3>3
  <2>8. Current'
    <3>1. CASE pc' = "entry"
      BY <3>1 DEF Current, Writing
    <3>2. CASE pc' = "rename"
      <4>1. tree'[cur.path] = None
        BY <1>2, <2>4, <3>2
      <4>2. \A a \in Above[cur.path] : tree'[a] = Dir
        BY <1>0, <2>3, <2>4, AboveIsClosed
      <4> QED BY <1>0, <4>1, <4>2 DEF Inv, Current, archive, budget
    <3> QED BY <1>2, <3>1, <3>2
  <2>9. Sourced'
    BY <1>0, <2>4, FilesAreFiles DEF Inv, Sourced, Current, budget
  <2> QED BY <2>6, <2>7, <2>8, <2>9 DEF Inv
<1>3. CASE Replace
  BY <1>1, <1>2, <1>3 DEF Replace
<1>4. CASE Rename
  BY <1>1, <1>2, <1>4 DEF Rename
<1> QED BY <1>3, <1>4

LEMMA OthersKeepInv == ASSUME Inv, Copy \/ Finish \/ Retry \/ Crash PROVE Inv'
<1>1. tree' = tree /\ UNCHANGED <<archive, budget>>
  BY DEF Copy, Finish, Retry, Crash
<1>2. crashes' \in 0 .. MaxCrashes
  BY ExtractionAssumption DEF Inv, TypeOK, Copy, Finish, Retry, Crash
<1>3. TypeOK'
  BY <1>1, <1>2 DEF Inv, TypeOK, Shaped, archive, budget, Copy, Finish, Retry, Crash
<1>4. Placement' /\ Current'
  BY <1>1 DEF Inv, Placement, Placed, Current, Writing, archive, budget, Copy, Finish, Retry, Crash
<1>5. Sourced'
  BY <1>1 DEF Inv, Sourced, budget
<1> QED BY <1>3, <1>4, <1>5 DEF Inv

LEMMA StepKeepsInv == ASSUME Inv, [Next]_vars PROVE Inv'
<1>1. CASE UNCHANGED vars
  BY <1>1 DEF vars, archive, budget, Inv, TypeOK, Shaped, Placement, Placed, Writing, Current, Sourced
<1> QED BY <1>1, OpenKeepsInv, EntryStepKeepsInv, WriteKeepsInv, OthersKeepInv DEF Next

\* The inductive invariant is an invariant.
THEOREM Invariance == Spec => []Inv
BY InitEstablishesInv, StepKeepsInv, PTL DEF Spec

------------------------------------------------------------------------------

\* The destination stays a tree, and its files are whole, whatever fails.
THEOREM TypeCorrect == Spec => []TypeOK
BY Invariance, PTL DEF Inv

\* An extraction that succeeds (archive_fs.go, extractZipSafe and
\* extractTarSafe) has the result of every entry of its archive in place, for
\* every archive and destination.
THEOREM DoneIsAlwaysComplete == Spec => []DoneIsComplete
<1>1. Inv => DoneIsComplete
  BY DEF Inv, Placement, Placed, Writing, DoneIsComplete
<1> QED BY <1>1, Invariance, PTL

\* No step of an extraction replaces a directory, a link, or a configuration
\* file the Bedrock server's user has.
THEOREM ExistingIsAlwaysKept == Spec => ExistingIsKept
<1> DEFINE KeptAt(p) == /\ tree[p] \in {Dir, Link} => tree'[p] = tree[p]
                        /\ format = "zip" /\ p \in Configs /\ tree[p] = Old => tree'[p] = Old
<1>1. ASSUME Inv, [Next]_vars, NEW p \in Paths PROVE KeptAt(p)
  <2>0. tree \in [Paths -> Nodes]
    BY <1>1 DEF Inv, TypeOK
  <2>1. CASE Open
    BY <1>1, <2>1, FilesAreFiles DEF Open
  <2>2. ASSUME NEW e \in Entries, e.path \in Paths, DirectoryEntry(e) \/ FileEntry(e) PROVE KeptAt(p)
    <3>1. PICK dirs \in SUBSET Paths : CanEnsure(dirs) /\ tree' = Ensured(dirs)
      BY <2>2, AboveIsClosed DEF DirectoryEntry, FileEntry, Writable
    <3>2. tree[p] # None => tree'[p] = tree[p]
      BY <3>1 DEF CanEnsure, Ensured
    <3> QED BY <3>2, NodesApart DEF Old
  <2>3. ASSUME NEW e \in Entries, e.path \in Paths, LinkEntry(e) PROVE KeptAt(p)
    <3>1. tree[p] # None => tree'[p] = tree[p]
      BY <2>3 DEF LinkEntry, CanEnsure, Ensured
    <3> QED BY <3>1, NodesApart DEF Old
  <2>4. CASE Replace \/ Rename
    <3>1. Writing /\ (p # cur.path => tree'[p] = tree[p])
      BY <2>0, <2>4 DEF Replace, Rename, Writing
    <3>2. p = cur.path => tree[p] \in {None} \cup Files
                          /\ (format = "zip" /\ p \in Configs => tree[p] = None)
      BY <1>1, <3>1 DEF Inv, Current
    <3> QED BY <3>1, <3>2, FilesAreFiles, NodesApart
  <2>5. CASE tree' = tree
    BY <2>5
  <2> QED
    BY <1>1, <2>1, <2>2, <2>3, <2>4, <2>5
       DEF Next, Entry, SkipEntry, KeepConfig, Fail, Copy, Finish, Retry, Crash, vars
<1>2. ASSUME Inv, [Next]_vars PROVE \A p \in Paths : KeptAt(p)
  BY <1>1, <1>2
<1> QED BY <1>2, Invariance, PTL DEF Spec, ExistingIsKept

==============================================================================
