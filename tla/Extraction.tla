------------------------------ MODULE Extraction ------------------------------
(***************************************************************************)
(* The extraction of a ZIP or TAR archive over a directory that may hold   *)
(* something already: archive_fs.go. The entries come in any order and are *)
(* any the archive may have; a path is a model value, and so is the result *)
(* of cleaning a name that leaves the root or that the strip removes.      *)
(* A file is what entry of this extraction it came from.                   *)
(***************************************************************************)
EXTENDS Naturals, FiniteSets

CONSTANTS
    Paths,       \* the cleaned paths of entries
    Above,       \* the directories a path lies in
    Configs,     \* the paths isBedrockConfig knows
    Unsafe,      \* a name that is refused
    Stripped,    \* a name of which the strip leaves nothing
    Sizes,       \* the sizes of files
    MaxEntries, MaxTotal, MaxFile, MaxLinks, MaxRatio,  \* archiveLimits
    MaxCrashes   \* bound on the crashes of a behaviour

ASSUME ExtractionAssumption ==
    /\ Above \in [Paths -> SUBSET Paths] /\ Configs \subseteq Paths
    /\ \A p \in Paths : p \notin Above[p] /\ \A a \in Above[p] : Above[a] \subseteq Above[p]
    /\ {Unsafe, Stripped} \cap Paths = {}
    /\ Sizes \subseteq Nat
    /\ {MaxEntries, MaxTotal, MaxFile, MaxLinks, MaxRatio, MaxCrashes} \subseteq Nat

VARIABLES
    tree,     \* what the destination holds at each path
    format,   \* of the archive: "zip", "tar", "tar.gz" or "tar.xz"
    packed,   \* compressed size of a compressed TAR
    seen,     \* archiveBudget.seen: the entries that were admitted
    n,        \* archiveBudget.entries
    total,    \* archiveBudget.total
    cur,      \* the file that is being written
    pc,
    crashes

budget == <<seen, n, total>>
archive == <<format, packed>>
vars == <<tree, format, packed, seen, n, total, cur, pc, crashes>>

Formats == {"zip", "tar", "tar.gz", "tar.xz"}

\* A file is numbered by the entry it came from, 0 before this extraction.
None == <<"none", 0>>
Dir == <<"dir", 0>>
Link == <<"link", 0>>
File(no) == <<"file", no>>
Old == File(0)

Files == {File(no) : no \in 0 .. MaxEntries}
Nodes == {None, Dir, Link} \cup Files

Kinds == {"dir", "file", "link", "other"}
Entries == [path : Paths \cup {Unsafe, Stripped}, kind : Kinds, size : Sizes, packed : {0, 1}]

Shaped(t) == \A p \in Paths : t[p] # None => \A a \in Above[p] : t[a] = Dir

NoFile == [path |-> Unsafe, no |-> 0]

Init ==
    /\ tree \in {t \in [Paths -> {None, Dir, Link, Old}] : Shaped(t)}
    /\ format = "zip" /\ packed = 0
    /\ seen = {} /\ n = 0 /\ total = 0 /\ cur = NoFile
    /\ pc = "idle" /\ crashes = 0

------------------------------------------------------------------------------

\* A new extraction, with a new budget; what is there is old. The formats are
\* those of the callers: only runtimes, "tar.gz", may have links.
Open ==
    /\ pc = "idle"
    /\ pc' \in {"entry", "failed"}
    /\ format' \in Formats
    /\ packed' \in IF format' \in {"tar.gz", "tar.xz"} THEN {1, 2} ELSE {0}
    /\ tree' = [p \in Paths |-> IF tree[p] \in Files THEN Old ELSE tree[p]]
    /\ seen' = {} /\ n' = 0 /\ total' = 0
    /\ UNCHANGED <<cur, crashes>>

\* archiveBudget.add; the limits on entries, sizes and links.
WithinLimits(e) ==
    /\ n + 1 <= MaxEntries
    /\ e.kind = "link" => Cardinality({s \in seen : s.kind = "link"}) < MaxLinks
    /\ e.kind = "file" => e.size <= MaxFile /\ total + e.size <= MaxTotal

\* Mutant: a second entry of a path replaces the first.
AdmitsAgain(e) == WithinLimits(e)

\* A path may come twice only as a directory.
Admits(e) ==
    /\ WithinLimits(e)
    /\ \A s \in seen : s.path = e.path => s.kind = "dir" /\ e.kind = "dir"

Add(e) ==
    /\ n' = n + 1
    /\ IF \E s \in seen : s.path = e.path
       THEN UNCHANGED <<seen, total>>
       ELSE /\ seen' = seen \cup {[path |-> e.path, kind |-> e.kind,
                                   size |-> IF e.kind = "file" THEN e.size ELSE 0, no |-> n + 1]}
            /\ total' = total + IF e.kind = "file" THEN e.size ELSE 0

\* checkCompression of one file of a ZIP, or of a compressed TAR so far.
Dense(e) ==
    IF format = "zip" THEN e.size > 0 => e.packed > 0 /\ e.size <= MaxRatio * e.packed
    ELSE packed > 0 => total + e.size <= MaxRatio * packed

\* ensureArchiveDirectory finds, or can make, real directories.
CanEnsure(dirs) == \A a \in dirs : tree[a] \in {None, Dir}

Ensured(dirs) == [p \in Paths |-> IF p \in dirs THEN Dir ELSE tree[p]]

Fail == pc' = "failed" /\ UNCHANGED <<tree, archive, budget, cur, crashes>>

\* An entry that is not looked at: all of its name is stripped.
SkipEntry(e) ==
    /\ e.path = Stripped /\ format = "tar.xz"
    /\ UNCHANGED vars

DirectoryEntry(e) ==
    /\ e.kind = "dir" /\ Admits(e)
    /\ LET dirs == Above[e.path] \cup {e.path}
       IN  /\ CanEnsure(dirs)
           /\ tree' = Ensured(dirs)
    /\ Add(e)
    /\ UNCHANGED <<archive, cur, pc, crashes>>

\* Mutant: the packaged configuration replaces the user's.
KeptNever(e) == FALSE

\* extractZipSafe leaves what is there of the name of a configuration file,
\* a directory too.
Kept(e) == format = "zip" /\ e.path \in Configs /\ tree[e.path] \notin {None, Link}

KeepConfig(e) ==
    /\ e.kind = "file" /\ Admits(e) /\ Dense(e) /\ Kept(e)
    /\ Add(e)
    /\ UNCHANGED <<tree, archive, cur, pc, crashes>>

\* writeArchiveRegularAt replaces regular files only.
Writable(p) == CanEnsure(Above[p]) /\ tree[p] \in {None} \cup Files

FileEntry(e) ==
    /\ e.kind = "file" /\ Admits(e) /\ Dense(e) /\ ~Kept(e) /\ Writable(e.path)
    /\ tree' = Ensured(Above[e.path])
    /\ cur' = [path |-> e.path, no |-> n + 1]
    /\ pc' = "copy"
    /\ Add(e)
    /\ UNCHANGED <<archive, crashes>>

LinkEntry(e) ==
    /\ e.kind = "link" /\ format = "tar.gz" /\ Admits(e)
    /\ CanEnsure(Above[e.path]) /\ tree[e.path] = None
    /\ tree' = [Ensured(Above[e.path]) EXCEPT ![e.path] = Link]
    /\ Add(e)
    /\ UNCHANGED <<archive, cur, pc, crashes>>

Accepts(e) ==
    \/ e.path = Stripped /\ format = "tar.xz"
    \/ /\ e.path \in Paths /\ Admits(e)
       /\ CASE e.kind = "dir" -> CanEnsure(Above[e.path] \cup {e.path})
            [] e.kind = "file" -> Dense(e) /\ (Kept(e) \/ Writable(e.path))
            [] e.kind = "link" -> format = "tar.gz" /\ CanEnsure(Above[e.path])
                                  /\ tree[e.path] = None
            [] OTHER -> FALSE

\* One entry of the archive; any that is not accepted ends the extraction.
Entry ==
    /\ pc = "entry"
    /\ \E e \in Entries :
          \/ SkipEntry(e)
          \/ e.path \in Paths /\ (DirectoryEntry(e) \/ KeepConfig(e) \/ FileEntry(e) \/ LinkEntry(e))
          \/ ~Accepts(e) /\ Fail

\* The content goes to a temporary file beside its target; it may be cut
\* short, longer than declared, or not fit the disk.
Copy ==
    /\ pc = "copy"
    /\ pc' \in {"replace", "failed"}
    /\ UNCHANGED <<tree, archive, budget, cur, crashes>>

\* A file in the way is removed first.
Replace ==
    /\ pc = "replace"
    /\ \/ tree' = [tree EXCEPT ![cur.path] = None] /\ pc' = "rename"
       \/ pc' = "failed" /\ UNCHANGED tree
    /\ UNCHANGED <<archive, budget, cur, crashes>>

Rename ==
    /\ pc = "rename"
    /\ \/ tree' = [tree EXCEPT ![cur.path] = File(cur.no)] /\ pc' = "entry"
       \/ pc' = "failed" /\ UNCHANGED tree
    /\ UNCHANGED <<archive, budget, cur, crashes>>

\* The end of the archive; a TAR reader stops at its end mark, and xz has to
\* exit cleanly after it. An unreadable archive fails.
Finish ==
    /\ pc = "entry"
    /\ pc' \in {"done", "failed"}
    /\ UNCHANGED <<tree, archive, budget, cur, crashes>>

\* The caller tries again, now or at the next boot.
Retry ==
    /\ pc \in {"done", "failed"}
    /\ pc' = "idle" /\ cur' = NoFile
    /\ UNCHANGED <<tree, archive, budget, crashes>>

Crash ==
    /\ pc \notin {"idle", "done", "failed"} /\ crashes < MaxCrashes
    /\ crashes' = crashes + 1
    /\ pc' = "idle" /\ cur' = NoFile
    /\ UNCHANGED <<tree, archive, budget>>

Next == Open \/ Entry \/ Copy \/ Replace \/ Rename \/ Finish \/ Retry \/ Crash

Spec == Init /\ [][Next]_vars

------------------------------------------------------------------------------

\* Besides the types: a file is never partial, and never below anything but a
\* directory, whatever fails or is killed.
TypeOK ==
    /\ tree \in [Paths -> Nodes] /\ Shaped(tree)
    /\ format \in Formats /\ packed \in 0 .. 2
    /\ \A s \in seen : s.path \in Paths /\ s.kind \in {"dir", "file", "link"} /\ s.no \in 1 .. n
    /\ n \in 0 .. MaxEntries /\ total \in Nat
    /\ pc \in {"idle", "entry", "copy", "replace", "rename", "done", "failed"}
    /\ pc \in {"copy", "replace", "rename"} => cur.path \in Paths /\ cur.no \in 1 .. n
    /\ crashes \in 0 .. MaxCrashes

\* An extraction that succeeds has put every entry of the archive where it
\* belongs: no entry has replaced another, or taken away the directory of one.
DoneIsComplete ==
    pc = "done" =>
        \A s \in seen :
            CASE s.kind = "file" -> tree[s.path] = File(s.no)
                                    \/ (format = "zip" /\ s.path \in Configs /\ tree[s.path] \in {Old, Dir})
              [] OTHER -> tree[s.path] = <<s.kind, 0>>

\* Directories and links are never replaced, and the configuration of a Bedrock
\* server survives every extraction of a ZIP over it.
ExistingIsKept ==
    [][\A p \in Paths :
          /\ tree[p] \in {Dir, Link} => tree'[p] = tree[p]
          /\ format = "zip" /\ p \in Configs /\ tree[p] = Old => tree'[p] = Old]_vars

==============================================================================
