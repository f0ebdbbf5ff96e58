------------------------------ MODULE Installers ------------------------------
(***************************************************************************)
(* The installers of staged providers: services.go, provider.go,           *)
(* registry.go, providers_v2.go and generic_apps.go, up to the activation  *)
(* of what they made as a release (ReleaseStore has what follows).         *)
(*                                                                         *)
(* The steps of a recipe are taken on the tree that is prepared under      *)
(* .pcvm/managed and on the user's files in the home directory. The tree   *)
(* is in a directory of its own name, which the installer removes when it  *)
(* fails, at a path fixed by the version, which it leaves, or, when a git  *)
(* commit has a release already, that of the release.                      *)
(*                                                                         *)
(* What the user lacks is looked for first and written afterwards, and the *)
(* user may save a file in between.                                        *)
(***************************************************************************)
EXTENDS Recipes

CONSTANTS
    Names,       \* what linkMutableData links, and installers add to the home directory
    Dirs,        \* those of them that are directories
    EntryChanges \* whether a .NET commit released from a .dll may be asked for again
                 \* with the .csproj beside it as its entry

ASSUME InstallersAssumption == Dirs \subseteq Names /\ EntryChanges \in BOOLEAN

VARIABLES
    home,       \* the user's files, that outlive every release
    root,       \* the tree that is prepared, or a fixed one of an earlier attempt
    dirs,       \* the directories of their own name of this attempt
    release,    \* the artifact's release: "none", "whole" or "changed"
    reused,     \* whether this attempt uses it
    todo,       \* the names to be linked
    cursor      \* the name a step is at, and what it does next

progress == <<reused, mode, pos, todo, cursor>>
vars == <<provider, home, root, dirs, release, reused, mode, pos, todo, cursor, crashes>>

Nothing == [at |-> "none", body |-> "none", packs |-> {}, local |-> [n \in Names |-> "none"]]
NoName == <<"none", "none">>

Init ==
    /\ provider \in StagedProviders
    /\ home \in [Names -> {"none", "user"}]
    /\ root = Nothing /\ dirs = {} /\ release = "none"
    /\ reused = FALSE /\ mode = "idle" /\ pos = 1 /\ todo = {} /\ cursor = NoName
    /\ crashes = 0

------------------------------------------------------------------------------

\* The panel's file manager and the server write at any time; the user removes
\* a file while nothing runs.
UserWrites(n) ==
    /\ home' = [home EXCEPT ![n] = "user"]
    /\ UNCHANGED <<provider, root, dirs, release, progress, crashes>>

UserRemoves(n) ==
    /\ mode = "idle" /\ home' = [home EXCEPT ![n] = "none"]
    /\ UNCHANGED <<provider, root, dirs, release, progress, crashes>>

\* An attempt, for the artifact of the last one or for another, which has a
\* release and a fixed path of its own.
Begin ==
    /\ mode = "idle"
    /\ mode' = "work" /\ pos' = 1 /\ todo' = Names /\ cursor' = NoName /\ reused' = FALSE
    /\ UNCHANGED <<provider, home, dirs, crashes>>

BeginAgain == Begin /\ UNCHANGED <<root, release>>

BeginAnother == Begin /\ root' = Nothing /\ release' = "none"

\* The next step, with the directories there are after this one; after the
\* last step the deferred removal of the stage.
Advance(d) ==
    IF pos = Len(Recipe[provider])
    THEN mode' = "made" /\ dirs' = d \ {"stage"} /\ UNCHANGED pos
    ELSE pos' = pos + 1 /\ dirs' = d /\ UNCHANGED mode

\* What becomes of the release when the tree of the attempt is removed, or
\* something is made in it.
RemoveTree == release' = IF root.at = "release" THEN "none" ELSE release
ChangeTree == release' = IF root.at = "release" THEN "changed" ELSE release

\* A fixed tree stays as the failed step left it.
Failed(tree) ==
    /\ mode' = "failed" /\ dirs' = {} /\ cursor' = NoName
    /\ root' = IF root.at = "fixed" THEN tree ELSE Nothing
    /\ UNCHANGED <<provider, home, reused, pos, todo, crashes>>

\* Mutant: a source that is reused is removed like one that was cloned.
FailRemovingReused(tree) == Failed(tree) /\ RemoveTree

\* An error: the deferred removals, of what the attempt made itself.
FailWith(tree) == Failed(tree) /\ IF reused THEN UNCHANGED release ELSE RemoveTree

Fail == FailWith(root)

\* A step that only changes the tree, or fails.
Makes(d, tree) ==
    /\ Advance(d) /\ root' = tree
    /\ UNCHANGED <<provider, home, release, reused, todo, cursor, crashes>>

\* The home directory has nothing of the name, and that is not looked at again.
Looks(n) ==
    /\ cursor = NoName /\ home[n] = "none"
    /\ cursor' = <<n, "write">>
    /\ UNCHANGED <<provider, home, root, dirs, release, reused, mode, pos, todo, crashes>>

\* What it has by then is replaced.
Writes(n, content) ==
    /\ cursor = <<n, "write">>
    /\ home' = [home EXCEPT ![n] = content]
    /\ UNCHANGED <<provider, root, release, reused, todo, crashes>>

\* os.MkdirTemp; an installer extracts into the last directory it made.
MakeDirectory ==
    /\ Step \in {"stage", "candidate"}
    /\ \/ Makes(dirs \cup {Step}, [Nothing EXCEPT !.at = Step])
       \/ Fail

OpenFixed ==
    /\ Step = "fixed"
    /\ \/ Makes(dirs, IF root.at = "fixed" THEN root ELSE [Nothing EXCEPT !.at = "fixed"])
       \/ Fail

\* materializeGenericSource: a valid release of the commit is used as it is, or
\* the prepared source is cloned and its head compared. A release that is not
\* valid is an error.
Clone ==
    /\ Step = "clone"
    /\ \/ /\ release = "whole" /\ reused' = TRUE
          /\ root' = [Nothing EXCEPT !.at = "release", !.body = "whole"]
          /\ Advance(dirs)
          /\ UNCHANGED <<provider, home, release, todo, cursor, crashes>>
       \/ /\ release = "none"
          /\ Makes(dirs \cup {"candidate"}, [Nothing EXCEPT !.at = "candidate", !.body = "whole"])
       \/ Fail

\* What an error or a kill in the midst of an extraction leaves of the tree; the
\* installer of Quilt may have made its launcher.
Cut == IF Step = "extract" /\ root.body # "whole"
       THEN {root} \cup {[root EXCEPT !.body = b] :
                         b \in {"partial"} \cup IF provider = "quilt" THEN {"launcher"} ELSE {}}
       ELSE {root}

\* What the archive packs of the names is local then, unless something is there;
\* a link there is refused.
Packages == {packs \in SUBSET Names : \A n \in packs : root.local[n] # "link"}
Unpacked(packs) == [root EXCEPT !.body = "whole", !.packs = packs,
                                !.local = [n \in Names |-> IF n \in packs THEN "packaged"
                                                           ELSE @[n]]]

\* The extraction of the archive, or pip.
Extract ==
    /\ Step = "extract" /\ provider \notin {"java_installer", "quilt"}
    /\ \/ \E packs \in Packages : /\ packs # {} => Uses("link")
                                  /\ Makes(dirs, Unpacked(packs))
       \/ \E tree \in Cut : FailWith(tree)

\* The installer of Forge and NeoForge is run anew, the one of Quilt unless its
\* launcher is there. It may fail after it has made the launcher.
RunInstaller ==
    /\ Step = "extract" /\ provider \in {"java_installer", "quilt"}
    /\ IF provider = "quilt" /\ root.body \in {"launcher", "whole"}
       THEN Makes(dirs, root)
       ELSE Makes(dirs, [root EXCEPT !.body = "whole"]) \/ \E tree \in Cut : FailWith(tree)

\* The executable, the entry file or the launcher is where it has to be.
Check ==
    /\ Step = "check"
    /\ \/ root.body \in {"launcher", "whole"} /\ Makes(dirs, root)
       \/ Fail

\* The dependencies and the program are made in the source, unless its release
\* has them. The directory for what a .NET project publishes is made in any
\* case, and one that is new has no program in it.
Build ==
    /\ Step = "build"
    /\ \/ /\ IF reused THEN UNCHANGED release ELSE ChangeTree
          /\ Advance(dirs)
          /\ UNCHANGED <<provider, home, root, reused, todo, cursor, crashes>>
       \/ EntryChanges /\ reused /\ ChangeTree /\ Failed(root)
       \/ Fail

\* copyTreeMissing, of one file after the other; the archives are downloaded and
\* extracted into the stage.
Seed ==
    /\ Step = "seed"
    /\ \/ \E n \in Names : Looks(n)
       \/ /\ \E n \in Names : Writes(n, "default")
          /\ cursor' = NoName
          /\ UNCHANGED <<dirs, mode, pos>>
       \/ cursor = NoName /\ (\A n \in Names : home[n] # "none") /\ Makes(dirs, root)
       \/ Fail

\* Mutant: the stage itself becomes the candidate, which its removal takes away.
MoveNothing == Step = "move" /\ Makes(dirs, root)

\* moveIntoManagedCandidate.
Move ==
    /\ Step = "move"
    /\ \/ Makes(dirs \cup {"candidate"}, [root EXCEPT !.at = "candidate"])
       \/ Fail

\* Files that are generated when there is none: server.properties of Endstone at
\* once, application.yml of Lavalink in two steps.
Properties ==
    /\ Step = "properties"
    /\ \/ \E n \in Names \ Dirs : Looks(n)
       \/ \E n \in Names \ Dirs : Writes(n, "default") /\ cursor' = NoName /\ Advance(dirs)
       \/ cursor = NoName /\ (\E n \in Names \ Dirs : home[n] # "none") /\ Makes(dirs, root)
       \/ Fail

\* A provider that has no such file, or has it already, is done.
CreateConfig ==
    /\ Step = "create"
    /\ \/ \E n \in Names \ Dirs : Looks(n)
       \/ \E n \in Names \ Dirs : Writes(n, "torn") /\ cursor' = <<n, "fill">> /\ Advance(dirs)
       \/ /\ cursor = NoName /\ mode' = "made"
          /\ UNCHANGED <<provider, home, root, dirs, release, reused, pos, todo, cursor, crashes>>
       \/ Fail

\* If the user has saved the file since, it is a new one or the one that is
\* written to.
FillConfig ==
    /\ Step = "fill"
    /\ \/ /\ \E n \in Names : /\ cursor = <<n, "fill">>
                             /\ \/ home' = [home EXCEPT ![n] = "default"]
                                \/ home[n] = "user" /\ home' = home
          /\ Advance(dirs) /\ cursor' = NoName
          /\ UNCHANGED <<provider, root, release, reused, todo, crashes>>
       \/ Fail

\* copyFile: a temporary file is renamed.
CopyFile ==
    /\ Step = "copy"
    /\ \/ Makes(dirs, [Nothing EXCEPT !.at = "fixed", !.body = "whole"])
       \/ Fail

Linking(h, r, t, c) ==
    /\ home' = h /\ root' = r /\ todo' = t /\ cursor' = c
    /\ UNCHANGED <<provider, dirs, release, reused, mode, pos, crashes>>

\* Mutant: the packaged data is moved without a look at what the user has.
LinkShareAlways(n) == Linking(home, root, todo, <<n, "write">>)

\* linkMutableData looks for the data in the home directory.
LinkShare(n) == Linking(home, root, todo, <<n, IF home[n] = "none" THEN "write" ELSE "clear">>)

\* Data the home directory lacked is moved there, or an empty directory made. A
\* link of an earlier attempt is moved, too, and leads to itself then. A rename
\* replaces a file that has the name by now, and fails for a directory.
LinkMove(n) ==
    IF root.local[n] = "none"
    THEN Linking(IF n \in Dirs /\ home[n] = "none" THEN [home EXCEPT ![n] = "default"] ELSE home,
                 root, todo, <<n, "clear">>)
    ELSE /\ n \in Dirs => home[n] = "none"
         /\ Linking([home EXCEPT ![n] = IF root.local[n] = "packaged" THEN "default" ELSE "loop"],
                    [root EXCEPT !.local[n] = "none"], todo, <<n, "clear">>)

\* What is still local is removed, and replaced by a link into the home
\* directory.
LinkClear(n) == Linking(home, [root EXCEPT !.local[n] = "none"], todo, <<n, "make">>)
LinkMake(n) == Linking(home, [root EXCEPT !.local[n] = "link"], todo \ {n}, NoName)

LinkData ==
    /\ Step = "link"
    /\ \/ cursor = NoName /\ \E n \in todo : LinkShare(n)
       \/ cursor[2] = "write" /\ LinkMove(cursor[1])
       \/ cursor[2] = "clear" /\ LinkClear(cursor[1])
       \/ cursor[2] = "make" /\ LinkMake(cursor[1])
       \/ cursor = NoName /\ todo = {} /\ Makes(dirs, root)
       \/ Fail

\* activateStagedRelease validates a release that is reused, and takes another
\* tree into the store, beside nothing or an equal one; when it fails,
\* cleanupFailedGenericRelease removes a candidate or cloned source, and a fixed
\* tree is there or went with the stage of the store.
Activate ==
    /\ mode = "made"
    /\ \/ /\ release = "whole" \/ (release = "none" /\ ~reused)
          /\ mode' = "idle" /\ release' = "whole" /\ root' = Nothing
       \/ /\ mode' = "failed" /\ UNCHANGED release
          /\ root' \in {Nothing} \cup IF root.at = "fixed" THEN {root} ELSE {}
    /\ dirs' = {}
    /\ UNCHANGED <<provider, home, reused, pos, todo, cursor, crashes>>

Retry ==
    /\ mode = "failed"
    /\ mode' = "idle" /\ dirs' = {}
    /\ UNCHANGED <<provider, home, root, release, reused, pos, todo, cursor, crashes>>

Crash ==
    /\ mode \in {"work", "made"} /\ crashes < MaxCrashes
    /\ crashes' = crashes + 1
    /\ mode' = "idle" /\ dirs' = {} /\ cursor' = NoName
    /\ root' \in IF root.at = "fixed" THEN Cut ELSE {Nothing}
    /\ UNCHANGED <<provider, home, release, reused, pos, todo>>

Installer == \/ BeginAgain \/ BeginAnother \/ MakeDirectory \/ OpenFixed \/ Clone
             \/ Extract \/ RunInstaller \/ Check \/ Build \/ Seed \/ Move \/ Properties \/ CreateConfig \/ FillConfig \/ CopyFile
             \/ LinkData \/ Activate \/ Retry

Next == Installer \/ Crash \/ (\E n \in Names : UserWrites(n) \/ UserRemoves(n))

Spec == Init /\ [][Next]_vars

------------------------------------------------------------------------------

Trees == [at : {"none", "stage", "candidate", "fixed", "release"},
          body : {"none", "partial", "launcher", "whole"},
          packs : SUBSET Names, local : [Names -> {"none", "packaged", "link"}]]

TypeOK ==
    /\ provider \in StagedProviders
    /\ home \in [Names -> {"none", "default", "torn", "loop", "user"}]
    /\ root \in Trees
    /\ dirs \subseteq {"stage", "candidate"}
    /\ release \in {"none", "whole", "changed"} /\ reused \in BOOLEAN
    /\ mode \in {"idle", "work", "made", "failed"} /\ pos \in DOMAIN Recipe[provider]
    /\ root.at \in {"stage", "candidate"} /\ mode = "work" => root.at \in dirs
    /\ todo \subseteq Names
    /\ cursor \in {NoName} \cup Names \X {"write", "fill", "clear", "make"}
    /\ crashes \in 0 .. MaxCrashes

\* What an installer hands to the release store is complete and in a place that
\* is not removed, and its links lead to directories that are there and to all
\* the data the archive packed, in a repeated installation over the remains of
\* a killed one too; a release that is reused is as it was. The exceptions are
\* Quilt, which trusts a launcher it finds, and a link of an earlier attempt
\* whose data the user removed: it becomes the data, and leads to itself.
MadeIsComplete ==
    mode = "made" =>
        /\ root.at = "fixed" \/ root.at \in dirs \/ (reused /\ root.at = "release")
        /\ reused => release = "whole"
        /\ root.body = "whole" \/ (provider = "quilt" /\ root.body = "launcher")
        /\ Uses("link") => \A n \in Names : /\ root.local[n] = "link"
                                            /\ n \in Dirs \cup root.packs => home[n] # "none"

\* The installer has found nothing of the name and writes to it next. A
\* directory is put where there is none; but one that is seeded is written to
\* file by file.
Unseen(n) ==
    /\ cursor \in {<<n, "write">>, <<n, "fill">>}
    /\ n \in Dirs => Step = "seed"

\* No file or directory of the user is replaced by what an archive packs or an
\* installer generates, but for a file that the user saves between the look and
\* the write; and there is no write without a look that found nothing.
UserDataSurvives ==
    [][\A n \in Names :
        /\ home[n] = "user" /\ mode # "idle" /\ ~Unseen(n) => home'[n] = "user"
        /\ Unseen(n)' /\ ~Unseen(n) => home[n] = "none"]_vars

\* A release survives every attempt that reuses or repeats it, whichever of its
\* steps fails or is cut short: nothing is built or made in it and no clean-up
\* takes it for a source of its own. It is lost from sight only when another
\* artifact is attempted.
ReleaseSurvives == [][release = "whole" => release' = "whole" \/ BeginAnother]_vars

==============================================================================
