------------------------------ MODULE LiveInstall ------------------------------
(***************************************************************************)
(* The installers that work on what the server runs from: SteamCMD games   *)
(* with and without an overlay (services.go), applications from the home   *)
(* directory (provider.go, generic_apps.go) and static web sites.          *)
(*                                                                         *)
(* What the whole operation does about an installation that failed or was  *)
(* killed is Lifecycle's.                                                  *)
(***************************************************************************)
EXTENDS Recipes

VARIABLES
    entry,      \* the entry file, and the second file of a .NET starter
    made,       \* whether this attempt created the entry file
    publish,    \* managed/dotnet-app/publish and publish.previous
    previous,
    venv,       \* of Python; partial has an interpreter, and no pip
    modules,    \* the dependencies of Node.js and Bun
    binary,     \* the compiled Go application
    game,       \* a file of the game that overlays replace, one they add, and a plugin
    pack,       \* the files of the overlay that is applied
    marker,     \* the files .pcvm-overlay.json names
    published   \* whether a .NET application has ever been published

app == <<entry, made>>
dotnet == <<publish, previous, published>>
built == <<venv, modules, binary>>
steam == <<game, pack, marker>>
liveVars == <<provider, entry, made, publish, previous, venv, modules, binary, game, pack, marker,
              published, mode, pos, crashes>>

GameFiles == {"replaced", "added", "plugin"}

LiveInit ==
    /\ provider \in LiveProviders
    /\ entry \in [{"main", "second"} -> {"none", "user"}] /\ made = FALSE
    /\ publish = "none" /\ previous = "none" /\ published = FALSE
    /\ venv = "none" /\ modules = "none" /\ binary = "none"
    /\ game = [x \in GameFiles |-> "none"] /\ pack = {} /\ marker = {}
    /\ mode = "idle" /\ pos = 1 /\ crashes = 0

------------------------------------------------------------------------------

UserUploads ==
    /\ mode = "idle"
    /\ \/ \E x \in {"main", "second"} : entry' = [entry EXCEPT ![x] = "user"] /\ UNCHANGED game
       \/ game' = [game EXCEPT !["plugin"] = "user"] /\ UNCHANGED entry
    /\ UNCHANGED <<provider, made, dotnet, built, pack, marker, mode, pos, crashes>>

\* Only Rust and Valheim change between a provider with and one without an
\* overlay over the same game. What was new is old now.
BeginLive ==
    /\ mode = "idle"
    /\ mode' = "work" /\ pos' = 1 /\ made' = FALSE /\ pack' = {}
    /\ provider' \in IF provider \in {"steam", "overlay"} THEN {"steam", "overlay"} ELSE {provider}
    /\ publish' = IF publish = "new" THEN "old" ELSE publish
    /\ previous' = IF previous = "new" THEN "old" ELSE previous
    /\ binary' = IF binary = "new" THEN "old" ELSE binary
    /\ UNCHANGED <<entry, published, venv, modules, game, marker, crashes>>

Proceed ==
    IF pos = Len(Recipe[provider]) THEN mode' = "done" /\ UNCHANGED pos
    ELSE pos' = pos + 1 /\ UNCHANGED mode

GiveUp == mode' = "failed" /\ UNCHANGED pos

\* The entry file the request names, or a starter in its place.
Create ==
    /\ Step = "create"
    /\ \/ /\ entry["main"] = "none" /\ Proceed
          /\ made' = TRUE /\ entry' = [entry EXCEPT !["main"] = "torn"]
       \/ entry["main"] # "none" /\ Proceed /\ UNCHANGED app
       \/ GiveUp /\ UNCHANGED app
    /\ UNCHANGED <<provider, dotnet, built, steam, crashes>>

\* A starter that cannot be written is removed, except for a web site's.
Fill ==
    /\ Step = "fill"
    /\ \/ Proceed /\ entry' = [entry EXCEPT !["main"] = IF made THEN "starter" ELSE @]
       \/ /\ made /\ GiveUp
          /\ entry' = IF provider = "web" THEN entry ELSE [entry EXCEPT !["main"] = "none"]
    /\ UNCHANGED <<provider, made, dotnet, built, steam, crashes>>

\* Program.cs of a .NET starter, which must not be there.
Second ==
    /\ Step = "second"
    /\ \/ ~made /\ Proceed /\ UNCHANGED entry
       \/ /\ made /\ entry["second"] = "none"
          /\ Proceed /\ entry' = [entry EXCEPT !["second"] = "starter"]
       \/ made /\ GiveUp /\ entry' = [entry EXCEPT !["main"] = "none"]
    /\ UNCHANGED <<provider, made, dotnet, built, steam, crashes>>

\* npm and bun install into the home directory.
Modules ==
    /\ Step = "modules"
    /\ \/ Proceed /\ modules' \in {modules, "whole"}
       \/ GiveUp /\ modules' = "partial"
    /\ UNCHANGED <<provider, app, dotnet, venv, binary, steam, crashes>>

\* The environment is made unless its interpreter is there.
Venv ==
    /\ Step = "venv"
    /\ \/ venv = "none" /\ Proceed /\ venv' = "whole"
       \/ venv = "none" /\ GiveUp /\ venv' \in {"none", "partial"}
       \/ venv # "none" /\ Proceed /\ UNCHANGED venv
    /\ UNCHANGED <<provider, app, dotnet, modules, binary, steam, crashes>>

\* With requirements, the environment has to have pip.
Pip ==
    /\ Step = "pip"
    /\ Proceed \/ GiveUp
    /\ UNCHANGED <<provider, app, dotnet, built, steam, crashes>>

Compile ==
    /\ Step = "compile"
    /\ \/ Proceed /\ binary' = "new"
       \/ GiveUp /\ UNCHANGED binary
    /\ UNCHANGED <<provider, app, dotnet, venv, modules, steam, crashes>>

Publishes(p, q) ==
    /\ publish' = p /\ previous' = q /\ published' = (published \/ p = "new")
    /\ UNCHANGED <<provider, app, built, steam, crashes>>

\* Mutant: what is left of an activation is removed, whichever it is.
RecoverByRemoval ==
    /\ Step = "recover"
    /\ Proceed /\ Publishes(publish, "none")

\* recoverDotnetPublishActivation.
Recover ==
    /\ Step = "recover"
    /\ \/ previous = "none" /\ Proceed /\ Publishes(publish, previous)
       \/ previous # "none" /\ publish # "none" /\ Proceed /\ Publishes(publish, "none")
       \/ previous # "none" /\ publish # "none" /\ GiveUp /\ Publishes(publish, "torn")
       \/ previous # "none" /\ publish = "none" /\ Proceed /\ Publishes(previous, "none")
       \/ GiveUp /\ Publishes(publish, previous)

\* dotnet publish into a directory of its own, removed when anything fails.
Candidate ==
    /\ Step = "candidate"
    /\ Proceed \/ GiveUp
    /\ Publishes(publish, previous)

\* activateDotnetPublishCandidate: the renames, and the removal after them.
Preserve ==
    /\ Step = "preserve"
    /\ \/ Proceed /\ IF publish # "none" THEN Publishes("none", publish)
                     ELSE Publishes(publish, previous)
       \/ GiveUp /\ Publishes(publish, previous)

Swap ==
    /\ Step = "swap"
    /\ \/ Proceed /\ Publishes("new", previous)
       \/ GiveUp /\ (Publishes(previous, "none") \/ Publishes("none", previous))

Discard ==
    /\ Step = "discard"
    /\ \/ Proceed /\ Publishes(publish, "none")
       \/ previous # "none" /\ GiveUp /\ Publishes(publish, "torn")

------------------------------------------------------------------------------

\* Mutant: the user's plugins are taken for the overlay's.
DeactivateAll ==
    /\ Step = "deactivate"
    /\ \/ /\ \E x \in marker : game[x] # "none" /\ game' = [game EXCEPT ![x] = "none"]
          /\ UNCHANGED <<pack, marker, mode, pos>>
       \/ Proceed /\ marker' = {} /\ UNCHANGED <<game, pack>>
    /\ UNCHANGED <<provider, app, dotnet, built, crashes>>

\* deactivateOverlay, one file after the other; errors of a removal are ignored.
Deactivate ==
    /\ Step = "deactivate"
    /\ \/ /\ \E x \in marker \ {"plugin"} : game[x] # "none" /\ game' = [game EXCEPT ![x] = "none"]
          /\ UNCHANGED <<pack, marker, mode, pos>>
       \/ Proceed /\ marker' = {} /\ UNCHANGED <<game, pack>>
       \/ GiveUp /\ UNCHANGED steam
    /\ UNCHANGED <<provider, app, dotnet, built, crashes>>

\* SteamCMD restores the files of the game, and knows no others.
Validate ==
    /\ Step = "validate"
    /\ \/ Proceed /\ game' = [game EXCEPT !["replaced"] = "game"]
       \/ GiveUp /\ game' \in {game, [game EXCEPT !["replaced"] = "none"]}
    /\ UNCHANGED <<provider, app, dotnet, built, pack, marker, crashes>>

BuildID ==
    /\ Step = "buildid"
    /\ Proceed \/ GiveUp
    /\ UNCHANGED <<provider, app, dotnet, built, steam, crashes>>

\* applyOverlay: the latest overlay, that may have other files than the last;
\* its files, and the marker that names them.
Download ==
    /\ Step = "download"
    /\ \/ Proceed /\ pack' \in SUBSET GameFiles
       \/ GiveUp /\ UNCHANGED pack
    /\ UNCHANGED <<provider, app, dotnet, built, game, marker, crashes>>

ExtractOverlay ==
    /\ Step = "extract"
    /\ \/ /\ \E x \in pack : game[x] # "overlay" /\ game' = [game EXCEPT ![x] = "overlay"]
          /\ UNCHANGED <<mode, pos>>
       \/ (\A x \in pack : game[x] = "overlay") /\ Proceed /\ UNCHANGED game
       \/ GiveUp /\ UNCHANGED game
    /\ UNCHANGED <<provider, app, dotnet, built, pack, marker, crashes>>

Marker ==
    /\ Step = "marker"
    /\ \/ Proceed /\ marker' = pack
       \/ GiveUp /\ UNCHANGED marker
    /\ UNCHANGED <<provider, app, dotnet, built, game, pack, crashes>>

------------------------------------------------------------------------------

RetryLive ==
    /\ mode \in {"done", "failed"} /\ mode' = "idle"
    /\ UNCHANGED <<provider, app, dotnet, built, steam, pos, crashes>>

\* A kill, also in the midst of a command that a step runs.
Kill ==
    /\ mode = "work" /\ crashes < MaxCrashes
    /\ crashes' = crashes + 1 /\ mode' = "idle"
    /\ venv' \in {venv} \cup IF Step = "venv" /\ venv = "none" THEN {"partial"} ELSE {}
    /\ modules' \in {modules} \cup IF Step = "modules" THEN {"partial"} ELSE {}
    /\ previous' \in {previous} \cup
                     IF Step \in {"recover", "discard"} /\ previous # "none" /\ publish # "none"
                     THEN {"torn"} ELSE {}
    /\ UNCHANGED <<provider, app, publish, published, binary, steam, pos>>

LiveInstaller ==
    \/ BeginLive \/ Create \/ Fill \/ Second \/ Modules \/ Venv \/ Pip \/ Compile
    \/ Recover \/ Candidate \/ Preserve \/ Swap \/ Discard
    \/ Deactivate \/ Validate \/ BuildID \/ Download \/ ExtractOverlay \/ Marker \/ RetryLive

LiveNext == LiveInstaller \/ Kill \/ UserUploads

LiveSpec == LiveInit /\ [][LiveNext]_liveVars

------------------------------------------------------------------------------

LiveTypeOK ==
    /\ provider \in LiveProviders
    /\ entry \in [{"main", "second"} -> {"none", "torn", "starter", "user"}]
    /\ publish \in {"none", "old", "new"} /\ previous \in {"none", "torn", "old"}
    /\ venv \in {"none", "partial", "whole"} /\ modules \in {"none", "partial", "whole"}
    /\ binary \in {"none", "old", "new"}
    /\ game \in [GameFiles -> {"none", "game", "overlay", "user"}]
    /\ game["replaced"] \in {"none", "game", "overlay"} /\ game["added"] \in {"none", "overlay"}
    /\ game["plugin"] \in {"none", "overlay", "user"}
    /\ pack \subseteq GameFiles /\ marker \subseteq GameFiles
    /\ made \in BOOLEAN /\ published \in BOOLEAN
    /\ mode \in {"idle", "work", "done", "failed"} /\ pos \in DOMAIN Recipe[provider]
    /\ crashes \in 0 .. MaxCrashes

\* A .NET application that was published is never lost: it, or the one that
\* replaces it, is at one of the two places, whatever fails or is killed, and it
\* is back in its place before the next one is built.
PublishIsNeverLost ==
    published => /\ publish # "none" \/ previous = "old"
                 /\ Step = "candidate" => publish # "none"

\* A game is whole when its installation succeeds: with its own files after a
\* change to the provider without an overlay, and with all of the overlay's
\* files otherwise, updates of either and killed attempts included.
GameIsWhole ==
    mode = "done" =>
        /\ provider = "steam" => game["replaced"] = "game"
        /\ provider = "overlay" => \A x \in GameFiles : x \in marker => game[x] = "overlay"
        /\ provider = "overlay" => game["replaced"] \in {"game", "overlay"}

\* No starter replaces a file of the user, and the change to a game without
\* overlay preserves the plugins the user put in the overlay's directories.
UserFilesSurvive ==
    [][/\ \A x \in {"main", "second"} : entry[x] = "user" => entry'[x] = "user"
       /\ provider' = "steam" /\ game["plugin"] = "user" => game'["plugin"] = "user"]_liveVars

==============================================================================
