------------------------------- MODULE Recipes --------------------------------
(***************************************************************************)
(* What the models of the installers have in common. An installer is a     *)
(* recipe, a sequence of steps, and an attempt takes one after the other.  *)
(* The recipes are those of services.go, provider.go, registry.go,         *)
(* providers_v2.go and generic_apps.go: Installers has the steps of the    *)
(* staged ones and LiveInstall those that work on what the server runs     *)
(* from.                                                                   *)
(***************************************************************************)
EXTENDS Naturals, Sequences

CONSTANT MaxCrashes   \* bound on the crashes of a behaviour

ASSUME CrashesAreCounted == MaxCrashes \in Nat

VARIABLES
    provider,
    mode,       \* "idle", "work", "made" (staged) or "done" (live), or "failed"
    pos,        \* the step of the recipe
    crashes

\* The recipes of the staged providers, one for each installer.
OpenMP     == <<"stage", "extract", "check", "move", "link">>
MTA        == <<"stage", "extract", "check", "seed", "move", "link">>
CodeServer == <<"stage", "extract", "check", "move">>
Terraria   == <<"stage", "extract", "check", "move", "check">>
Factorio   == <<"candidate", "extract", "check">>
TModLoader == <<"candidate", "extract", "check">>
TShock     == <<"stage", "candidate", "extract", "check", "link">>
Endstone   == <<"candidate", "extract", "check", "properties">>
BedrockZip == <<"fixed", "extract", "link">>
JavaLoader == <<"fixed", "extract", "link">>
Quilt      == <<"fixed", "extract", "check", "link">>
PHAR       == <<"copy">>
Jar        == <<"copy", "create", "fill">>
GitSource  == <<"clone", "check", "build">>

\* The recipes of the others.
Node   == <<"create", "fill", "modules">>
Bun    == <<"create", "fill", "modules">>
Deno   == <<"create", "fill">>
Web    == <<"create", "fill">>
Python == <<"create", "fill", "venv", "pip">>
Go     == <<"create", "fill", "compile">>
Dotnet == <<"create", "fill", "second", "recover", "candidate", "recover", "preserve", "swap",
            "discard">>
\* Mutant: the files of the overlay are removed after the game is restored.
DeactivateLate == <<"validate", "buildid", "deactivate">>
Steam  == <<"deactivate", "validate", "buildid">>
SteamOverlay == <<"validate", "buildid", "download", "extract", "marker">>

Recipe == [openmp |-> OpenMP, mtasa |-> MTA, code_server |-> CodeServer, terraria |-> Terraria,
           factorio |-> Factorio, tmodloader |-> TModLoader, tshock |-> TShock,
           endstone |-> Endstone, zip |-> BedrockZip, java_installer |-> JavaLoader,
           quilt |-> Quilt, phar |-> PHAR, jar |-> Jar, source |-> GitSource,
           node |-> Node, bun |-> Bun, deno |-> Deno, web |-> Web, python |-> Python, go |-> Go,
           dotnet |-> Dotnet, steam |-> Steam, overlay |-> SteamOverlay]

LiveProviders == {"node", "bun", "deno", "web", "python", "go", "dotnet", "steam", "overlay"}
StagedProviders == DOMAIN Recipe \ LiveProviders

Uses(s) == \E i \in DOMAIN Recipe[provider] : Recipe[provider][i] = s

Step == IF mode = "work" THEN Recipe[provider][pos] ELSE "none"

==============================================================================
