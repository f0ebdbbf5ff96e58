----------------------------- MODULE MCInstallers -----------------------------
(***************************************************************************)
(* Installers with a directory of data and a configuration file.           *)
(***************************************************************************)
EXTENDS Installers

CONSTANTS world, config

MCNames == {world, config}
MCDirs == {world}

==============================================================================
