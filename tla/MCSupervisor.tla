---------------------------- MODULE MCSupervisor -----------------------------
(***************************************************************************)
(* Supervisor in every control mode, with a pipe that holds one command,   *)
(* so that a second line of the console blocks.                            *)
(***************************************************************************)
EXTENDS Supervisor

MCModes == {"stdin", "network", "signal", "qmp"}

==============================================================================
