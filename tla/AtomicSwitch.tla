---------------------------- MODULE AtomicSwitch -----------------------------
(***************************************************************************)
(* What the installation machinery of PCVM promises, with all of its       *)
(* mechanism hidden: a server root holds one installation, the old one or  *)
(* the new one; a reset or an update replaces the first by the second in a *)
(* single step, never while a server runs and never back; and a server     *)
(* that runs finds exactly the installation that is installed.             *)
(***************************************************************************)

VARIABLES
    installed,   \* the installation the server root holds
    serving      \* the installation a running server finds, or "none"

vars == <<installed, serving>>

Init == installed = "old" /\ serving = "none"

\* A launcher starts the server on what is installed.
Serve == /\ serving = "none"
         /\ serving' = installed
         /\ UNCHANGED installed

Stop == /\ serving # "none"
        /\ serving' = "none"
        /\ UNCHANGED installed

\* The commit of a reset or of an update.
Switch == /\ serving = "none"
          /\ installed = "old"
          /\ installed' = "new"
          /\ UNCHANGED serving

Next == Serve \/ Stop \/ Switch

Spec == Init /\ [][Next]_vars

==============================================================================
