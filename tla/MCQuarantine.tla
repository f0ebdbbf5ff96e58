---------------------------- MODULE MCQuarantine -----------------------------
(***************************************************************************)
(* Quarantine on a server root with two entries, one of them only in the   *)
(* candidate, and a control directory with the cache, state.json and an    *)
(* entry that sorts after state.json (transactions).                       *)
(***************************************************************************)
EXTENDS Quarantine

MCRootEntries == {1, 2}
MCControlEntries == {3, 4, 5}
MCKeptEntries == {3}
MCOldEntries == {1, 3, 4, 5}

==============================================================================
