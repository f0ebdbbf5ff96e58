----------------------------- MODULE MCExtraction -----------------------------
(***************************************************************************)
(* Extraction with a directory, a file in it and a configuration file.     *)
(***************************************************************************)
EXTENDS Extraction

CONSTANTS d, f, c

MCPaths == {d, f, c}
MCAbove == [p \in MCPaths |-> IF p = f THEN {d} ELSE {}]
MCConfigs == {c}
MCSizes == {0, 2, 3}

==============================================================================
