---------------------------- MODULE MCLifecycle ------------------------------
(***************************************************************************)
(* Lifecycle with three installations, each an update of the ones before   *)
(* it: going back is a downgrade, which needs a reset. A provider is staged,*)
(* or in-place, with and without the failures the taint does not guard.    *)
(***************************************************************************)
EXTENDS Lifecycle

MCInstalls == {1, 2, 3}
MCResetPairs == {<<2, 1>>, <<3, 1>>, <<3, 2>>}
MCModes == {[staged |-> TRUE, sealFails |-> TRUE, resetFails |-> TRUE],
            [staged |-> FALSE, sealFails |-> FALSE, resetFails |-> FALSE],
            [staged |-> FALSE, sealFails |-> TRUE, resetFails |-> TRUE]}

==============================================================================
