---------------------------- MODULE MCEventOutbox ----------------------------
(* EventOutbox for TLC: one dispatcher and one reconciliation loop. *)
EXTENDS EventOutbox

CONSTANTS dispatcher, reconciler

MCPass == {dispatcher, reconciler}
MCReconciler == {reconciler}
=============================================================================
