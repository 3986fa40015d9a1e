----------------------------- MODULE MCHistory -----------------------------
(* Instances of OutageHistory for TLC. *)
EXTENDS OutageHistory, MCReconciler

=============================================================================
