----------------------------- MODULE MCPlaybook -----------------------------
(* Instances of Playbook for TLC: the two nodes of the inventory. *)
EXTENDS Playbook, TLC

CONSTANTS node1, node2

=============================================================================
