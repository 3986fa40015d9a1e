------------------------------- MODULE MCStub -------------------------------
(* An instance of MetricsStub for TLC: the clients are alike. *)
EXTENDS MetricsStub, TLC

CONSTANTS c1, c2, c3

ThreeClients == {c1, c2, c3}
SameClients == Permutations(ThreeClients)

=============================================================================
