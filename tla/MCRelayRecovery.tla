-------------------------- MODULE MCRelayRecovery --------------------------
(* An instance of RelayRecovery for TLC. *)
EXTENDS RelayRecovery

CONSTANTS i1, i2, p1, p2

Symmetric == Permutations(Peers) \cup Permutations(Instances)
=============================================================================
