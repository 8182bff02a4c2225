--------------------------- MODULE MCRelayPolling ---------------------------
(* Instances of RelayPolling for TLC. *)
EXTENDS RelayPolling, TLC

CONSTANTS a1, a2, b1, p1, p2

\* One peer may come back with a second adapter, the other observes.
OwnerOfEach == a1 :> p1 @@ a2 :> p1 @@ b1 :> p2

Comers == Permutations({a1, a2})
=============================================================================
