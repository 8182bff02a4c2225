--------------------------- MODULE MCRelayCluster ---------------------------
(* Instances of RelayCluster and its refinement for TLC. *)
EXTENDS RelayClusterRefinement, TLC

CONSTANTS i1, i2, s3, j1, j2, j3, p1, p2, r1, r2

(* Socket s3 is on the second instance, the others on the first. *)
TwoInstances == [s \in Sockets |-> IF s = s3 THEN i2 ELSE i1]

(* Join requests, peer ids and rooms are interchangeable. *)
JoinsPeersAndRooms ==
  Permutations({j1, j2, j3}) \cup Permutations({p1, p2}) \cup Permutations({r1, r2})
=============================================================================
