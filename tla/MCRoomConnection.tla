-------------------------- MODULE MCRoomConnection --------------------------
(* Instances of RoomConnection for TLC. *)
EXTENDS RoomConnection, TLC

CONSTANTS a1, a2, a3, d1, d2

\* Adapters and disconnect calls are interchangeable.
Symmetry == Permutations(Adapters) \cup Permutations(Calls)
=============================================================================
