----------------------------- MODULE RelayRedis -----------------------------
(***************************************************************************)
(* What Redis keeps for one room of a relay cluster, and the two Lua       *)
(* scripts of relay-redis-store.ts that change it.  A script is atomic: no *)
(* other command runs between its reads and its writes.                    *)
(*                                                                         *)
(* A room is the hash at roomPeersKey (a peer's field holds the instance   *)
(* that admitted it, or is absent) and the string at roomCapacityKey.      *)
(***************************************************************************)
EXTENDS Naturals, FiniteSets

CONSTANTS
  Peers,       \* peer ids
  Instances,   \* relay processes, each with its own instanceId
  NoInstance   \* an absent field of the hash

ASSUME PeersFinite == IsFiniteSet(Peers)
ASSUME NoInstanceIsNone == NoInstance \notin Instances

(* An absent capacity key, and a join without maxPeers.  A real capacity is
   at least 1: the protocol drops any other value before the script runs.  *)
NoCapacity == 0

RedisRoom == [peers : [Peers -> Instances \cup {NoInstance}], capacity : Nat]

EmptyRoom == [peers |-> [p \in Peers |-> NoInstance], capacity |-> NoCapacity]

(* HGETALL: the peers that have a field in the hash. *)
Members(room) == {p \in Peers : room.peers[p] # NoInstance}

(* The capacity the join script compares with: an empty room without one
   takes the first joiner's.                                               *)
CapacityFor(room, maxPeers) ==
  IF Members(room) = {} /\ room.capacity = NoCapacity
    THEN maxPeers
    ELSE room.capacity

(* A slip to detect: an off-by-one in the capacity check. *)
JoinVerdictOneTooMany(room, peer, maxPeers) ==
  LET capacity == CapacityFor(room, maxPeers)
  IN  IF room.peers[peer] # NoInstance THEN "PEER_EXISTS"
      ELSE IF capacity # NoCapacity /\ Cardinality(Members(room)) > capacity
             THEN "ROOM_FULL"
             ELSE "joined"

(* JOIN_ROOM_SCRIPT: the code it answers with... *)
JoinVerdict(room, peer, maxPeers) ==
  LET capacity == CapacityFor(room, maxPeers)
  IN  IF room.peers[peer] # NoInstance THEN "PEER_EXISTS"
      ELSE IF capacity # NoCapacity /\ Cardinality(Members(room)) >= capacity
             THEN "ROOM_FULL"
             ELSE "joined"

(* ...and the room it leaves behind. *)
JoinRoom(room, peer, instance, maxPeers) ==
  CASE JoinVerdict(room, peer, maxPeers) = "PEER_EXISTS" -> room
    [] JoinVerdict(room, peer, maxPeers) = "ROOM_FULL" ->
         [room EXCEPT !.capacity = CapacityFor(room, maxPeers)]
    [] JoinVerdict(room, peer, maxPeers) = "joined" ->
         [peers    |-> [room.peers EXCEPT ![peer] = instance],
          capacity |-> CapacityFor(room, maxPeers)]

(* Slips to detect: DEL of the whole hash, DEL of the capacity key instead of
   the last field, and no DEL of the capacity key.                         *)
LeaveRoomForAll(room, peer) == EmptyRoom

LeaveRoomButLast(room, peer) ==
  IF Members(room) = {peer}
    THEN [room EXCEPT !.capacity = NoCapacity]
    ELSE [room EXCEPT !.peers[peer] = NoInstance]

(* LEAVE_ROOM_SCRIPT: drop the field whoever wrote it, and drop the capacity
   with the last field.                                                    *)
LeaveRoom(room, peer) ==
  LET remaining == [room.peers EXCEPT ![peer] = NoInstance]
      isLast    == \A p \in Peers : remaining[p] = NoInstance
  IN  [peers    |-> remaining,
       capacity |-> IF isLast THEN NoCapacity ELSE room.capacity]
=============================================================================
