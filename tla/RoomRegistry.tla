---------------------------- MODULE RoomRegistry ----------------------------
(***************************************************************************)
(* What a relay cluster promises about room membership, whatever the       *)
(* number of relays, of connections and of messages behind it: a room is a *)
(* set of seats.  A join request waits, is seated under a peer id nobody   *)
(* else in the room holds, and gives its seat up once.  The room's limit   *)
(* is the one its first occupant asked for, stays as long as anybody is    *)
(* seated, and is forgotten with the last of them.                         *)
(***************************************************************************)
EXTENDS Naturals, FiniteSets

CONSTANTS
  Rooms,       \* room ids
  Peers,       \* peer ids
  Joins,       \* join requests
  Limits,      \* the limits a first occupant may ask for, 0 for none
  Waiting,     \* the seat of a request that has not been admitted
  Gone         \* the seat of a request that has given its seat up

VARIABLES
  seat,        \* the <<room, peer>> a join request holds, or Waiting, or Gone
  limit        \* the limit in force in a room, 0 when there is none

registryVars == <<seat, limit>>

Seated(room) == {j \in Joins : \E p \in Peers : seat[j] = <<room, p>>}

RegistryInit ==
  /\ seat = [j \in Joins |-> Waiting]
  /\ limit = [r \in Rooms |-> 0]

(* A waiting request is seated: the peer id is free, and the room has space. *)
Admit(j, room, peer) ==
  /\ seat[j] = Waiting
  /\ \A k \in Joins : seat[k] # <<room, peer>>
  /\ seat' = [seat EXCEPT ![j] = <<room, peer>>]
  /\ IF Seated(room) = {}
       THEN \E asked \in Limits : limit' = [limit EXCEPT ![room] = asked]
       ELSE /\ limit[room] = 0 \/ Cardinality(Seated(room)) < limit[room]
            /\ UNCHANGED limit

(* A seated request gives up its own seat and nobody else's. *)
Vacate(j, room, peer) ==
  /\ seat[j] = <<room, peer>>
  /\ seat' = [seat EXCEPT ![j] = Gone]
  /\ limit' = IF Seated(room) = {j} THEN [limit EXCEPT ![room] = 0] ELSE limit

RegistryNext ==
  \E j \in Joins, room \in Rooms, peer \in Peers :
    Admit(j, room, peer) \/ Vacate(j, room, peer)

RegistrySpec == RegistryInit /\ [][RegistryNext]_registryVars
=============================================================================
