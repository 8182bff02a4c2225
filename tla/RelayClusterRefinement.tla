----------------------- MODULE RelayClusterRefinement -----------------------
(***************************************************************************)
(* The relay cluster implements RoomRegistry: handlers, queues and two     *)
(* registries per instance together behave like one table of seats.        *)
(***************************************************************************)
EXTENDS RelayCluster

CONSTANTS Waiting, Gone

ASSUME NobodysSeat == {Waiting, Gone} \cap (Rooms \X Peers) = {}

(* A join is seated while its Redis entry is its own. *)
SeatOf(j) ==
  IF Holds(j) THEN <<request[j].room, request[j].peer>>
  ELSE IF leavePc[j] # "none" THEN Gone
  ELSE Waiting

Registry == INSTANCE RoomRegistry WITH
  Limits <- Capacities,
  seat   <- [j \in Joins |-> SeatOf(j)],
  limit  <- [r \in Rooms |-> redis[r].capacity]

(* A seat is taken only when its peer id is free and the room has space, is
   given up once and only by the join that took it, and the limit in force
   is the first occupant's: no overlap of handlers, double close or late
   script shows through.                                                   *)
ImplementsRegistry == Registry!RegistrySpec

(* Requests are finitely many, so that in time every handler has ended, and
   every join been answered: none awaits for ever a reply that is lost, or
   that another handler consumed.                                          *)
HandlersEnd ==
  <>[](AtRest /\ \A j \in Joins : joinPc[j] = "done" => answer[j] # "none")
=============================================================================
