-------------------- MODULE RelayClusterRefinement_proofs --------------------
(***************************************************************************)
(* Proof that the relay cluster implements RoomRegistry, for every set of  *)
(* instances, rooms, peers, sockets and join requests.                     *)
(*                                                                         *)
(* A join is seated while it holds its Redis entry.  Under ExactnessInv    *)
(* the entries of a room and the joins that hold them correspond one to    *)
(* one, so the script that admits a peer into a free entry of a room with  *)
(* space admits a request into a free seat of a room with space; the       *)
(* script that clears an entry vacates the seat of the one join that held  *)
(* it; and every other step of every handler leaves all seats as they are. *)
(***************************************************************************)
EXTENDS RelayClusterRefinement, RelayCluster_proofs, FunctionTheorems

RefinementInv == ExactnessInv /\ CapacityInv

seats == [j \in Joins |-> SeatOf(j)]
limits == [r \in Rooms |-> redis[r].capacity]
Seated(room) == {j \in Joins : \E p \in Peers : seats[j] = <<room, p>>}

(* The joins that hold an entry of a room. *)
HoldersIn(room) == {j \in Joins : Holds(j) /\ request[j].room = room}

(* A request has a seat exactly when it holds the entry the seat names. *)
LEMMA SeatIsHeld ==
  ASSUME HandlerInv, NEW j \in Joins, NEW r \in Rooms, NEW p \in Peers
  PROVE  seats[j] = <<r, p>> <=> Holds(j) /\ Asks(j, r, p)
<1>1. <<r, p>> # Waiting /\ <<r, p>> # Gone
  BY NobodysSeat
<1> QED BY <1>1 DEF seats, SeatOf, Asks

(* The seated of a room are its holders. *)
LEMMA SeatedAreHolders ==
  ASSUME HandlerInv, NEW r \in Rooms
  PROVE  Seated(r) = HoldersIn(r)
<1>1. ASSUME NEW j \in Joins
      PROVE  (\E p \in Peers : seats[j] = <<r, p>>) <=> Holds(j) /\ request[j].room = r
  <2>1. Holds(j) => request[j].peer \in Peers
    BY HolderRequest
  <2> QED BY <2>1, SeatIsHeld DEF Asks
<1> QED BY <1>1 DEF Seated, HoldersIn

(* They are as many as the room has members in Redis. *)
LEMMA SeatsAreEntries ==
  ASSUME RefinementInv, NEW r \in Rooms
  PROVE  /\ HoldersIn(r) = {} <=> Members(redis[r]) = {}
         /\ Cardinality(HoldersIn(r)) = Cardinality(Members(redis[r]))
<1> USE DEF RefinementInv, ExactnessInv, RegistrationInv
<1> DEFINE S == HoldersIn(r)
           T == Members(redis[r])
           f == [j \in S |-> request[j].peer]
<1>1. ASSUME NEW j \in S PROVE f[j] \in T
  <2>1. Holds(j) /\ request[j].room = r /\ request[j].peer \in Peers /\ InstanceOf(j) \in Instances
    BY HolderRequest DEF HoldersIn
  <2>2. redis[r].peers[request[j].peer] = InstanceOf(j)
    BY <2>1 DEF HoldersOwn, HoldersIn
  <2> QED BY <2>1, <2>2, NoInstanceIsNone DEF Members
<1>2. ASSUME NEW j \in S, NEW k \in S, f[j] = f[k] PROVE j = k
  BY <1>2 DEF HoldersIn, HoldersDiffer
<1>3. ASSUME NEW p \in T PROVE \E j \in S : f[j] = p
  BY DEF Members, EntriesAreHeld, HoldersIn, Asks
<1>4. f \in Bijection(S, T)
  <2>1. f \in [S -> T]
    BY <1>1
  <2> HIDE DEF f, S, T
  <2> QED BY <1>2, <1>3, <2>1, Fun_IsBij
<1>5. Cardinality(S) = Cardinality(T)
  <2> HIDE DEF f, S
  <2>1. IsFiniteSet(T)
    BY MembersFinite
  <2> HIDE DEF T
  <2>2. IsFiniteSet(S)
    BY <1>4, <2>1, FS_Injection, Fun_BijectionProperties
  <2> QED BY <1>4, <2>2, FS_Bijection DEF ExistsBijection
<1> QED BY <1>1, <1>3, <1>5

(* Only its two scripts move a join from one seat to another. *)
LEMMA SeatKept ==
  ASSUME RegistrationInv, [Next]_vars, NEW k \in Joins, ~RedisJoin(k), ~RedisLeave(k)
  PROVE  SeatOf(k)' = SeatOf(k)
<1> USE DEF RegistrationInv, HandlerInv
<1>1. CASE Holds(k)
  BY <1>1, HoldersKept DEF SeatOf
<1>2. CASE ~Holds(k)
  <2>1. ~Holds(k)' /\ (leavePc'[k] = "none" <=> leavePc[k] = "none")
    <3>1. CASE \E j \in Joins, q \in Requests : RefuseSecondJoin(j, q) \/ ReceiveJoin(j, q)
      BY <1>2, <3>1 DEF RefuseSecondJoin, ReceiveJoin, Finish, Holds, TypeOK
    <3>2. CASE \E j \in Joins : AuthorizationFails(j) \/ JoinStep(j)
      <4>1. PICK j \in Joins : AuthorizationFails(j) \/ JoinStep(j)
        BY <3>2
      <4>2. leavePc' = leavePc
        BY <4>1 DEF JoinStep, AuthorizationFails, RefuseNewRoom, ShareSubscription, SendSubscribe,
           Subscribed, Install, GiveBackSubscription, RefuseJoin, RedisJoin, RedisPublishJoined
      <4>3. CASE k # j
        <5>1. joinPc'[k] = joinPc[k] /\ reply'[k] = reply[k] /\ answer'[k] = answer[k]
          BY <4>1, <4>3 DEF JoinStep, AuthorizationFails, RefuseNewRoom, ShareSubscription, SendSubscribe,
             Subscribed, Install, GiveBackSubscription, RefuseJoin, RedisJoin, RedisPublishJoined,
             Finish, TypeOK
        <5> QED BY <1>2, <4>2, <5>1 DEF Holds
      <4>4. CASE k = j
        <5>1. CASE AuthorizationFails(k) \/ RefuseNewRoom(k)
          BY <1>2, <4>2, <5>1 DEF AuthorizationFails, RefuseNewRoom, Finish, Holds, TypeOK
        <5>2. CASE ShareSubscription(k) \/ SendSubscribe(k) \/ Subscribed(k) \/ RedisPublishJoined(k)
          <6>1. answer' = answer /\ reply' = reply /\ joinPc'[k] # "replied"
            BY <5>2 DEF ShareSubscription, SendSubscribe, Subscribed, RedisPublishJoined, TypeOK
          <6> QED BY <1>2, <4>2, <6>1 DEF Holds
        <5>3. ~Install(k)
          BY <1>2 DEF Install, Holds
        <5>4. CASE GiveBackSubscription(k) \/ RefuseJoin(k)
          <6>1. reply[k].code # "joined" /\ joinPc'[k] # "replied" /\ answer'[k] \in {answer[k], reply[k].code}
            BY <5>4 DEF GiveBackSubscription, RefuseJoin, Finish, TypeOK, HandlersAgree
          <6> QED BY <1>2, <4>2, <6>1 DEF Holds
        <5> QED BY <4>1, <4>4, <5>1, <5>2, <5>3, <5>4 DEF JoinStep
      <4> QED BY <4>3, <4>4
    <3>3. CASE \E j \in Joins : LeaveStep(j)
      <4>1. PICK j \in Joins : LeaveStep(j)
        BY <3>3
      <4>2. /\ joinPc' = joinPc /\ reply' = reply /\ answer' = answer
            /\ leavePc[j] # "none" /\ \A i \in Joins \ {j} : leavePc'[i] = leavePc[i]
        BY <4>1 DEF LeaveStep, AnnounceDeparture, LeaveChannel, ChannelLeft, RedisLeave,
           RedisPublishLeft, TypeOK
      <4>3. k = j => leavePc[k] # "leaving" /\ leavePc'[k] \notin {"none", "leaving"}
        <5>1. k = j => AnnounceDeparture(k) \/ LeaveChannel(k) \/ ChannelLeft(k) \/ RedisPublishLeft(k)
          BY <4>1 DEF LeaveStep
        <5> QED BY <5>1 DEF AnnounceDeparture, LeaveChannel, ChannelLeft, RedisPublishLeft, TypeOK
      <4> QED BY <1>2, <4>2, <4>3 DEF Holds
    <3>4. CASE \E s \in Sockets : Leave(s) \/ CloseJoined(s) \/ CloseUnjoined(s)
      <4>1. PICK s \in Sockets : Leave(s) \/ CloseJoined(s) \/ CloseUnjoined(s)
        BY <3>4
      <4>2. joinPc' = joinPc /\ reply' = reply /\ answer' = answer
        BY <4>1 DEF Leave, CloseJoined, CloseUnjoined, LeaveUnchanged
      <4>3. leavePc'[k] = leavePc[k]
        <5>1. CASE CloseUnjoined(s)
          BY <5>1 DEF CloseUnjoined
        <5>2. CASE Leave(s) \/ CloseJoined(s)
          <6>1. contexts[s] \in Joins /\ Holds(contexts[s])
            BY <5>2, PresentHolds DEF Leave, CloseJoined, TypeOK, ContextsArePresent
          <6>2. k # contexts[s]
            BY <1>2, <6>1
          <6> QED BY <5>2, <6>1, <6>2 DEF Leave, CloseJoined, RemovePeerFromRoom, TypeOK
        <5> QED BY <4>1, <5>1, <5>2
      <4> QED BY <1>2, <4>2, <4>3 DEF Holds
    <3>5. CASE UNCHANGED vars \/ \E i \in Instances : RedisSubscription(i) \/ Deliver(i)
      BY <1>2, <3>5 DEF vars, handlerVars, RedisSubscription, Deliver, Holds
    <3> QED BY <3>1, <3>2, <3>3, <3>4, <3>5 DEF Next
  <2> QED BY <1>2, <2>1 DEF SeatOf
<1> QED BY <1>1, <1>2

(* A script of one join leaves the seats of all others alone. *)
LEMMA OthersKeepSeats ==
  ASSUME RegistrationInv, [Next]_vars, NEW j \in Joins, RedisJoin(j) \/ RedisLeave(j)
  PROVE  seats' = [seats EXCEPT ![j] = SeatOf(j)']
<1>1. ASSUME NEW k \in Joins, k # j PROVE SeatOf(k)' = SeatOf(k)
  <2>1. ~RedisJoin(k) /\ ~RedisLeave(k)
    BY <1>1 DEF RedisJoin, RedisLeave, RegistrationInv, HandlerInv, TypeOK, JoinPcs
  <2> QED BY <2>1, SeatKept
<1> QED BY <1>1 DEF seats

(* The abstract specification counts with the same operator. *)
LEMMA SameCardinality == \A S : Registry!Cardinality(S) = Cardinality(S)
BY DEF Registry!Cardinality, Cardinality, Registry!IsFiniteSet, IsFiniteSet

(* The join script seats a request, or changes nothing. *)
LEMMA JoinAdmits ==
  ASSUME RefinementInv, [Next]_vars, NEW j \in Joins, RedisJoin(j),
         NEW r \in Rooms, NEW p \in Peers, Asks(j, r, p)
  PROVE  [Registry!RegistryNext]_(Registry!registryVars)
<1> USE DEF RefinementInv, ExactnessInv, RegistrationInv
<1> DEFINE max == request[j].maxPeers
           room == redis[r]
<1>0. r = request[j].room /\ p = request[j].peer
  BY DEF Asks
<1>1. /\ max \in Capacities /\ max \in Nat
      /\ InstanceOf(j) \in Instances /\ room \in RedisRoom
  BY HandlerRequest DEF RedisJoin, HandlerInv, TypeOK, Requests
<1>2. /\ redis' = [redis EXCEPT ![r] = JoinRoom(room, p, InstanceOf(j), max)]
      /\ joinPc'[j] = "replied" /\ request' = request /\ leavePc' = leavePc /\ answer' = answer
      /\ reply'[j].code = JoinVerdict(room, p, max)
  BY <1>0 DEF RedisJoin, HandlerInv, TypeOK
<1>3. answer[j] = "none" /\ leavePc[j] = "none" /\ ~Holds(j) /\ seats[j] = Waiting
  BY DEF RedisJoin, HandlerInv, HandlersAgree, JoinPcs, Holds, seats, SeatOf
<1>4. RoomSound(room)
  BY <1>1 DEF CapacityInv
<1>5. seats' = [seats EXCEPT ![j] = SeatOf(j)']
  BY OthersKeepSeats
<1>6. CASE JoinVerdict(room, p, max) # "joined"
  <2>1. redis' = redis
    BY <1>1, <1>2, <1>4, <1>6, JoinRoomSound DEF HandlerInv, TypeOK
  <2>2. SeatOf(j)' = Waiting
    BY <1>2, <1>3, <1>6 DEF Holds, SeatOf
  <2>3. seats' = seats
    BY <1>3, <1>5, <2>2 DEF seats
  <2> QED BY <2>1, <2>3 DEF seats, Registry!registryVars
<1>7. CASE JoinVerdict(room, p, max) = "joined"
  <2>1. SeatOf(j)' = <<r, p>>
    BY <1>0, <1>2, <1>7 DEF Holds, SeatOf
  <2>2. \A k \in Joins : seats[k] # <<r, p>>
    <3>1. room.peers[p] = NoInstance
      BY <1>7 DEF JoinVerdict
    <3> SUFFICES ASSUME NEW k \in Joins, Holds(k), Asks(k, r, p) PROVE FALSE
      BY <1>1, SeatIsHeld
    <3> QED BY <3>1, HolderRequest, NoInstanceIsNone DEF HoldersOwn, Asks
  <2>3. limits' = [limits EXCEPT ![r] = CapacityFor(room, max)]
    <3>1. JoinRoom(room, p, InstanceOf(j), max).capacity = CapacityFor(room, max)
      BY <1>7 DEF JoinRoom
    <3> QED BY <1>1, <1>2, <3>1 DEF limits, HandlerInv, TypeOK
  <2>4. CASE Seated(r) = {}
    <3>1. Members(room) = {}
      BY <1>1, <2>4, SeatedAreHolders, SeatsAreEntries
    <3>2. CapacityFor(room, max) = max
      BY <1>4, <3>1 DEF CapacityFor, RoomSound, EmptyRoom
    <3>3. \E asked \in Capacities : limits' = [limits EXCEPT ![r] = asked]
      BY <1>1, <2>3, <3>2
    <3>4. Registry!Admit(j, r, p)
      BY <1>3, <1>5, <2>1, <2>2, <2>4, <3>3 DEF Registry!Admit, Registry!Seated, Seated, seats, limits
    <3>5. Registry!RegistryNext
      BY <1>1, <3>4 DEF Registry!RegistryNext
    <3> QED BY <3>5
  <2>5. CASE Seated(r) # {}
    <3>1. Members(room) # {} /\ Cardinality(Seated(r)) = Cardinality(Members(room))
      BY <1>1, <2>5, SeatedAreHolders, SeatsAreEntries
    <3>2. CapacityFor(room, max) = limits[r]
      BY <1>1, <3>1 DEF CapacityFor, limits
    <3>3. limits' = limits
      BY <2>3, <3>2 DEF limits
    <3>4. limits[r] = 0 \/ Cardinality(Seated(r)) < limits[r]
      <4>1. limits[r] = 0 \/ ~(Cardinality(Members(room)) >= limits[r])
        BY <1>7, <3>2 DEF JoinVerdict, NoCapacity
      <4>2. limits[r] \in Nat /\ Cardinality(Members(room)) \in Nat
        BY <1>1, MembersFinite DEF limits, RedisRoom
      <4> QED BY <3>1, <4>1, <4>2
    <3>5. Registry!Admit(j, r, p)
      BY <1>3, <1>5, <2>1, <2>2, <2>5, <3>3, <3>4, SameCardinality
      DEF Registry!Admit, Registry!Seated, Seated, seats, limits
    <3>6. Registry!RegistryNext
      BY <1>1, <3>5 DEF Registry!RegistryNext
    <3> QED BY <3>6
  <2> QED BY <2>4, <2>5
<1> QED BY <1>6, <1>7

(* The leave script gives up the seat of its own join. *)
LEMMA LeaveVacates ==
  ASSUME RefinementInv, [Next]_vars, NEW j \in Joins, RedisLeave(j),
         NEW r \in Rooms, NEW p \in Peers, Asks(j, r, p)
  PROVE  Registry!RegistryNext
<1> USE DEF RefinementInv, ExactnessInv, RegistrationInv
<1> DEFINE room == redis[r]
<1>0. r = request[j].room /\ p = request[j].peer
  BY DEF Asks
<1>1. room \in RedisRoom
  BY <1>0 DEF RedisLeave, HandlerInv, TypeOK
<1>2. /\ redis' = [redis EXCEPT ![r] = LeaveRoom(room, p)]
      /\ leavePc[j] = "leaving" /\ leavePc'[j] = "left"
      /\ joinPc' = joinPc /\ reply' = reply /\ answer' = answer
  BY <1>0 DEF RedisLeave, HandlerInv, TypeOK
<1>3. answer[j] = "joined" /\ joinPc[j] # "replied" /\ Holds(j)
  BY <1>2 DEF HandlerInv, HandlersAgree, Holds, JoinPcs
<1>4. seats[j] = <<r, p>> /\ SeatOf(j)' = Gone
  BY <1>0, <1>2, <1>3 DEF Holds, SeatOf, seats
<1>5. seats' = [seats EXCEPT ![j] = Gone]
  BY <1>4, OthersKeepSeats
<1>6. room.peers[p] # NoInstance
  BY <1>0, <1>1, <1>3, HolderRequest, NoInstanceIsNone DEF HoldersOwn
<1>7. (\A q \in Peers : LeaveRoom(room, p).peers[q] = NoInstance) <=> Seated(r) = {j}
  <2>1. (\A q \in Peers : LeaveRoom(room, p).peers[q] = NoInstance) <=> Members(room) = {p}
    <3>1. \A q \in Peers : LeaveRoom(room, p).peers[q] = IF q = p THEN NoInstance ELSE room.peers[q]
      <4>1. LeaveRoom(room, p).peers = [room.peers EXCEPT ![p] = NoInstance]
        BY LeaveRoomPeers
      <4>2. room.peers \in [Peers -> Instances \cup {NoInstance}]
        BY <1>1 DEF RedisRoom
      <4> QED BY <4>1, <4>2
    <3> QED BY <1>6, <3>1 DEF Members
  <2>2. Seated(r) = HoldersIn(r) /\ j \in HoldersIn(r)
    BY <1>0, <1>1, <1>3, SeatedAreHolders DEF HoldersIn
  <2>3. ASSUME Members(room) = {p}, NEW k \in HoldersIn(r) PROVE k = j
    <3>1. Holds(k) /\ request[k].room = r /\ request[k].peer \in Peers /\ InstanceOf(k) \in Instances
      BY HolderRequest DEF HoldersIn
    <3>2. request[k].peer \in Members(room)
      BY <3>1, NoInstanceIsNone DEF HoldersOwn, Members, HoldersIn
    <3> QED BY <1>0, <1>3, <2>3, <3>1, <3>2 DEF HoldersDiffer, HoldersIn
  <2>4. ASSUME HoldersIn(r) = {j}, NEW q \in Members(room) PROVE q = p
    <3>1. PICK k \in Joins : Holds(k) /\ Asks(k, r, q)
      BY <1>1 DEF Members, EntriesAreHeld
    <3> QED BY <2>4, <3>1 DEF HoldersIn, Asks
  <2>5. p \in Members(room)
    BY <1>1, <1>6 DEF Members
  <2> QED BY <2>1, <2>2, <2>3, <2>4, <2>5
<1>8. limits' = IF Seated(r) = {j} THEN [limits EXCEPT ![r] = 0] ELSE limits
  <2>1. LeaveRoom(room, p).capacity = IF Seated(r) = {j} THEN 0 ELSE limits[r]
    BY <1>1, <1>7 DEF LeaveRoom, NoCapacity, limits
  <2> QED BY <1>1, <1>2, <2>1 DEF limits, HandlerInv, TypeOK
<1>9. Registry!Vacate(j, r, p)
  BY <1>4, <1>5, <1>8 DEF Registry!Vacate, Registry!Seated, Seated, seats, limits
<1> QED BY <1>1, <1>9 DEF Registry!RegistryNext

(* Before the first message all wait, and no room has a limit. *)
LEMMA InitWaits == Init => Registry!RegistryInit
BY DEF Init, Holds, SeatOf, EmptyRoom, NoCapacity, Registry!RegistryInit

(* Every step of every handler is a step of the table of seats, or none. *)
LEMMA StepIsRegistryStep ==
  RefinementInv /\ [Next]_vars => [Registry!RegistryNext]_(Registry!registryVars)
<1> SUFFICES ASSUME RefinementInv, [Next]_vars
             PROVE  [Registry!RegistryNext]_(Registry!registryVars)
  OBVIOUS
<1>1. CASE \E j \in Joins : RedisJoin(j) \/ RedisLeave(j)
  <2>1. PICK j \in Joins : RedisJoin(j) \/ RedisLeave(j)
    BY <1>1
  <2>2. \E r \in Rooms, p \in Peers : Asks(j, r, p)
    BY <2>1, HandlerRequest DEF RedisJoin, RedisLeave, RefinementInv, ExactnessInv, RegistrationInv, Asks
  <2> QED BY <2>1, <2>2, JoinAdmits, LeaveVacates
<1>2. CASE \A j \in Joins : ~RedisJoin(j) /\ ~RedisLeave(j)
  <2>1. redis' = redis
    BY <1>2 DEF Next, vars, redisVars, JoinStep, LeaveStep, RefuseSecondJoin, ReceiveJoin,
       AuthorizationFails, RefuseNewRoom, ShareSubscription, SendSubscribe, Subscribed, Install,
       GiveBackSubscription, RefuseJoin, RedisPublishJoined, AnnounceDeparture, LeaveChannel,
       ChannelLeft, RedisPublishLeft, Leave, CloseJoined, CloseUnjoined, LeaveUnchanged,
       RedisSubscription, Deliver
  <2>2. \A j \in Joins : SeatOf(j)' = SeatOf(j)
    BY <1>2, SeatKept DEF RefinementInv, ExactnessInv
  <2> QED BY <2>1, <2>2 DEF Registry!registryVars
<1> QED BY <1>1, <1>2

(* Handlers, scripts, queues and the two registries of every instance
   together behave like the one table of seats of RoomRegistry.            *)
THEOREM ImplementsRegistryCorrect == Spec => ImplementsRegistry
<1>1. Spec => []RefinementInv
  BY RoomsSound, EntriesHeld, PTL DEF RefinementInv
<1> QED
  BY <1>1, InitWaits, StepIsRegistryStep, PTL DEF Spec, ImplementsRegistry, Registry!RegistrySpec
=============================================================================
