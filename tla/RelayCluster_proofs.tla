------------------------- MODULE RelayCluster_proofs ------------------------
(***************************************************************************)
(* Theorems about RelayCluster, for every set of instances, rooms, peers,  *)
(* sockets and join requests.                                              *)
(***************************************************************************)
EXTENDS RelayCluster, FiniteSetTheorems, SequenceTheorems, TLAPS

(* A request names a socket, a room and a peer, and so an instance. *)
LEMMA RequestFields ==
  ASSUME NEW q \in Requests
  PROVE  /\ q.socket \in Sockets /\ q.room \in Rooms /\ q.peer \in Peers
         /\ q.maxPeers \in Nat /\ Home[q.socket] \in Instances
BY HomeIsAnInstance, CapacitiesAreNumbers DEF Requests

(* Both scripts leave a room behind them. *)
LEMMA JoinRoomType ==
  ASSUME NEW room \in RedisRoom, NEW p \in Peers, NEW i \in Instances, NEW max \in Nat
  PROVE  JoinRoom(room, p, i, max) \in RedisRoom
BY DEF JoinRoom, JoinVerdict, RedisRoom, CapacityFor, NoCapacity

(* LEAVE_ROOM_SCRIPT too. *)
LEMMA LeaveRoomType ==
  ASSUME NEW room \in RedisRoom, NEW p \in Peers
  PROVE  LeaveRoom(room, p) \in RedisRoom
BY DEF LeaveRoom, RedisRoom, NoCapacity

(* What a running handler knows: its request, and whether its client was
   answered.  With the types, this much is inductive by itself.            *)
HandlerInv == TypeOK /\ HandlersAgree /\ ContextsArePresent

(* It holds before the first message. *)
LEMMA HandlerInvInit == Init => HandlerInv
BY NoneIsNothing DEF Init, HandlerInv, TypeOK, EmptyRoom, RedisRoom, NoCapacity, NoReply, Replies,
   JoinPcs, LeavePcs, HandlersAgree, ContextsArePresent

(* A handler that has begun has a request, hence an instance and a room. *)
LEMMA HandlerRequest ==
  ASSUME HandlerInv, NEW j \in Joins, joinPc[j] # "idle" \/ leavePc[j] # "none" \/ answer[j] # "none"
  PROVE  /\ request[j] \in Requests
         /\ request[j].socket \in Sockets /\ request[j].room \in Rooms /\ request[j].peer \in Peers
         /\ request[j].maxPeers \in Nat
         /\ InstanceOf(j) \in Instances
<1>1. request[j] \in Requests
  BY DEF HandlerInv, HandlersAgree, TypeOK, JoinPcs
<1> QED
  BY <1>1, RequestFields DEF InstanceOf

(* What the shared parts of the handlers leave behind. *)
LEMMA UnsubscribeType ==
  ASSUME TypeOK, NEW i \in Instances, NEW r \in Rooms, NEW handler \in Handlers,
         Unsubscribe(i, r, handler)
  PROVE  /\ roomSubscriptions' \in [Instances -> [Rooms -> Nat]]
         /\ subscriptionCalls' \in [Instances -> Seq(Handlers)]
<1>1. roomSubscriptions' \in [Instances -> [Rooms -> Nat]]
  <2> DEFINE lower(n) == IF n > 0 THEN n - 1 ELSE 0
  <2>1. lower(roomSubscriptions[i][r]) \in Nat
    BY DEF TypeOK
  <2> QED
    BY <2>1 DEF TypeOK, Unsubscribe
<1>2. subscriptionCalls' \in [Instances -> Seq(Handlers)]
  BY DEF TypeOK, Unsubscribe
<1> QED BY <1>1, <1>2

(* PUBLISH leaves sequences of notices and acknowledgements. *)
LEMMA FanOutType ==
  ASSUME TypeOK, NEW i \in Instances, NEW notice \in Notices, FanOut(i, notice)
  PROVE  inbox' \in [Instances -> Seq(Notices \cup Acks)]
BY DEF TypeOK, FanOut

(* Contexts stay backed by present joins when no leave begins and no answer
   is taken back.                                                          *)
LEMMA ContextsKept ==
  ASSUME HandlerInv, contexts' = contexts, request' = request,
         \A k \in Joins : leavePc[k] = "none" => leavePc'[k] = "none",
         \A k \in Joins : answer[k] = "joined" => answer'[k] = "joined"
  PROVE  ContextsArePresent'
BY DEF HandlerInv, TypeOK, ContextsArePresent, Present

(* A join message, refused at once or not, gives its handler a request. *)
LEMMA ReceiveKeepsHandlerInv ==
  ASSUME HandlerInv, NEW j \in Joins, NEW q \in Requests,
         RefuseSecondJoin(j, q) \/ ReceiveJoin(j, q)
  PROVE  HandlerInv'
<1> USE DEF redisVars, wireVars, serverVars, coordinatorVars, Finish, Errors, JoinPcs, HandlerInv
<1>1. TypeOK'
  BY DEF RefuseSecondJoin, ReceiveJoin, TypeOK
<1>2. HandlersAgree'
  <2>1. CASE RefuseSecondJoin(j, q)
    BY <2>1 DEF RefuseSecondJoin, TypeOK, HandlersAgree
  <2>2. CASE ReceiveJoin(j, q)
    BY <2>2 DEF ReceiveJoin, TypeOK, HandlersAgree
  <2> QED BY <2>1, <2>2
<1>3. ContextsArePresent'
  <2>1. answer[j] = "none" /\ contexts' = contexts /\ leavePc' = leavePc
    BY DEF RefuseSecondJoin, ReceiveJoin, HandlersAgree, TypeOK
  <2>2. \A k \in Joins \ {j} : answer'[k] = answer[k] /\ request'[k] = request[k]
    BY DEF RefuseSecondJoin, ReceiveJoin, TypeOK
  <2>3. ASSUME NEW s \in Sockets, contexts[s] # NoJoin PROVE contexts[s] \in Joins \ {j}
    BY <2>1, <2>3 DEF TypeOK, ContextsArePresent, Present
  <2> QED
    BY <2>1, <2>2, <2>3 DEF ContextsArePresent, Present
<1> QED BY <1>1, <1>2, <1>3

(* Installing a peer makes its join present and gives its socket a context. *)
LEMMA InstallKeepsHandlerInv ==
  ASSUME HandlerInv, NEW j \in Joins, Install(j)
  PROVE  HandlerInv'
<1> USE DEF redisVars, wireVars, serverVars, coordinatorVars, Finish, Errors, JoinPcs, HandlerInv
<1>0. request[j] \in Requests
  BY DEF Install, HandlersAgree, TypeOK
<1>1. TypeOK'
  <2> DEFINE i == InstanceOf(j)
             r == request[j].room
  <2>1. i \in Instances /\ r \in Rooms /\ request[j].peer \in Peers
        /\ request[j].socket \in Sockets /\ request[j].maxPeers \in Nat
    BY <1>0, RequestFields DEF InstanceOf
  <2>2. localRooms' \in [Instances -> [Rooms -> [peers : SUBSET Peers, capacity : Nat]]]
    BY <2>1 DEF Install, TypeOK
  <2>3. rooms' \in [Instances -> [Rooms -> [Peers -> Sockets \cup {NoSocket}]]]
    BY <2>1 DEF Install, TypeOK
  <2>4. commands' \in [Instances -> Seq(Handlers)]
    BY <2>1 DEF Install, TypeOK, Handlers, JoinHandler
  <2>5. reply' \in [Joins -> Replies]
    BY DEF Install, TypeOK, NoReply, Replies
  <2> QED
    BY <2>1, <2>2, <2>3, <2>4, <2>5 DEF Install, TypeOK
<1>2. HandlersAgree'
  BY DEF Install, TypeOK, HandlersAgree
<1>3. ContextsArePresent'
  <2>1. answer[j] = "none" /\ leavePc[j] = "none"
    BY DEF Install, HandlersAgree, TypeOK
  <2>2. /\ answer'[j] = "joined" /\ request' = request /\ leavePc' = leavePc
        /\ \A k \in Joins \ {j} : answer'[k] = answer[k]
        /\ \A s \in Sockets : contexts'[s] = IF s = request[j].socket THEN j ELSE contexts[s]
    BY DEF Install, TypeOK
  <2>3. ASSUME NEW s \in Sockets, contexts[s] # NoJoin PROVE contexts[s] \in Joins \ {j}
    BY <2>1, <2>3 DEF TypeOK, ContextsArePresent, Present
  <2> QED
    BY <2>1, <2>2, <2>3 DEF ContextsArePresent, Present
<1> QED BY <1>1, <1>2, <1>3

(* A failed authorization answers the client and touches no room. *)
LEMMA AuthorizationFailsKeepsHandlerInv ==
  ASSUME HandlerInv, NEW j \in Joins, AuthorizationFails(j)
  PROVE  HandlerInv'
<1> USE DEF redisVars, wireVars, serverVars, coordinatorVars, Finish, Errors, JoinPcs, LeavePcs
<1>0. /\ request[j] \in Requests /\ InstanceOf(j) \in Instances
      /\ request[j].room \in Rooms /\ request[j].peer \in Peers /\ request[j].socket \in Sockets
      /\ request[j].maxPeers \in Nat
  BY HandlerRequest DEF AuthorizationFails
<1>1. TypeOK'
  BY <1>0 DEF HandlerInv, AuthorizationFails, TypeOK
<1>2. HandlersAgree'
  BY DEF HandlerInv, AuthorizationFails, TypeOK, HandlersAgree
<1>3. ContextsArePresent'
  BY ContextsKept DEF HandlerInv, AuthorizationFails, TypeOK, HandlersAgree
<1> QED BY <1>1, <1>2, <1>3 DEF HandlerInv

(* So does the refusal of a room too many. *)
LEMMA RefuseNewRoomKeepsHandlerInv ==
  ASSUME HandlerInv, NEW j \in Joins, RefuseNewRoom(j)
  PROVE  HandlerInv'
<1> USE DEF redisVars, wireVars, serverVars, coordinatorVars, Finish, Errors, JoinPcs, LeavePcs
<1>0. /\ request[j] \in Requests /\ InstanceOf(j) \in Instances
      /\ request[j].room \in Rooms /\ request[j].peer \in Peers /\ request[j].socket \in Sockets
      /\ request[j].maxPeers \in Nat
  BY HandlerRequest DEF RefuseNewRoom
<1>1. TypeOK'
  BY <1>0 DEF HandlerInv, RefuseNewRoom, TypeOK
<1>2. HandlersAgree'
  BY DEF HandlerInv, RefuseNewRoom, TypeOK, HandlersAgree
<1>3. ContextsArePresent'
  BY ContextsKept DEF HandlerInv, RefuseNewRoom, TypeOK, HandlersAgree
<1> QED BY <1>1, <1>2, <1>3 DEF HandlerInv

(* One more reference on a channel, and the join script on its way. *)
LEMMA ShareSubscriptionKeepsHandlerInv ==
  ASSUME HandlerInv, NEW j \in Joins, ShareSubscription(j)
  PROVE  HandlerInv'
<1> USE DEF redisVars, wireVars, serverVars, coordinatorVars, Finish, Errors, JoinPcs, LeavePcs
<1>0. /\ request[j] \in Requests /\ InstanceOf(j) \in Instances
      /\ request[j].room \in Rooms /\ request[j].peer \in Peers /\ request[j].socket \in Sockets
      /\ request[j].maxPeers \in Nat
  BY HandlerRequest DEF ShareSubscription
<1>1. TypeOK'
  BY <1>0 DEF HandlerInv, ShareSubscription, TypeOK, Handlers, JoinHandler
<1>2. HandlersAgree'
  BY DEF HandlerInv, ShareSubscription, TypeOK, HandlersAgree
<1>3. ContextsArePresent'
  BY ContextsKept DEF HandlerInv, ShareSubscription, TypeOK, HandlersAgree
<1> QED BY <1>1, <1>2, <1>3 DEF HandlerInv

(* SUBSCRIBE on its way. *)
LEMMA SendSubscribeKeepsHandlerInv ==
  ASSUME HandlerInv, NEW j \in Joins, SendSubscribe(j)
  PROVE  HandlerInv'
<1> USE DEF redisVars, wireVars, serverVars, coordinatorVars, Finish, Errors, JoinPcs, LeavePcs
<1>0. /\ request[j] \in Requests /\ InstanceOf(j) \in Instances
      /\ request[j].room \in Rooms /\ request[j].peer \in Peers /\ request[j].socket \in Sockets
      /\ request[j].maxPeers \in Nat
  BY HandlerRequest DEF SendSubscribe
<1>1. TypeOK'
  BY <1>0 DEF HandlerInv, SendSubscribe, TypeOK, Handlers, JoinHandler
<1>2. HandlersAgree'
  BY DEF HandlerInv, SendSubscribe, TypeOK, HandlersAgree
<1>3. ContextsArePresent'
  BY ContextsKept DEF HandlerInv, SendSubscribe, TypeOK, HandlersAgree
<1> QED BY <1>1, <1>2, <1>3 DEF HandlerInv

(* SUBSCRIBE acknowledged, and the join script on its way. *)
LEMMA SubscribedKeepsHandlerInv ==
  ASSUME HandlerInv, NEW j \in Joins, Subscribed(j)
  PROVE  HandlerInv'
<1> USE DEF redisVars, wireVars, serverVars, coordinatorVars, Finish, Errors, JoinPcs, LeavePcs
<1>0. /\ request[j] \in Requests /\ InstanceOf(j) \in Instances
      /\ request[j].room \in Rooms /\ request[j].peer \in Peers /\ request[j].socket \in Sockets
      /\ request[j].maxPeers \in Nat
  BY HandlerRequest DEF Subscribed
<1>1. TypeOK'
  <2>1. inbox' \in [Instances -> Seq(Notices \cup Acks)]
    BY <1>0 DEF HandlerInv, Subscribed, TypeOK
  <2>2. commands' \in [Instances -> Seq(Handlers)]
    BY <1>0 DEF HandlerInv, Subscribed, TypeOK, Handlers, JoinHandler
  <2>3. /\ roomSubscriptions' \in [Instances -> [Rooms -> Nat]]
        /\ subscribedChannels' \in [Instances -> SUBSET Rooms]
    BY <1>0 DEF HandlerInv, Subscribed, TypeOK
  <2> QED
    BY <2>1, <2>2, <2>3 DEF HandlerInv, Subscribed, TypeOK
<1>2. HandlersAgree'
  BY DEF HandlerInv, Subscribed, TypeOK, HandlersAgree
<1>3. ContextsArePresent'
  BY ContextsKept DEF HandlerInv, Subscribed, TypeOK, HandlersAgree
<1> QED BY <1>1, <1>2, <1>3 DEF HandlerInv

(* A refused join drops its reference and answers now or after UNSUBSCRIBE. *)
LEMMA GiveBackSubscriptionKeepsHandlerInv ==
  ASSUME HandlerInv, NEW j \in Joins, GiveBackSubscription(j)
  PROVE  HandlerInv'
<1> USE DEF redisVars, wireVars, serverVars, coordinatorVars, Finish, Errors, JoinPcs, LeavePcs
<1>0. /\ request[j] \in Requests /\ InstanceOf(j) \in Instances
      /\ request[j].room \in Rooms /\ request[j].peer \in Peers /\ request[j].socket \in Sockets
      /\ request[j].maxPeers \in Nat
  BY HandlerRequest DEF GiveBackSubscription
<1>1. TypeOK'
  <2>1. /\ roomSubscriptions' \in [Instances -> [Rooms -> Nat]]
        /\ subscriptionCalls' \in [Instances -> Seq(Handlers)]
    BY <1>0, UnsubscribeType DEF HandlerInv, GiveBackSubscription, Handlers, JoinHandler
  <2>2. joinPc' \in [Joins -> JoinPcs]
    BY DEF HandlerInv, GiveBackSubscription, TypeOK
  <2>3. reply' \in [Joins -> Replies]
    <3>1. NoReply \in Replies
      BY DEF NoReply, Replies
    <3>2. reply' = reply \/ reply' = [reply EXCEPT ![j] = NoReply]
      BY DEF GiveBackSubscription
    <3> QED
      BY <3>1, <3>2 DEF HandlerInv, TypeOK
  <2>4. reply[j].code \in {"none", "joined"} \cup Errors
    BY DEF HandlerInv, TypeOK, Replies
  <2>5. answer' \in [Joins -> {"none", "joined"} \cup Errors]
    BY <2>4 DEF HandlerInv, GiveBackSubscription, TypeOK
  <2> QED
    BY <2>1, <2>2, <2>3, <2>5 DEF HandlerInv, GiveBackSubscription, TypeOK
<1>2. HandlersAgree'
  BY DEF HandlerInv, GiveBackSubscription, TypeOK, HandlersAgree, Replies
<1>3. ContextsArePresent'
  BY ContextsKept DEF HandlerInv, GiveBackSubscription, TypeOK, HandlersAgree
<1> QED BY <1>1, <1>2, <1>3 DEF HandlerInv

(* UNSUBSCRIBE acknowledged: the refused join answers what the script said. *)
LEMMA RefuseJoinKeepsHandlerInv ==
  ASSUME HandlerInv, NEW j \in Joins, RefuseJoin(j)
  PROVE  HandlerInv'
<1> USE DEF redisVars, wireVars, serverVars, coordinatorVars, Finish, Errors, JoinPcs, LeavePcs
<1>0. /\ request[j] \in Requests /\ InstanceOf(j) \in Instances
      /\ request[j].room \in Rooms /\ request[j].peer \in Peers /\ request[j].socket \in Sockets
      /\ request[j].maxPeers \in Nat
  BY HandlerRequest DEF RefuseJoin
<1>1. TypeOK'
  BY <1>0 DEF HandlerInv, RefuseJoin, TypeOK, Replies, NoReply
<1>2. HandlersAgree'
  BY DEF HandlerInv, RefuseJoin, TypeOK, HandlersAgree, Replies
<1>3. ContextsArePresent'
  BY ContextsKept DEF HandlerInv, RefuseJoin, TypeOK, HandlersAgree
<1> QED BY <1>1, <1>2, <1>3 DEF HandlerInv

(* The join script leaves a room of Redis and a well-formed reply. *)
LEMMA RedisJoinKeepsHandlerInv ==
  ASSUME HandlerInv, NEW j \in Joins, RedisJoin(j)
  PROVE  HandlerInv'
<1> USE DEF redisVars, wireVars, serverVars, coordinatorVars, Finish, Errors, JoinPcs, LeavePcs
<1>0. /\ request[j] \in Requests /\ InstanceOf(j) \in Instances
      /\ request[j].room \in Rooms /\ request[j].peer \in Peers /\ request[j].socket \in Sockets
      /\ request[j].maxPeers \in Nat
  BY HandlerRequest DEF RedisJoin
<1>1. TypeOK'
  BY <1>0, JoinRoomType DEF HandlerInv, RedisJoin, TypeOK, TakeCommand, IsNextCommand, Replies, JoinVerdict, Members
<1>2. HandlersAgree'
  BY DEF HandlerInv, RedisJoin, TypeOK, HandlersAgree, Replies
<1>3. ContextsArePresent'
  BY ContextsKept DEF HandlerInv, RedisJoin, TypeOK, HandlersAgree
<1> QED BY <1>1, <1>2, <1>3 DEF HandlerInv

(* PUBLISH appends a notice to the inboxes of the other subscribers. *)
LEMMA RedisPublishJoinedKeepsHandlerInv ==
  ASSUME HandlerInv, NEW j \in Joins, RedisPublishJoined(j)
  PROVE  HandlerInv'
<1> USE DEF redisVars, wireVars, serverVars, coordinatorVars, Finish, Errors, JoinPcs, LeavePcs
<1>0. /\ request[j] \in Requests /\ InstanceOf(j) \in Instances
      /\ request[j].room \in Rooms /\ request[j].peer \in Peers /\ request[j].socket \in Sockets
      /\ request[j].maxPeers \in Nat
  BY HandlerRequest DEF RedisPublishJoined
<1>1. TypeOK'
  <2>1. inbox' \in [Instances -> Seq(Notices \cup Acks)]
    BY <1>0, FanOutType DEF HandlerInv, RedisPublishJoined, PeerJoined, Notices
  <2>2. commands' \in [Instances -> Seq(Handlers)]
    BY <1>0 DEF HandlerInv, RedisPublishJoined, TypeOK, TakeCommand, IsNextCommand
  <2> QED
    BY <2>1, <2>2 DEF HandlerInv, RedisPublishJoined, TypeOK
<1>2. HandlersAgree'
  BY DEF HandlerInv, RedisPublishJoined, TypeOK, HandlersAgree
<1>3. ContextsArePresent'
  BY ContextsKept DEF HandlerInv, RedisPublishJoined, TypeOK, HandlersAgree
<1> QED BY <1>1, <1>2, <1>3 DEF HandlerInv

(* A leave past its script sends its announcement. *)
LEMMA AnnounceDepartureKeepsHandlerInv ==
  ASSUME HandlerInv, NEW j \in Joins, AnnounceDeparture(j)
  PROVE  HandlerInv'
<1> USE DEF redisVars, wireVars, serverVars, coordinatorVars, Finish, Errors, JoinPcs, LeavePcs
<1>0. /\ request[j] \in Requests /\ InstanceOf(j) \in Instances
      /\ request[j].room \in Rooms /\ request[j].peer \in Peers /\ request[j].socket \in Sockets
      /\ request[j].maxPeers \in Nat
  BY HandlerRequest DEF AnnounceDeparture
<1>1. TypeOK'
  BY <1>0 DEF HandlerInv, AnnounceDeparture, TypeOK, Handlers, LeaveHandler
<1>2. HandlersAgree'
  BY DEF HandlerInv, AnnounceDeparture, TypeOK, HandlersAgree
<1>3. ContextsArePresent'
  BY ContextsKept DEF HandlerInv, AnnounceDeparture, TypeOK, HandlersAgree
<1> QED BY <1>1, <1>2, <1>3 DEF HandlerInv

(* A leave gives its subscription back, and may await UNSUBSCRIBE. *)
LEMMA LeaveChannelKeepsHandlerInv ==
  ASSUME HandlerInv, NEW j \in Joins, LeaveChannel(j)
  PROVE  HandlerInv'
<1> USE DEF redisVars, wireVars, serverVars, coordinatorVars, Finish, Errors, JoinPcs, LeavePcs
<1>0. /\ request[j] \in Requests /\ InstanceOf(j) \in Instances
      /\ request[j].room \in Rooms /\ request[j].peer \in Peers /\ request[j].socket \in Sockets
      /\ request[j].maxPeers \in Nat
  BY HandlerRequest DEF LeaveChannel
<1>1. TypeOK'
  <2>1. /\ roomSubscriptions' \in [Instances -> [Rooms -> Nat]]
        /\ subscriptionCalls' \in [Instances -> Seq(Handlers)]
    BY <1>0, UnsubscribeType DEF HandlerInv, TypeOK, LeaveChannel, Handlers, LeaveHandler
  <2>2. leavePc' \in [Joins -> LeavePcs] /\ emptied' \in [Joins -> BOOLEAN]
    BY DEF HandlerInv, LeaveChannel, TypeOK
  <2> QED
    BY <2>1, <2>2 DEF HandlerInv, LeaveChannel, TypeOK
<1>2. HandlersAgree'
  BY DEF HandlerInv, LeaveChannel, TypeOK, HandlersAgree
<1>3. ContextsArePresent'
  BY ContextsKept DEF HandlerInv, LeaveChannel, TypeOK, HandlersAgree
<1> QED BY <1>1, <1>2, <1>3 DEF HandlerInv

(* UNSUBSCRIBE acknowledged: the leave is done. *)
LEMMA ChannelLeftKeepsHandlerInv ==
  ASSUME HandlerInv, NEW j \in Joins, ChannelLeft(j)
  PROVE  HandlerInv'
<1> USE DEF redisVars, wireVars, serverVars, coordinatorVars, Finish, Errors, JoinPcs, LeavePcs
<1>0. /\ request[j] \in Requests /\ InstanceOf(j) \in Instances
      /\ request[j].room \in Rooms /\ request[j].peer \in Peers /\ request[j].socket \in Sockets
      /\ request[j].maxPeers \in Nat
  BY HandlerRequest DEF ChannelLeft
<1>1. TypeOK'
  BY <1>0 DEF HandlerInv, ChannelLeft, TypeOK
<1>2. HandlersAgree'
  BY DEF HandlerInv, ChannelLeft, TypeOK, HandlersAgree
<1>3. ContextsArePresent'
  BY ContextsKept DEF HandlerInv, ChannelLeft, TypeOK, HandlersAgree
<1> QED BY <1>1, <1>2, <1>3 DEF HandlerInv

(* The leave script leaves a room of Redis behind. *)
LEMMA RedisLeaveKeepsHandlerInv ==
  ASSUME HandlerInv, NEW j \in Joins, RedisLeave(j)
  PROVE  HandlerInv'
<1> USE DEF redisVars, wireVars, serverVars, coordinatorVars, Finish, Errors, JoinPcs, LeavePcs
<1>0. /\ request[j] \in Requests /\ InstanceOf(j) \in Instances
      /\ request[j].room \in Rooms /\ request[j].peer \in Peers /\ request[j].socket \in Sockets
      /\ request[j].maxPeers \in Nat
  BY HandlerRequest DEF RedisLeave
<1>1. TypeOK'
  BY <1>0, LeaveRoomType DEF HandlerInv, RedisLeave, TypeOK, TakeCommand, IsNextCommand
<1>2. HandlersAgree'
  BY DEF HandlerInv, RedisLeave, TypeOK, HandlersAgree
<1>3. ContextsArePresent'
  BY ContextsKept DEF HandlerInv, RedisLeave, TypeOK, HandlersAgree
<1> QED BY <1>1, <1>2, <1>3 DEF HandlerInv

(* The departure is published like an arrival. *)
LEMMA RedisPublishLeftKeepsHandlerInv ==
  ASSUME HandlerInv, NEW j \in Joins, RedisPublishLeft(j)
  PROVE  HandlerInv'
<1> USE DEF redisVars, wireVars, serverVars, coordinatorVars, Finish, Errors, JoinPcs, LeavePcs
<1>0. /\ request[j] \in Requests /\ InstanceOf(j) \in Instances
      /\ request[j].room \in Rooms /\ request[j].peer \in Peers /\ request[j].socket \in Sockets
      /\ request[j].maxPeers \in Nat
  BY HandlerRequest DEF RedisPublishLeft
<1>1. TypeOK'
  <2>1. inbox' \in [Instances -> Seq(Notices \cup Acks)]
    BY <1>0, FanOutType DEF HandlerInv, RedisPublishLeft, PeerLeft, Notices
  <2>2. commands' \in [Instances -> Seq(Handlers)]
    BY <1>0 DEF HandlerInv, RedisPublishLeft, TypeOK, TakeCommand, IsNextCommand
  <2> QED
    BY <2>1, <2>2 DEF HandlerInv, RedisPublishLeft, TypeOK
<1>2. HandlersAgree'
  BY DEF HandlerInv, RedisPublishLeft, TypeOK, HandlersAgree
<1>3. ContextsArePresent'
  BY ContextsKept DEF HandlerInv, RedisPublishLeft, TypeOK, HandlersAgree
<1> QED BY <1>1, <1>2, <1>3 DEF HandlerInv

(* The first stretch of a leave, for the join whose context the socket had. *)
LEMMA RemovePeerKeepsHandlerInv ==
  ASSUME HandlerInv, NEW s \in Sockets, contexts[s] # NoJoin,
         contexts' = [contexts EXCEPT ![s] = NoJoin],
         socket' \in [Sockets -> {"open", "closing", "closed"}],
         RemovePeerFromRoom(contexts[s]), LeaveUnchanged
  PROVE  HandlerInv'
<1> DEFINE j == contexts[s]
           i == InstanceOf(j)
           r == request[j].room
           p == request[j].peer
<1>0. j \in Joins /\ Present(j) /\ request[j].socket = s
  BY DEF HandlerInv, TypeOK, ContextsArePresent
<1>1. i \in Instances /\ r \in Rooms /\ p \in Peers
  BY <1>0, HandlerRequest DEF Present
<1>2. \A k \in Joins : leavePc'[k] = leavePc[k] \/ (k = j /\ leavePc'[k] = "leaving")
  BY <1>0 DEF RemovePeerFromRoom, HandlerInv, TypeOK
<1>3. TypeOK'
  <2>1. rooms' \in [Instances -> [Rooms -> [Peers -> Sockets \cup {NoSocket}]]]
    <3> DEFINE cleared(ii, rr, pp) == [rooms EXCEPT ![ii][rr][pp] = NoSocket]
    <3>1. rooms' = rooms \/ rooms' = cleared(i, r, p)
      BY DEF RemovePeerFromRoom
    <3>2. ASSUME NEW ii \in Instances, NEW rr \in Rooms, NEW pp \in Peers
          PROVE  cleared(ii, rr, pp) \in [Instances -> [Rooms -> [Peers -> Sockets \cup {NoSocket}]]]
      BY DEF HandlerInv, TypeOK
    <3> HIDE DEF cleared
    <3> QED
      BY <1>1, <3>1, <3>2 DEF HandlerInv, TypeOK
  <2>2. localRooms' \in [Instances -> [Rooms -> [peers : SUBSET Peers, capacity : Nat]]]
    <3> DEFINE without(ii, rr, pp) == [localRooms EXCEPT ![ii][rr] =
                 [peers    |-> @.peers \ {pp},
                  capacity |-> IF @.peers \subseteq {pp} THEN NoCapacity ELSE @.capacity]]
    <3>1. localRooms' = localRooms \/ localRooms' = without(i, r, p)
      BY DEF RemovePeerFromRoom
    <3>2. ASSUME NEW ii \in Instances, NEW rr \in Rooms, NEW pp \in Peers
          PROVE  without(ii, rr, pp)
                   \in [Instances -> [Rooms -> [peers : SUBSET Peers, capacity : Nat]]]
      BY DEF HandlerInv, TypeOK, NoCapacity
    <3> HIDE DEF without
    <3> QED
      BY <1>1, <3>1, <3>2 DEF HandlerInv, TypeOK
  <2>3. commands' \in [Instances -> Seq(Handlers)]
    <3> DEFINE sent(ii, handler) == [commands EXCEPT ![ii] = Append(@, handler)]
    <3>1. commands' = commands \/ commands' = sent(i, LeaveHandler(j))
      BY DEF RemovePeerFromRoom
    <3>2. ASSUME NEW ii \in Instances, NEW handler \in Handlers
          PROVE  sent(ii, handler) \in [Instances -> Seq(Handlers)]
      BY DEF HandlerInv, TypeOK
    <3>3. LeaveHandler(j) \in Handlers
      BY <1>0 DEF LeaveHandler, Handlers
    <3> HIDE DEF sent
    <3> QED
      BY <1>1, <3>1, <3>2, <3>3 DEF HandlerInv, TypeOK
  <2>4. leavePc' \in [Joins -> LeavePcs]
    BY <1>0 DEF RemovePeerFromRoom, HandlerInv, TypeOK, LeavePcs
  <2>5. emptied' \in [Joins -> BOOLEAN]
    <3>1. CASE LocalPeers(i, r) = {}
      BY <3>1 DEF RemovePeerFromRoom, HandlerInv, TypeOK
    <3>2. CASE LocalPeers(i, r) # {}
      <4> DEFINE marked(k) == LocalPeers(i, r) \subseteq {p}
                   /\ (k = j \/ (/\ leavePc[k] \in {"leaving", "left", "publishing", "published"}
                                 /\ InstanceOf(k) = i /\ request[k].room = r))
      <4>1. emptied' = [k \in Joins |-> emptied[k] \/ marked(k)]
        BY <3>2 DEF RemovePeerFromRoom
      <4> QED
        BY <4>1, Zenon
    <3> QED BY <3>1, <3>2
  <2>6. contexts' \in [Sockets -> Joins \cup {NoJoin}]
    BY DEF HandlerInv, TypeOK
  <2> QED
    BY <2>1, <2>2, <2>3, <2>4, <2>5, <2>6
    DEF HandlerInv, TypeOK, LeaveUnchanged, redisVars
<1>4. HandlersAgree'
  BY <1>0, <1>2 DEF HandlerInv, HandlersAgree, LeaveUnchanged, Present
<1>5. ContextsArePresent'
  <2>1. \A t \in Sockets : contexts'[t] # NoJoin => t # s /\ contexts'[t] = contexts[t]
    BY DEF HandlerInv, TypeOK
  <2>2. \A t \in Sockets \ {s} : contexts[t] # NoJoin => contexts[t] \in Joins \ {j}
    BY <1>0 DEF HandlerInv, TypeOK, ContextsArePresent
  <2> QED
    BY <1>2, <2>1, <2>2 DEF HandlerInv, ContextsArePresent, LeaveUnchanged, Present
<1> QED BY <1>3, <1>4, <1>5 DEF HandlerInv

(* Every way a socket leaves its room, or closes without one. *)
LEMMA SocketKeepsHandlerInv ==
  ASSUME HandlerInv, NEW s \in Sockets, Leave(s) \/ CloseJoined(s) \/ CloseUnjoined(s)
  PROVE  HandlerInv'
<1>1. CASE Leave(s)
  BY <1>1, RemovePeerKeepsHandlerInv DEF Leave, HandlerInv, TypeOK
<1>2. CASE CloseJoined(s)
  BY <1>2, RemovePeerKeepsHandlerInv DEF CloseJoined, HandlerInv, TypeOK
<1>3. CASE CloseUnjoined(s)
  <2>1. TypeOK'
    BY <1>3 DEF CloseUnjoined, LeaveUnchanged, redisVars, HandlerInv, TypeOK
  <2>2. HandlersAgree'
    BY <1>3 DEF CloseUnjoined, LeaveUnchanged, HandlerInv, HandlersAgree
  <2>3. ContextsArePresent'
    BY <1>3, ContextsKept DEF CloseUnjoined, LeaveUnchanged
  <2> QED BY <2>1, <2>2, <2>3 DEF HandlerInv
<1> QED BY <1>1, <1>2, <1>3

(* What Redis and the subscriber connection do by themselves. *)
LEMMA WireKeepsHandlerInv ==
  ASSUME HandlerInv, NEW i \in Instances, RedisSubscription(i) \/ Deliver(i)
  PROVE  HandlerInv'
<1> USE DEF redisVars, serverVars, coordinatorVars, handlerVars
<1>1. TypeOK'
  <2>1. CASE RedisSubscription(i)
    <3> DEFINE handler == Head(subscriptionCalls[i])
    <3>1. handler \in Handlers
      BY <2>1 DEF RedisSubscription, HandlerInv, TypeOK
    <3>2. Ack(handler) \in Acks
      BY <3>1 DEF Ack, Acks
    <3>3. inbox' \in [Instances -> Seq(Notices \cup Acks)]
      BY <2>1, <3>2 DEF RedisSubscription, HandlerInv, TypeOK
    <3>4. channel' \in [Rooms -> SUBSET Instances]
      BY <2>1 DEF RedisSubscription, HandlerInv, TypeOK
    <3>5. subscriptionCalls' \in [Instances -> Seq(Handlers)]
      BY <2>1 DEF RedisSubscription, HandlerInv, TypeOK
    <3> QED
      BY <2>1, <3>3, <3>4, <3>5 DEF RedisSubscription, HandlerInv, TypeOK
  <2>2. CASE Deliver(i)
    BY <2>2 DEF Deliver, HandlerInv, TypeOK
  <2> QED BY <2>1, <2>2
<1>2. HandlersAgree'
  BY DEF RedisSubscription, Deliver, HandlerInv, HandlersAgree
<1>3. ContextsArePresent'
  BY ContextsKept DEF RedisSubscription, Deliver
<1> QED BY <1>1, <1>2, <1>3 DEF HandlerInv

(* A step of any handler. *)
LEMMA StepKeepsHandlerInv == HandlerInv /\ [Next]_vars => HandlerInv'
<1> SUFFICES ASSUME HandlerInv, [Next]_vars PROVE HandlerInv'
  OBVIOUS
<1>1. ASSUME NEW j \in Joins, JoinStep(j) PROVE HandlerInv'
  BY <1>1, RefuseNewRoomKeepsHandlerInv, ShareSubscriptionKeepsHandlerInv,
     SendSubscribeKeepsHandlerInv, SubscribedKeepsHandlerInv, InstallKeepsHandlerInv,
     GiveBackSubscriptionKeepsHandlerInv, RefuseJoinKeepsHandlerInv, RedisJoinKeepsHandlerInv,
     RedisPublishJoinedKeepsHandlerInv
  DEF JoinStep
<1>2. ASSUME NEW j \in Joins, LeaveStep(j) PROVE HandlerInv'
  BY <1>2, AnnounceDepartureKeepsHandlerInv, LeaveChannelKeepsHandlerInv,
     ChannelLeftKeepsHandlerInv, RedisLeaveKeepsHandlerInv, RedisPublishLeftKeepsHandlerInv
  DEF LeaveStep
<1>3. CASE UNCHANGED vars
  <2>1. TypeOK'
    BY <1>3 DEF vars, redisVars, wireVars, serverVars, coordinatorVars, handlerVars, HandlerInv, TypeOK
  <2>2. HandlersAgree' /\ ContextsArePresent'
    BY <1>3 DEF vars, serverVars, handlerVars, HandlerInv, HandlersAgree, ContextsArePresent, Present
  <2> QED BY <2>1, <2>2 DEF HandlerInv
<1> QED
  BY <1>1, <1>2, <1>3, ReceiveKeepsHandlerInv, AuthorizationFailsKeepsHandlerInv,
     SocketKeepsHandlerInv, WireKeepsHandlerInv
  DEF Next

(* Every variable keeps the shape the code gives it, a running handler has a
   request and has not been answered twice, and a context belongs to a join
   that was admitted and is not being undone.                              *)
THEOREM HandlersCorrect == Spec => []HandlerInv
BY HandlerInvInit, StepKeepsHandlerInv, PTL DEF Spec

(* Every variable keeps the shape the code gives it. *)
THEOREM TypeCorrect == Spec => []TypeOK
<1>1. HandlerInv => TypeOK
  BY DEF HandlerInv
<1> QED
  BY <1>1, HandlersCorrect, PTL
-----------------------------------------------------------------------------
(***************************************************************************)
(* The capacity of a room in Redis: it is the first occupant's, nobody     *)
(* changes it while the room has members, the members never outnumber it,  *)
(* and it is forgotten with the last of them.  Only the two scripts write  *)
(* a room, so this is about them; that a script is given a room, a peer    *)
(* and a number is what HandlerRequest shows.                              *)
(***************************************************************************)

(* EmptyRoomIsFresh and CapacityHeld, of one room. *)
RoomSound(room) ==
  /\ Members(room) = {} => room = EmptyRoom
  /\ room.capacity # NoCapacity => Cardinality(Members(room)) <= room.capacity

(* Members can be counted. *)
LEMMA MembersFinite ==
  ASSUME NEW room
  PROVE  IsFiniteSet(Members(room)) /\ Cardinality(Members(room)) \in Nat
<1>1. Members(room) \subseteq Peers
  BY DEF Members
<1> QED BY <1>1, PeersFinite, FS_Subset, FS_CardinalityType

(* A script run on a sound room leaves a sound room, and the capacity of a
   room with members as it was; a join it refuses changes nothing.         *)
LEMMA JoinRoomSound ==
  ASSUME NEW room \in RedisRoom, NEW p \in Peers, NEW i \in Instances, NEW max \in Nat,
         RoomSound(room)
  PROVE  /\ JoinVerdict(room, p, max) # "joined" => JoinRoom(room, p, i, max) = room
         /\ RoomSound(JoinRoom(room, p, i, max))
         /\ Members(room) # {} => JoinRoom(room, p, i, max).capacity = room.capacity
<1> DEFINE new == JoinRoom(room, p, i, max)
           verdict == JoinVerdict(room, p, max)
           capacity == CapacityFor(room, max)
           size == Cardinality(Members(room))
<1>0. capacity \in Nat /\ (Members(room) # {} => capacity = room.capacity)
  BY DEF CapacityFor, RedisRoom
<1>1. ASSUME verdict = "PEER_EXISTS"
      PROVE  (verdict # "joined" => new = room) /\ RoomSound(new) /\ (Members(room) # {} => new.capacity = room.capacity)
  <2>1. new = room
    BY <1>1 DEF JoinRoom
  <2> QED BY <1>1, <2>1
<1>2. ASSUME verdict = "ROOM_FULL"
      PROVE  (verdict # "joined" => new = room) /\ RoomSound(new) /\ (Members(room) # {} => new.capacity = room.capacity)
  <2>1. capacity # NoCapacity /\ size >= capacity
    BY <1>2 DEF JoinVerdict
  <2>2. Members(room) # {}
    BY <2>1, <1>0, FS_EmptySet DEF NoCapacity
  <2>3. new = room
    BY <1>0, <1>2, <2>2 DEF JoinRoom, RedisRoom
  <2> QED BY <2>3
<1>3. ASSUME verdict = "joined"
      PROVE  (verdict # "joined" => new = room) /\ RoomSound(new) /\ (Members(room) # {} => new.capacity = room.capacity)
  <2>1. room.peers[p] = NoInstance /\ (capacity = NoCapacity \/ ~(size >= capacity))
    BY <1>3 DEF JoinVerdict
  <2>2. new = [peers |-> [room.peers EXCEPT ![p] = i], capacity |-> capacity]
    BY <1>3 DEF JoinRoom
  <2>3. p \notin Members(room) /\ Members(new) = Members(room) \cup {p}
    BY <2>1, <2>2, NoInstanceIsNone DEF Members, RedisRoom
  <2>4. Cardinality(Members(new)) = size + 1
    BY <2>3, MembersFinite, FS_AddElement
  <2>5. new.capacity # NoCapacity => Cardinality(Members(new)) <= new.capacity
    BY <1>0, <2>1, <2>2, <2>4, MembersFinite DEF NoCapacity
  <2> QED BY <1>0, <1>3, <2>2, <2>3, <2>5 DEF RoomSound
<1>4. verdict \in {"PEER_EXISTS", "ROOM_FULL", "joined"}
  BY DEF JoinVerdict
<1> HIDE DEF new, verdict
<1>5. (verdict # "joined" => new = room) /\ RoomSound(new) /\ (Members(room) # {} => new.capacity = room.capacity)
  BY <1>1, <1>2, <1>3, <1>4
<1> QED BY <1>5 DEF new, verdict

(* So does the leave script. *)
LEMMA LeaveRoomSound ==
  ASSUME NEW room \in RedisRoom, NEW p \in Peers, RoomSound(room)
  PROVE  /\ RoomSound(LeaveRoom(room, p))
         /\ Members(LeaveRoom(room, p)) # {} => LeaveRoom(room, p).capacity = room.capacity
<1> DEFINE new == LeaveRoom(room, p)
<1>1. new.peers = [room.peers EXCEPT ![p] = NoInstance]
  BY DEF LeaveRoom
<1>2. Members(new) \subseteq Members(room)
  BY <1>1 DEF Members, RedisRoom
<1>3. CASE Members(new) = {}
  <2>1. \A q \in Peers : new.peers[q] = NoInstance
    BY <1>3 DEF Members
  <2>2. new.capacity = NoCapacity
    BY <1>1, <2>1 DEF LeaveRoom
  <2>3. new = EmptyRoom
    BY <1>1, <2>1, <2>2 DEF LeaveRoom, EmptyRoom, RedisRoom
  <2> QED BY <1>3, <2>2, <2>3 DEF RoomSound
<1>4. CASE Members(new) # {}
  <2>1. new.capacity = room.capacity
    BY <1>1, <1>4 DEF LeaveRoom, Members
  <2>2. Cardinality(Members(new)) <= Cardinality(Members(room))
    BY <1>2, MembersFinite, FS_Subset
  <2>3. room.capacity # NoCapacity => Cardinality(Members(new)) <= room.capacity
    BY <2>2, MembersFinite DEF RoomSound, RedisRoom
  <2> QED BY <1>4, <2>1, <2>3 DEF RoomSound
<1> QED BY <1>3, <1>4

(* Every room of Redis is sound. *)
CapacityInv == HandlerInv /\ \A r \in Rooms : RoomSound(redis[r])

(* Rooms are empty at first. *)
LEMMA InitSound == Init => CapacityInv
<1> SUFFICES ASSUME Init, NEW r \in Rooms PROVE RoomSound(redis[r])
  BY HandlerInvInit DEF CapacityInv
<1> QED BY DEF Init, RoomSound, EmptyRoom

(* What a step does to one room. *)
LEMMA StepOnRoom ==
  ASSUME CapacityInv, [Next]_vars, NEW r \in Rooms
  PROVE  /\ RoomSound(redis'[r])
         /\ Members(redis[r]) # {} /\ Members(redis'[r]) # {}
              => redis'[r].capacity = redis[r].capacity
<1> USE DEF CapacityInv
<1>0. redis \in [Rooms -> RedisRoom]
  BY DEF HandlerInv, TypeOK
<1>1. ASSUME NEW j \in Joins, RedisJoin(j)
      PROVE  \/ redis'[r] = redis[r]
             \/ redis'[r] = JoinRoom(redis[r], request[j].peer, InstanceOf(j), request[j].maxPeers)
  BY <1>0, <1>1 DEF RedisJoin
<1>2. ASSUME NEW j \in Joins, RedisLeave(j)
      PROVE  redis'[r] = redis[r] \/ redis'[r] = LeaveRoom(redis[r], request[j].peer)
  BY <1>0, <1>2 DEF RedisLeave
<1>3. CASE \E j \in Joins : RedisJoin(j)
  <2>1. PICK j \in Joins : RedisJoin(j)
    BY <1>3
  <2>2. request[j].peer \in Peers /\ InstanceOf(j) \in Instances /\ request[j].maxPeers \in Nat
    BY <2>1, HandlerRequest DEF RedisJoin
  <2> QED BY <1>0, <1>1, <2>1, <2>2, JoinRoomSound
<1>4. CASE \E j \in Joins : RedisLeave(j)
  <2>1. PICK j \in Joins : RedisLeave(j)
    BY <1>4
  <2>2. request[j].peer \in Peers
    BY <2>1, HandlerRequest DEF RedisLeave
  <2> QED BY <1>0, <1>2, <2>1, <2>2, LeaveRoomSound
<1>5. CASE redis' = redis
  BY <1>5
<1>6. (\E j \in Joins : RedisJoin(j) \/ RedisLeave(j)) \/ redis' = redis
  BY DEF Next, vars, redisVars, JoinStep, LeaveStep, RefuseSecondJoin, ReceiveJoin, AuthorizationFails,
     RefuseNewRoom, ShareSubscription, SendSubscribe, Subscribed, Install, GiveBackSubscription,
     RefuseJoin, RedisPublishJoined, AnnounceDeparture, LeaveChannel, ChannelLeft, RedisPublishLeft,
     Leave, CloseJoined, CloseUnjoined, LeaveUnchanged, RedisSubscription, Deliver
<1> QED BY <1>3, <1>4, <1>5, <1>6

(* Every step keeps every room sound. *)
LEMMA StepSound == CapacityInv /\ [Next]_vars => CapacityInv'
BY StepOnRoom, StepKeepsHandlerInv DEF CapacityInv

(* Hence every room is sound in every state. *)
LEMMA RoomsSound == Spec => []CapacityInv
BY InitSound, StepSound, PTL DEF Spec

(* A room with a capacity never has more members than that. *)
THEOREM CapacityHeldCorrect == Spec => []CapacityHeld
<1>1. CapacityInv => CapacityHeld
  BY DEF CapacityInv, RoomSound, CapacityHeld
<1> QED BY <1>1, RoomsSound, PTL

(* A room nobody is in keeps no capacity for whoever opens it next. *)
THEOREM EmptyRoomIsFreshCorrect == Spec => []EmptyRoomIsFresh
<1>1. CapacityInv => EmptyRoomIsFresh
  BY DEF CapacityInv, RoomSound, EmptyRoomIsFresh
<1> QED BY <1>1, RoomsSound, PTL

(* The first occupant's capacity stays for as long as the room has members. *)
THEOREM CapacityFixedCorrect == Spec => CapacityFixed
<1> DEFINE Fixed == \A r \in Rooms :
             Members(redis[r]) # {} /\ Members(redis'[r]) # {}
               => redis'[r].capacity = redis[r].capacity
<1>1. CapacityInv /\ [Next]_vars => [Fixed]_vars
  BY StepOnRoom
<1> QED BY <1>1, RoomsSound, PTL DEF Spec, CapacityFixed
-----------------------------------------------------------------------------
(***************************************************************************)
(* Registration is an invariant of RelayCluster: a peer id in a room has   *)
(* at most one join that holds it, in Redis and in the relays' registries, *)
(* whatever joins, leaves and closes overlap.  Only four steps touch what  *)
(* it says: the join script, the installation after it, the first stretch  *)
(* of a leave and the leave script.                                        *)
(***************************************************************************)

RegistrationInv ==
  HandlerInv /\ HoldersOwn /\ HoldersDiffer /\ RegisteredArePresent /\ PresentAreRegistered

(* What the steps below re-establish: HandlerInv has its own proof. *)
Registered == HoldersOwn /\ HoldersDiffer /\ RegisteredArePresent /\ PresentAreRegistered

(* JOIN_ROOM_SCRIPT writes the caller's field when it admits, having found
   it absent, and no other field ever.                                     *)
LEMMA JoinRoomPeers ==
  \A room \in RedisRoom, p \in Peers, i \in Instances, max \in Nat :
    IF JoinVerdict(room, p, max) = "joined"
      THEN /\ room.peers[p] = NoInstance
           /\ JoinRoom(room, p, i, max).peers = [room.peers EXCEPT ![p] = i]
      ELSE JoinRoom(room, p, i, max).peers = room.peers
BY DEF JoinRoom, JoinVerdict, RedisRoom

(* LEAVE_ROOM_SCRIPT clears the caller's field and no other. *)
LEMMA LeaveRoomPeers ==
  ASSUME NEW room, NEW p
  PROVE  LeaveRoom(room, p).peers = [room.peers EXCEPT ![p] = NoInstance]
BY DEF LeaveRoom

(* Nobody holds anything at first. *)
LEMMA InitRegistered == Init => RegistrationInv
<1>1. Init => HandlerInv
  BY HandlerInvInit
<1>2. Init => Registered
  BY DEF Init, Registered, HoldersOwn, HoldersDiffer, RegisteredArePresent, PresentAreRegistered,
     Holds, Present
<1> QED BY <1>1, <1>2 DEF RegistrationInv, Registered

(* A holder has a request, which names its place in Redis; a join that is
   present is a holder.                                                    *)
LEMMA HolderRequest ==
  ASSUME HandlerInv, NEW j \in Joins, Holds(j)
  PROVE  /\ request[j] \in Requests
         /\ request[j].socket \in Sockets /\ request[j].room \in Rooms /\ request[j].peer \in Peers
         /\ InstanceOf(j) \in Instances
<1>1. joinPc[j] # "idle" \/ leavePc[j] # "none" \/ answer[j] # "none"
  BY DEF Holds
<1> QED BY <1>1, HandlerRequest

(* A join that is present holds its entry. *)
LEMMA PresentHolds == ASSUME NEW j, Present(j) PROVE Holds(j)
BY DEF Present, Holds

(* A step that neither runs a script, installs a peer nor begins a leave. *)
LEMMA QuietStep ==
  ASSUME RegistrationInv, redis' = redis, rooms' = rooms,
         \A k \in Joins : (Holds(k)' <=> Holds(k)) /\ (Present(k)' <=> Present(k)),
         \A k \in Joins : Holds(k) => request'[k] = request[k]
  PROVE  Registered'
<1> USE DEF RegistrationInv, Registered
<1>1. HoldersOwn'
  BY DEF HoldersOwn, InstanceOf
<1>2. HoldersDiffer'
  BY DEF HoldersDiffer
<1>3. RegisteredArePresent'
  BY PresentHolds DEF RegisteredArePresent, Asks, InstanceOf
<1>4. PresentAreRegistered'
  BY PresentHolds DEF PresentAreRegistered, InstanceOf
<1> QED BY <1>1, <1>2, <1>3, <1>4

(* The join script admits into a place that no join holds. *)
LEMMA RedisJoinRegistered ==
  ASSUME RegistrationInv, NEW j \in Joins, RedisJoin(j)
  PROVE  Registered'
<1> DEFINE i == InstanceOf(j)
           r == request[j].room
           p == request[j].peer
           max == request[j].maxPeers
           verdict == JoinVerdict(redis[r], p, max)
<1>1. /\ i \in Instances /\ r \in Rooms /\ p \in Peers /\ max \in Nat
      /\ redis[r] \in RedisRoom
  BY HandlerRequest DEF RedisJoin, RegistrationInv, HandlerInv, TypeOK
<1>2. ~Holds(j) /\ ~Present(j)
  BY DEF RedisJoin, RegistrationInv, HandlerInv, HandlersAgree, JoinPcs, Holds, Present
<1>3. /\ request' = request /\ rooms' = rooms /\ answer' = answer /\ leavePc' = leavePc
      /\ \A k \in Joins \ {j} : joinPc'[k] = joinPc[k] /\ reply'[k] = reply[k]
      /\ joinPc'[j] = "replied" /\ reply'[j].code = verdict
  BY DEF RedisJoin, RegistrationInv, HandlerInv, TypeOK, serverVars
<1>4. \A k \in Joins : Present(k)' <=> Present(k)
  BY <1>3 DEF Present
<1>5. \A k \in Joins \ {j} : Holds(k)' <=> Holds(k)
  BY <1>3 DEF Holds
<1>6. Holds(j)' <=> verdict = "joined"
  BY <1>2, <1>3 DEF Holds
<1>7. RegisteredArePresent' /\ PresentAreRegistered'
  BY <1>3, <1>4 DEF RegistrationInv, RegisteredArePresent, PresentAreRegistered, Asks, InstanceOf
<1>8. CASE verdict = "joined"
  <2>1. /\ redis[r].peers[p] = NoInstance
        /\ JoinRoom(redis[r], p, i, max).peers = [redis[r].peers EXCEPT ![p] = i]
    BY <1>1, <1>8, JoinRoomPeers
  <2>2. \A rr \in Rooms, pp \in Peers :
          redis'[rr].peers[pp] = IF rr = r /\ pp = p THEN i ELSE redis[rr].peers[pp]
    <3>1. redis'[r].peers = [redis[r].peers EXCEPT ![p] = i]
      BY <1>1, <2>1 DEF RedisJoin, RegistrationInv, HandlerInv, TypeOK
    <3>2. \A rr \in Rooms \ {r} : redis'[rr] = redis[rr]
      BY <1>1 DEF RedisJoin, RegistrationInv, HandlerInv, TypeOK
    <3> QED BY <1>1, <3>1, <3>2 DEF RedisRoom
  <2>3. \A k \in Joins : Holds(k) => ~(request[k].room = r /\ request[k].peer = p)
    BY <2>1, HolderRequest, NoInstanceIsNone DEF RegistrationInv, HoldersOwn
  <2>4. HoldersOwn'
    <3>1. ASSUME NEW k \in Joins, Holds(k)'
          PROVE  redis'[request[k].room].peers[request[k].peer] = InstanceOf(k)
      <4>1. CASE k = j
        BY <1>1, <2>2, <4>1
      <4>2. CASE k # j
        <5>1. Holds(k) /\ request[k].room \in Rooms /\ request[k].peer \in Peers
          BY <1>5, <3>1, <4>2, HolderRequest DEF RegistrationInv
        <5> QED BY <2>2, <2>3, <5>1 DEF RegistrationInv, HoldersOwn
      <4> QED BY <4>1, <4>2
    <3> QED BY <1>3, <3>1 DEF HoldersOwn, InstanceOf
  <2>5. HoldersDiffer'
    BY <1>3, <1>5, <2>3 DEF RegistrationInv, HoldersDiffer
  <2> QED BY <1>7, <2>4, <2>5 DEF Registered
<1>9. CASE verdict # "joined"
  <2>1. \A k \in Joins : Holds(k)' <=> Holds(k)
    BY <1>2, <1>5, <1>6, <1>9
  <2>2. \A rr \in Rooms : redis'[rr].peers = redis[rr].peers
    <3>1. JoinRoom(redis[r], p, i, max).peers = redis[r].peers
      BY <1>1, <1>9, JoinRoomPeers
    <3> QED BY <1>1, <3>1 DEF RedisJoin, RegistrationInv, HandlerInv, TypeOK
  <2>3. HoldersOwn'
    BY <1>3, <2>1, <2>2, HolderRequest DEF RegistrationInv, HoldersOwn, InstanceOf
  <2>4. HoldersDiffer'
    BY <1>3, <2>1 DEF RegistrationInv, HoldersDiffer
  <2> QED BY <1>7, <2>3, <2>4 DEF Registered
<1> QED BY <1>8, <1>9

(* The leave script clears the entry of the one join that holds it. *)
LEMMA RedisLeaveRegistered ==
  ASSUME RegistrationInv, NEW j \in Joins, RedisLeave(j)
  PROVE  Registered'
<1> DEFINE r == request[j].room
           p == request[j].peer
<1>1. Holds(j) /\ ~Present(j)
  BY DEF RedisLeave, RegistrationInv, HandlerInv, HandlersAgree, Holds, Present
<1>2. r \in Rooms /\ p \in Peers
  BY <1>1, HolderRequest DEF RegistrationInv
<1>3. /\ request' = request /\ rooms' = rooms /\ answer' = answer /\ joinPc' = joinPc
      /\ reply' = reply /\ leavePc'[j] = "left"
      /\ \A k \in Joins \ {j} : leavePc'[k] = leavePc[k]
  BY DEF RedisLeave, RegistrationInv, HandlerInv, TypeOK, serverVars
<1>4. ~Holds(j)'
  BY <1>3 DEF RedisLeave, RegistrationInv, HandlerInv, HandlersAgree, JoinPcs, Holds
<1>5. \A k \in Joins \ {j} : Holds(k)' <=> Holds(k)
  BY <1>3 DEF Holds
<1>6. \A k \in Joins : Present(k)' <=> Present(k)
  BY <1>1, <1>3 DEF Present
<1>7. HoldersOwn'
  <2>1. \A rr \in Rooms, pp \in Peers :
          ~(rr = r /\ pp = p) => redis'[rr].peers[pp] = redis[rr].peers[pp]
    <3>1. redis'[r].peers = [redis[r].peers EXCEPT ![p] = NoInstance]
      BY <1>2, LeaveRoomPeers DEF RedisLeave, RegistrationInv, HandlerInv, TypeOK
    <3>2. \A rr \in Rooms \ {r} : redis'[rr] = redis[rr]
      BY <1>2 DEF RedisLeave, RegistrationInv, HandlerInv, TypeOK
    <3> QED BY <1>2, <3>1, <3>2 DEF RegistrationInv, HandlerInv, TypeOK, RedisRoom
  <2>2. ASSUME NEW k \in Joins, Holds(k)'
        PROVE  redis'[request[k].room].peers[request[k].peer] = InstanceOf(k)
    <3>1. k # j /\ Holds(k) /\ request[k].room \in Rooms /\ request[k].peer \in Peers
      BY <1>4, <1>5, <2>2, HolderRequest DEF RegistrationInv
    <3>2. ~(request[k].room = r /\ request[k].peer = p)
      BY <1>1, <3>1 DEF RegistrationInv, HoldersDiffer
    <3> QED BY <2>1, <3>1, <3>2 DEF RegistrationInv, HoldersOwn
  <2> QED BY <1>3, <2>2 DEF HoldersOwn, InstanceOf
<1>8. HoldersDiffer'
  BY <1>3, <1>4, <1>5 DEF RegistrationInv, HoldersDiffer
<1>9. RegisteredArePresent' /\ PresentAreRegistered'
  BY <1>3, <1>6 DEF RegistrationInv, RegisteredArePresent, PresentAreRegistered, Asks, InstanceOf
<1> QED BY <1>7, <1>8, <1>9 DEF Registered

(* The installation registers the join that Redis admitted, over nobody. *)
LEMMA InstallRegistered ==
  ASSUME RegistrationInv, NEW j \in Joins, Install(j)
  PROVE  Registered'
<1> DEFINE i == InstanceOf(j)
           r == request[j].room
           p == request[j].peer
           s == request[j].socket
<1>1. i \in Instances /\ r \in Rooms /\ p \in Peers /\ s \in Sockets
  BY HandlerRequest DEF Install, RegistrationInv
<1>2. Holds(j) /\ ~Present(j) /\ leavePc[j] = "none"
  BY DEF Install, RegistrationInv, HandlerInv, TypeOK, LeavePcs, HandlersAgree, JoinPcs, Holds, Present
<1>3. /\ redis' = redis /\ request' = request /\ leavePc' = leavePc
      /\ \A k \in Joins \ {j} : /\ joinPc'[k] = joinPc[k]
                                /\ reply'[k] = reply[k]
                                /\ answer'[k] = answer[k]
      /\ answer'[j] = "joined"
  BY DEF Install, RegistrationInv, HandlerInv, TypeOK, redisVars
<1>4. \A ii \in Instances, rr \in Rooms, pp \in Peers :
        rooms'[ii][rr][pp] = IF ii = i /\ rr = r /\ pp = p THEN s ELSE rooms[ii][rr][pp]
  <2>1. rooms' = [rooms EXCEPT ![i][r][p] = s]
    BY DEF Install
  <2> HIDE DEF i, r, p, s
  <2> QED BY <1>1, <2>1 DEF RegistrationInv, HandlerInv, TypeOK
<1>5. \A k \in Joins : Holds(k)' <=> Holds(k)
  BY <1>2, <1>3 DEF Holds
<1>6. \A k \in Joins : Present(k)' <=> Present(k) \/ k = j
  BY <1>2, <1>3 DEF Present
<1>7. HoldersOwn' /\ HoldersDiffer'
  BY <1>3, <1>5 DEF RegistrationInv, HoldersOwn, HoldersDiffer, InstanceOf
<1>8. RegisteredArePresent'
  <2> SUFFICES ASSUME NEW ii \in Instances, NEW rr \in Rooms, NEW pp \in Peers,
                      rooms'[ii][rr][pp] # NoSocket
               PROVE  \E k \in Joins : /\ Present(k)' /\ Asks(k, rr, pp)'
                                       /\ request'[k].socket = rooms'[ii][rr][pp]
                                       /\ InstanceOf(k)' = ii
    BY DEF RegisteredArePresent
  <2>1. CASE ii = i /\ rr = r /\ pp = p
    BY <1>3, <1>4, <1>6, <2>1 DEF Asks, InstanceOf
  <2>2. CASE ~(ii = i /\ rr = r /\ pp = p)
    BY <1>3, <1>4, <1>6, <2>2 DEF RegistrationInv, RegisteredArePresent, Asks, InstanceOf
  <2> QED BY <2>1, <2>2
<1>9. PresentAreRegistered'
  <2> SUFFICES ASSUME NEW k \in Joins, Present(k)'
               PROVE  rooms'[InstanceOf(k)][request[k].room][request[k].peer] = request[k].socket
    BY <1>3 DEF PresentAreRegistered, InstanceOf
  <2>1. CASE k = j
    BY <1>1, <1>4, <2>1
  <2>2. CASE k # j
    <3>1. Present(k) /\ Holds(k)
      BY <1>6, <2>2, PresentHolds
    <3>2. ~(request[k].room = r /\ request[k].peer = p)
      BY <1>2, <2>2, <3>1 DEF RegistrationInv, HoldersDiffer
    <3> QED BY <1>4, <3>1, <3>2, HolderRequest DEF RegistrationInv, PresentAreRegistered
  <2> QED BY <2>1, <2>2
<1> QED BY <1>7, <1>8, <1>9 DEF Registered

(* The first stretch of a leave finds its own entry in the registry. *)
LEMMA RemovePeerRegistered ==
  ASSUME RegistrationInv, NEW s \in Sockets, contexts[s] # NoJoin,
         RemovePeerFromRoom(contexts[s]), LeaveUnchanged
  PROVE  Registered'
<1> DEFINE j == contexts[s]
           i == InstanceOf(j)
           r == request[j].room
           p == request[j].peer
<1>1. j \in Joins /\ Present(j) /\ Holds(j) /\ request[j].socket = s
  BY PresentHolds DEF RegistrationInv, HandlerInv, TypeOK, ContextsArePresent
<1>2. i \in Instances /\ r \in Rooms /\ p \in Peers
  BY <1>1, HolderRequest DEF RegistrationInv
<1>3. LocalPeers(i, r) # {}
  <2>1. rooms[i][r][p] = s
    BY <1>1 DEF RegistrationInv, PresentAreRegistered
  <2> QED BY <1>2, <2>1, NoneIsNothing DEF LocalPeers
<1>4. /\ redis' = redis /\ request' = request /\ answer' = answer /\ joinPc' = joinPc /\ reply' = reply
      /\ leavePc'[j] = "leaving"
      /\ \A k \in Joins \ {j} : leavePc'[k] = leavePc[k]
  BY <1>1, <1>3 DEF RemovePeerFromRoom, LeaveUnchanged, redisVars, RegistrationInv, HandlerInv, TypeOK
<1>5. \A ii \in Instances, rr \in Rooms, pp \in Peers :
        rooms'[ii][rr][pp] = IF ii = i /\ rr = r /\ pp = p THEN NoSocket ELSE rooms[ii][rr][pp]
  <2>1. rooms' = [rooms EXCEPT ![i][r][p] = NoSocket]
    BY <1>3 DEF RemovePeerFromRoom
  <2> HIDE DEF i, r, p
  <2> QED BY <1>2, <2>1 DEF RegistrationInv, HandlerInv, TypeOK
<1>6. \A k \in Joins : Holds(k)' <=> Holds(k)
  BY <1>1, <1>4 DEF Holds, Present
<1>7. \A k \in Joins : Present(k)' <=> Present(k) /\ k # j
  BY <1>4 DEF Present
<1>8. HoldersOwn' /\ HoldersDiffer'
  BY <1>4, <1>6 DEF RegistrationInv, HoldersOwn, HoldersDiffer, InstanceOf
<1>9. RegisteredArePresent'
  <2> SUFFICES ASSUME NEW ii \in Instances, NEW rr \in Rooms, NEW pp \in Peers,
                      rooms'[ii][rr][pp] # NoSocket
               PROVE  \E k \in Joins : /\ Present(k)' /\ Asks(k, rr, pp)'
                                       /\ request'[k].socket = rooms'[ii][rr][pp]
                                       /\ InstanceOf(k)' = ii
    BY DEF RegisteredArePresent
  <2>1. ~(ii = i /\ rr = r /\ pp = p) /\ rooms'[ii][rr][pp] = rooms[ii][rr][pp]
    BY <1>5
  <2>2. PICK k \in Joins : /\ Present(k) /\ Asks(k, rr, pp)
                           /\ request[k].socket = rooms[ii][rr][pp] /\ InstanceOf(k) = ii
    BY <2>1 DEF RegistrationInv, RegisteredArePresent
  <2>3. k # j
    BY <2>1, <2>2 DEF Asks
  <2> QED BY <1>4, <1>7, <2>1, <2>2, <2>3 DEF Asks, InstanceOf
<1>10. PresentAreRegistered'
  <2> SUFFICES ASSUME NEW k \in Joins, Present(k)'
               PROVE  rooms'[InstanceOf(k)][request[k].room][request[k].peer] = request[k].socket
    BY <1>4 DEF PresentAreRegistered, InstanceOf
  <2>1. k # j /\ Present(k) /\ Holds(k)
    BY <1>7, PresentHolds
  <2>2. ~(request[k].room = r /\ request[k].peer = p)
    BY <1>1, <2>1 DEF RegistrationInv, HoldersDiffer
  <2> QED BY <1>5, <2>1, <2>2, HolderRequest DEF RegistrationInv, PresentAreRegistered
<1> QED BY <1>8, <1>9, <1>10 DEF Registered

(* The stretches of a join that only move it along, or refuse it. *)
LEMMA JoinStepRegistered ==
  ASSUME RegistrationInv, NEW j \in Joins, AuthorizationFails(j) \/ JoinStep(j)
  PROVE  Registered'
<1> DEFINE quiet == /\ redis' = redis /\ rooms' = rooms /\ request' = request /\ leavePc' = leavePc
                    /\ ~Holds(j) /\ ~Present(j) /\ ~Holds(j)' /\ ~Present(j)'
                    /\ \A k \in Joins \ {j} : /\ joinPc'[k] = joinPc[k]
                                              /\ reply'[k] = reply[k]
                                              /\ answer'[k] = answer[k]
<1> USE DEF redisVars, wireVars, serverVars, coordinatorVars
<1>1. CASE quiet
  <2>1. \A k \in Joins \ {j} : (Holds(k)' <=> Holds(k)) /\ (Present(k)' <=> Present(k))
    BY <1>1 DEF Holds, Present
  <2> QED BY <1>1, <2>1, QuietStep
<1>2. CASE AuthorizationFails(j) \/ RefuseNewRoom(j)
  <2>1. joinPc[j] = "authorizing" /\ answer[j] = "none"
    BY <1>2 DEF AuthorizationFails, RefuseNewRoom, RegistrationInv, HandlerInv, HandlersAgree, JoinPcs
  <2>2. /\ joinPc' = [joinPc EXCEPT ![j] = "done"]
        /\ answer'[j] \in {"AUTH_FAILED", "ROOM_LIMIT"}
        /\ \A k \in Joins \ {j} : answer'[k] = answer[k]
        /\ redis' = redis /\ rooms' = rooms /\ request' = request /\ leavePc' = leavePc /\ reply' = reply
    BY <1>2 DEF AuthorizationFails, RefuseNewRoom, Finish, RegistrationInv, HandlerInv, TypeOK
  <2>3. quiet
    BY <2>1, <2>2 DEF Holds, Present, RegistrationInv, HandlerInv, TypeOK
  <2> QED BY <1>1, <2>3
<1>3. CASE ShareSubscription(j) \/ SendSubscribe(j) \/ Subscribed(j)
  <2>1. joinPc[j] \in {"authorizing", "subscribing"} /\ answer[j] = "none"
    BY <1>3 DEF ShareSubscription, SendSubscribe, Subscribed, RegistrationInv, HandlerInv,
       HandlersAgree, JoinPcs
  <2>2. /\ joinPc'[j] \in {"subscribing", "joining"}
        /\ \A k \in Joins \ {j} : joinPc'[k] = joinPc[k]
        /\ redis' = redis /\ rooms' = rooms /\ request' = request /\ leavePc' = leavePc
        /\ reply' = reply /\ answer' = answer
    BY <1>3 DEF ShareSubscription, SendSubscribe, Subscribed, RegistrationInv, HandlerInv, TypeOK
  <2>3. quiet
    BY <2>1, <2>2 DEF Holds, Present
  <2> QED BY <1>1, <2>3
<1>4. CASE GiveBackSubscription(j) \/ RefuseJoin(j)
  <2>1. joinPc[j] \in {"replied", "unsubscribing"} /\ answer[j] = "none" /\ reply[j].code # "joined"
    BY <1>4 DEF GiveBackSubscription, RefuseJoin, RegistrationInv, HandlerInv, HandlersAgree, JoinPcs
  <2>2. /\ joinPc'[j] \in {"unsubscribing", "done"} /\ answer'[j] # "joined"
        /\ \A k \in Joins \ {j} : /\ joinPc'[k] = joinPc[k]
                                  /\ reply'[k] = reply[k]
                                  /\ answer'[k] = answer[k]
        /\ redis' = redis /\ rooms' = rooms /\ request' = request /\ leavePc' = leavePc
    BY <1>4, <2>1 DEF GiveBackSubscription, RefuseJoin, Finish, RegistrationInv, HandlerInv, TypeOK
  <2>3. quiet
    BY <2>1, <2>2 DEF Holds, Present
  <2> QED BY <1>1, <2>3
<1>5. CASE RedisPublishJoined(j)
  <2>1. /\ redis' = redis /\ rooms' = rooms /\ request' = request /\ leavePc' = leavePc
        /\ reply' = reply /\ answer' = answer /\ joinPc[j] = "publishing" /\ joinPc'[j] = "done"
        /\ \A k \in Joins \ {j} : joinPc'[k] = joinPc[k]
    BY <1>5 DEF RedisPublishJoined, RegistrationInv, HandlerInv, TypeOK
  <2>2. \A k \in Joins : (Holds(k)' <=> Holds(k)) /\ (Present(k)' <=> Present(k))
    BY <2>1 DEF Holds, Present
  <2> QED BY <2>1, <2>2, QuietStep
<1> HIDE DEF quiet
<1> QED
  BY <1>2, <1>3, <1>4, <1>5, InstallRegistered, RedisJoinRegistered DEF JoinStep

(* The stretches of a leave after its script only move it along. *)
LEMMA LeaveStepRegistered ==
  ASSUME RegistrationInv, NEW j \in Joins, LeaveStep(j)
  PROVE  Registered'
<1>1. CASE AnnounceDeparture(j) \/ LeaveChannel(j) \/ ChannelLeft(j) \/ RedisPublishLeft(j)
  <2>1. /\ redis' = redis /\ rooms' = rooms /\ request' = request /\ joinPc' = joinPc
        /\ reply' = reply /\ answer' = answer
        /\ leavePc[j] \notin {"none", "leaving"} /\ leavePc'[j] \notin {"none", "leaving"}
        /\ \A k \in Joins \ {j} : leavePc'[k] = leavePc[k]
    BY <1>1 DEF AnnounceDeparture, LeaveChannel, ChannelLeft, RedisPublishLeft,
       RegistrationInv, HandlerInv, TypeOK, redisVars, serverVars
  <2>2. \A k \in Joins : (Holds(k)' <=> Holds(k)) /\ (Present(k)' <=> Present(k))
    BY <2>1 DEF Holds, Present
  <2> QED BY <2>1, <2>2, QuietStep
<1> QED BY <1>1, RedisLeaveRegistered DEF LeaveStep

(* A join message changes nothing but its own handler. *)
LEMMA ReceiveRegistered ==
  ASSUME RegistrationInv, NEW j \in Joins, NEW q \in Requests,
         RefuseSecondJoin(j, q) \/ ReceiveJoin(j, q)
  PROVE  Registered'
<1>1. /\ redis' = redis /\ rooms' = rooms /\ leavePc' = leavePc /\ reply' = reply
      /\ joinPc[j] = "idle" /\ joinPc'[j] \in {"authorizing", "done"}
      /\ answer'[j] \in {answer[j], "ALREADY_JOINED"}
      /\ \A k \in Joins \ {j} : /\ joinPc'[k] = joinPc[k]
                                /\ request'[k] = request[k]
                                /\ answer'[k] = answer[k]
  BY DEF RefuseSecondJoin, ReceiveJoin, Finish, RegistrationInv, HandlerInv, TypeOK, redisVars, serverVars
<1>2. answer[j] = "none"
  BY <1>1 DEF RegistrationInv, HandlerInv, HandlersAgree, JoinPcs
<1>3. ~Holds(j) /\ ~Holds(j)' /\ ~Present(j) /\ ~Present(j)'
  BY <1>1, <1>2 DEF Holds, Present
<1>4. \A k \in Joins \ {j} : (Holds(k)' <=> Holds(k)) /\ (Present(k)' <=> Present(k))
  BY <1>1 DEF Holds, Present
<1> QED BY <1>1, <1>3, <1>4, QuietStep

(* Every step keeps every entry with its one join. *)
LEMMA StepRegistered == RegistrationInv /\ [Next]_vars => RegistrationInv'
<1> SUFFICES ASSUME RegistrationInv, [Next]_vars PROVE RegistrationInv'
  OBVIOUS
<1>1. HandlerInv'
  BY StepKeepsHandlerInv DEF RegistrationInv
<1>2. ASSUME NEW s \in Sockets, Leave(s) \/ CloseJoined(s) PROVE Registered'
  BY <1>2, RemovePeerRegistered DEF Leave, CloseJoined
<1>3. ASSUME \/ UNCHANGED vars
             \/ \E s \in Sockets : CloseUnjoined(s)
             \/ \E i \in Instances : RedisSubscription(i) \/ Deliver(i)
      PROVE  Registered'
  <2>1. /\ redis' = redis /\ rooms' = rooms /\ request' = request /\ joinPc' = joinPc
        /\ leavePc' = leavePc /\ reply' = reply /\ answer' = answer
    BY <1>3 DEF CloseUnjoined, LeaveUnchanged, RedisSubscription, Deliver, vars, redisVars, serverVars,
       handlerVars
  <2>2. \A k \in Joins : (Holds(k)' <=> Holds(k)) /\ (Present(k)' <=> Present(k))
    BY <2>1 DEF Holds, Present
  <2> QED BY <2>1, <2>2, QuietStep
<1>4. Registered'
  BY <1>2, <1>3, ReceiveRegistered, JoinStepRegistered, LeaveStepRegistered DEF Next
<1> QED BY <1>1, <1>4 DEF RegistrationInv, Registered

(* Every entry Redis keeps, every registry entry and every context comes
   from one join, in every state the handlers pass through.                *)
THEOREM RegistrationCorrect == Spec => []Registration
<1>1. RegistrationInv => Registration
  BY DEF RegistrationInv, HandlerInv, Registration
<1> QED
  BY <1>1, InitRegistered, StepRegistered, PTL DEF Spec

(* A registered socket is backed by a Redis entry of its own relay. *)
THEOREM RegistryBackedCorrect == Spec => []RegistryBacked
<1>1. Registration => RegistryBacked
  BY PresentHolds DEF Registration, HoldersOwn, RegisteredArePresent, RegistryBacked, Asks
<1> QED
  BY <1>1, RegistrationCorrect, PTL

(* A peer id of a room is registered on one relay at most. *)
THEOREM HolderUniqueCorrect == Spec => []HolderUnique
<1>1. RegistryBacked => HolderUnique
  BY DEF RegistryBacked, HolderUnique
<1> QED
  BY <1>1, RegistryBackedCorrect, PTL

(* A socket's context has its registry entry, so no leave is skipped. *)
THEOREM ContextRegisteredCorrect == Spec => []ContextRegistered
<1>1. TypeOK /\ Registration => ContextRegistered
  BY DEF TypeOK, Registration, ContextsArePresent, PresentAreRegistered, ContextRegistered, InstanceOf
<1> QED
  BY <1>1, TypeCorrect, RegistrationCorrect, PTL
-----------------------------------------------------------------------------
(***************************************************************************)
(* Nothing leaks: with no handler running, the server's registry, the      *)
(* coordinator's and Redis name the same members.  RegistryBacked gives    *)
(* one direction in every state; the other needs that every field in Redis *)
(* has a join that will clear it, and holds at rest only.                  *)
(***************************************************************************)

(* A field in Redis has a join that holds it. *)
EntriesAreHeld ==
  \A r \in Rooms, p \in Peers :
    redis[r].peers[p] # NoInstance => \E j \in Joins : Holds(j) /\ Asks(j, r, p)

(* The coordinator's registry follows the server's step by step. *)
LocalRoomsAgree ==
  \A i \in Instances, r \in Rooms : localRooms[i][r].peers = LocalPeers(i, r)

ExactnessInv == RegistrationInv /\ EntriesAreHeld /\ LocalRoomsAgree

(* At first there is neither a field nor a registered peer. *)
LEMMA InitExact == Init => ExactnessInv
<1> SUFFICES ASSUME Init PROVE ExactnessInv
  OBVIOUS
<1>1. EntriesAreHeld /\ LocalRoomsAgree
  BY DEF Init, EmptyRoom, EntriesAreHeld, LocalRoomsAgree, LocalPeers
<1> QED BY <1>1, InitRegistered DEF ExactnessInv

(* Holders other than the join of the leave script keep what they hold. *)
LEMMA HoldersKept ==
  ASSUME RegistrationInv, [Next]_vars, NEW k \in Joins, Holds(k), ~RedisLeave(k)
  PROVE  Holds(k)' /\ request'[k] = request[k]
<1> USE DEF RegistrationInv, HandlerInv, Holds
<1>1. \/ joinPc[k] = "replied" /\ reply[k].code = "joined"
      \/ answer[k] = "joined" /\ joinPc[k] \in {"publishing", "done"} /\ leavePc[k] \in {"none", "leaving"}
  BY DEF HandlersAgree, JoinPcs, TypeOK
<1>2. ASSUME NEW j \in Joins, NEW q \in Requests, RefuseSecondJoin(j, q) \/ ReceiveJoin(j, q)
      PROVE  Holds(k)' /\ request'[k] = request[k]
  BY <1>1, <1>2 DEF RefuseSecondJoin, ReceiveJoin, Finish, TypeOK
<1>3. ASSUME NEW j \in Joins, AuthorizationFails(j) \/ JoinStep(j)
      PROVE  Holds(k)' /\ request'[k] = request[k]
  <2>1. request' = request /\ leavePc' = leavePc
    BY <1>3 DEF JoinStep, AuthorizationFails, RefuseNewRoom, ShareSubscription, SendSubscribe,
       Subscribed, Install, GiveBackSubscription, RefuseJoin, RedisJoin, RedisPublishJoined
  <2>2. CASE k # j
    <3>1. joinPc'[k] = joinPc[k] /\ reply'[k] = reply[k] /\ answer'[k] = answer[k]
      BY <1>3, <2>2 DEF JoinStep, AuthorizationFails, RefuseNewRoom, ShareSubscription, SendSubscribe,
         Subscribed, Install, GiveBackSubscription, RefuseJoin, RedisJoin, RedisPublishJoined,
         Finish, TypeOK
    <3> QED BY <2>1, <3>1
  <2>3. CASE k = j
    <3>1. Install(k) \/ RedisPublishJoined(k)
      BY <1>1, <1>3, <2>3 DEF JoinStep, AuthorizationFails, RefuseNewRoom, ShareSubscription,
         SendSubscribe, Subscribed, GiveBackSubscription, RefuseJoin, RedisJoin
    <3>2. answer'[k] = "joined" /\ leavePc[k] \in {"none", "leaving"}
      BY <1>1, <3>1 DEF Install, RedisPublishJoined, TypeOK, HandlersAgree, JoinPcs, LeavePcs
    <3> QED BY <2>1, <3>2
  <2> QED BY <2>2, <2>3
<1>4. ASSUME NEW j \in Joins, LeaveStep(j) PROVE Holds(k)' /\ request'[k] = request[k]
  <2>1. /\ request' = request /\ joinPc' = joinPc /\ reply' = reply /\ answer' = answer
        /\ leavePc[k] \in {"none", "leaving"} => leavePc'[k] = leavePc[k]
    BY <1>4 DEF LeaveStep, AnnounceDeparture, LeaveChannel, ChannelLeft, RedisLeave, RedisPublishLeft, TypeOK
  <2> QED BY <2>1
<1>5. ASSUME NEW s \in Sockets, Leave(s) \/ CloseJoined(s) \/ CloseUnjoined(s)
      PROVE  Holds(k)' /\ request'[k] = request[k]
  <2>1. /\ request' = request /\ joinPc' = joinPc /\ reply' = reply /\ answer' = answer
        /\ leavePc'[k] \in {leavePc[k], "leaving"}
    BY <1>5 DEF Leave, CloseJoined, CloseUnjoined, LeaveUnchanged, RemovePeerFromRoom, TypeOK
  <2> QED BY <2>1
<1>6. ASSUME UNCHANGED vars \/ \E i \in Instances : RedisSubscription(i) \/ Deliver(i)
      PROVE  Holds(k)' /\ request'[k] = request[k]
  BY <1>6 DEF vars, handlerVars, RedisSubscription, Deliver
<1> QED BY <1>2, <1>3, <1>4, <1>5, <1>6 DEF Next

(* The join script writes a field its own join then holds, the leave script
   clears one, and no other step touches Redis.                            *)
LEMMA StepKeepsEntries ==
  ASSUME ExactnessInv, [Next]_vars
  PROVE  EntriesAreHeld'
<1> USE DEF ExactnessInv, RegistrationInv, HandlerInv
<1> SUFFICES ASSUME NEW r \in Rooms, NEW p \in Peers, redis'[r].peers[p] # NoInstance
             PROVE  \E j \in Joins : Holds(j)' /\ Asks(j, r, p)'
  BY DEF EntriesAreHeld
<1>0. redis \in [Rooms -> RedisRoom]
  BY DEF TypeOK
<1>1. ASSUME redis[r].peers[p] # NoInstance,
             \A j \in Joins : RedisLeave(j) => ~Asks(j, r, p)
      PROVE  \E j \in Joins : Holds(j)' /\ Asks(j, r, p)'
  <2>1. PICK j \in Joins : Holds(j) /\ Asks(j, r, p)
    BY <1>1 DEF EntriesAreHeld
  <2>2. Holds(j)' /\ request'[j] = request[j]
    BY <1>1, <2>1, HoldersKept
  <2> QED BY <2>1, <2>2 DEF Asks
<1>2. ASSUME NEW j \in Joins, RedisLeave(j)
      PROVE  \E k \in Joins : Holds(k)' /\ Asks(k, r, p)'
  <2>1. request[j].room \in Rooms /\ request[j].peer \in Peers
    BY <1>2, HandlerRequest DEF RedisLeave
  <2>2. redis' = [redis EXCEPT ![request[j].room] = LeaveRoom(redis[request[j].room], request[j].peer)]
    BY <1>2 DEF RedisLeave
  <2>3. ~Asks(j, r, p) /\ redis[r].peers[p] # NoInstance
    <3>1. redis'[request[j].room].peers = [redis[request[j].room].peers EXCEPT ![request[j].peer] = NoInstance]
      BY <1>0, <2>1, <2>2, LeaveRoomPeers
    <3>2. r # request[j].room => redis'[r] = redis[r]
      BY <1>0, <2>2
    <3> QED BY <1>0, <2>1, <3>1, <3>2 DEF Asks, RedisRoom
  <2>4. PICK k \in Joins : Holds(k) /\ Asks(k, r, p)
    BY <2>3 DEF EntriesAreHeld
  <2>5. ~RedisLeave(k)
    <3>1. k # j
      BY <2>3, <2>4
    <3> QED BY <1>2, <3>1 DEF RedisLeave, TypeOK
  <2>6. Holds(k)' /\ request'[k] = request[k]
    BY <2>4, <2>5, HoldersKept
  <2> QED BY <2>4, <2>6 DEF Asks
<1>3. ASSUME NEW j \in Joins, RedisJoin(j)
      PROVE  \E k \in Joins : Holds(k)' /\ Asks(k, r, p)'
  <2> DEFINE room == request[j].room
             peer == request[j].peer
             max == request[j].maxPeers
  <2>1. room \in Rooms /\ peer \in Peers /\ max \in Nat /\ InstanceOf(j) \in Instances
    BY <1>3, HandlerRequest DEF RedisJoin
  <2>2. /\ redis' = [redis EXCEPT ![room] = JoinRoom(redis[room], peer, InstanceOf(j), max)]
        /\ joinPc'[j] = "replied" /\ request' = request
        /\ reply'[j].code = JoinVerdict(redis[room], peer, max)
    BY <1>3 DEF RedisJoin, TypeOK
  <2>3. CASE redis[r].peers[p] # NoInstance
    <3>1. \A k \in Joins : ~RedisLeave(k)
      BY <1>3 DEF RedisJoin, RedisLeave, TypeOK, JoinPcs
    <3> QED BY <1>1, <2>3, <3>1
  <2>4. CASE redis[r].peers[p] = NoInstance
    <3>1. redis[room] \in RedisRoom
      BY <1>0, <2>1
    <3>2. JoinVerdict(redis[room], peer, max) = "joined"
      <4> SUFFICES ASSUME JoinVerdict(redis[room], peer, max) # "joined" PROVE FALSE
        OBVIOUS
      <4>1. JoinRoom(redis[room], peer, InstanceOf(j), max).peers = redis[room].peers
        BY <2>1, <3>1, JoinRoomPeers
      <4> QED BY <1>0, <2>1, <2>2, <2>4, <4>1
    <3>3. r = room /\ p = peer
      <4>1. JoinRoom(redis[room], peer, InstanceOf(j), max).peers
              = [redis[room].peers EXCEPT ![peer] = InstanceOf(j)]
        BY <2>1, <3>1, <3>2, JoinRoomPeers
      <4> QED BY <1>0, <2>1, <2>2, <2>4, <4>1 DEF RedisRoom
    <3> QED BY <2>2, <3>2, <3>3 DEF Holds, Asks
  <2> QED BY <2>3, <2>4
<1>4. CASE redis' = redis /\ \A j \in Joins : ~RedisLeave(j)
  BY <1>1, <1>4
<1>5. \/ \E j \in Joins : RedisJoin(j) \/ RedisLeave(j)
      \/ redis' = redis
  BY DEF Next, vars, redisVars, JoinStep, LeaveStep, RefuseSecondJoin, ReceiveJoin, AuthorizationFails,
     RefuseNewRoom, ShareSubscription, SendSubscribe, Subscribed, Install, GiveBackSubscription,
     RefuseJoin, RedisPublishJoined, AnnounceDeparture, LeaveChannel, ChannelLeft, RedisPublishLeft,
     Leave, CloseJoined, CloseUnjoined, LeaveUnchanged, RedisSubscription, Deliver
<1> QED BY <1>2, <1>3, <1>4, <1>5

(* The installation and the first stretch of a leave write both registries,
   and no other step writes either.                                        *)
LEMMA StepKeepsLocalRooms ==
  ASSUME ExactnessInv, [Next]_vars
  PROVE  LocalRoomsAgree'
<1> USE DEF ExactnessInv, RegistrationInv, HandlerInv
<1> SUFFICES ASSUME NEW i \in Instances, NEW r \in Rooms
             PROVE  localRooms'[i][r].peers = LocalPeers(i, r)'
  BY DEF LocalRoomsAgree
<1>0. localRooms[i][r].peers = LocalPeers(i, r)
  BY DEF LocalRoomsAgree
<1>1. ASSUME NEW j \in Joins, Install(j) PROVE localRooms'[i][r].peers = LocalPeers(i, r)'
  <2>1. /\ InstanceOf(j) \in Instances /\ request[j].room \in Rooms
        /\ request[j].peer \in Peers /\ request[j].socket \in Sockets
    BY <1>1, HandlerRequest DEF Install
  <2>2. CASE i = InstanceOf(j) /\ r = request[j].room
    <3>1. localRooms'[i][r].peers = localRooms[i][r].peers \cup {request[j].peer}
      BY <1>1, <2>2 DEF Install, TypeOK
    <3>2. \A p \in Peers : rooms'[i][r][p] = IF p = request[j].peer THEN request[j].socket ELSE rooms[i][r][p]
      BY <1>1, <2>1, <2>2 DEF Install, TypeOK
    <3> QED BY <1>0, <2>1, <3>1, <3>2, NoneIsNothing DEF LocalPeers
  <2>3. CASE ~(i = InstanceOf(j) /\ r = request[j].room)
    <3>1. localRooms'[i][r] = localRooms[i][r] /\ rooms'[i][r] = rooms[i][r]
      BY <1>1, <2>1, <2>3 DEF Install, TypeOK
    <3> QED BY <1>0, <3>1 DEF LocalPeers
  <2> QED BY <2>2, <2>3
<1>2. ASSUME NEW s \in Sockets, Leave(s) \/ CloseJoined(s)
      PROVE  localRooms'[i][r].peers = LocalPeers(i, r)'
  <2>1. PICK j \in Joins : contexts[s] = j /\ Holds(j)
    BY <1>2, PresentHolds DEF Leave, CloseJoined, TypeOK, ContextsArePresent
  <2>2. RemovePeerFromRoom(j)
    BY <1>2, <2>1 DEF Leave, CloseJoined
  <2>3. CASE LocalPeers(InstanceOf(j), request[j].room) = {}
    BY <1>0, <2>2, <2>3 DEF RemovePeerFromRoom, LocalPeers
  <2>4. CASE LocalPeers(InstanceOf(j), request[j].room) # {}
    <3>1. /\ InstanceOf(j) \in Instances /\ request[j].room \in Rooms /\ request[j].peer \in Peers
      BY <2>1, HolderRequest
    <3>2. /\ rooms' = [rooms EXCEPT ![InstanceOf(j)][request[j].room][request[j].peer] = NoSocket]
          /\ localRooms' = [localRooms EXCEPT ![InstanceOf(j)][request[j].room] =
               [peers    |-> @.peers \ {request[j].peer},
                capacity |-> IF @.peers \subseteq {request[j].peer} THEN NoCapacity ELSE @.capacity]]
      BY <2>2, <2>4 DEF RemovePeerFromRoom
    <3>3. CASE i = InstanceOf(j) /\ r = request[j].room
      <4>1. localRooms'[i][r].peers = localRooms[i][r].peers \ {request[j].peer}
        BY <3>2, <3>3 DEF TypeOK
      <4>2. \A p \in Peers : rooms'[i][r][p] = IF p = request[j].peer THEN NoSocket ELSE rooms[i][r][p]
        BY <3>1, <3>2, <3>3 DEF TypeOK
      <4> QED BY <1>0, <3>1, <4>1, <4>2 DEF LocalPeers
    <3>4. CASE ~(i = InstanceOf(j) /\ r = request[j].room)
      <4>1. localRooms'[i][r] = localRooms[i][r] /\ rooms'[i][r] = rooms[i][r]
        BY <3>1, <3>2, <3>4 DEF TypeOK
      <4> QED BY <1>0, <4>1 DEF LocalPeers
    <3> QED BY <3>3, <3>4
  <2> QED BY <2>3, <2>4
<1>3. \/ \E j \in Joins : Install(j)
      \/ \E s \in Sockets : Leave(s) \/ CloseJoined(s)
      \/ rooms' = rooms /\ localRooms' = localRooms
  BY DEF Next, vars, serverVars, coordinatorVars, JoinStep, LeaveStep, RefuseSecondJoin, ReceiveJoin,
     AuthorizationFails, RefuseNewRoom, ShareSubscription, SendSubscribe, Subscribed,
     GiveBackSubscription, RefuseJoin, RedisJoin, RedisPublishJoined, AnnounceDeparture, LeaveChannel,
     ChannelLeft, RedisLeave, RedisPublishLeft, CloseUnjoined, RedisSubscription, Deliver
<1>4. CASE rooms' = rooms /\ localRooms' = localRooms
  BY <1>0, <1>4 DEF LocalPeers
<1> QED BY <1>1, <1>2, <1>3, <1>4

(* Hence every field has its join in every state, and the registries agree. *)
LEMMA EntriesHeld == Spec => []ExactnessInv
<1>1. ExactnessInv /\ [Next]_vars => ExactnessInv'
  <2>1. RegistrationInv /\ [Next]_vars => RegistrationInv'
    BY StepRegistered
  <2> QED BY <2>1, StepKeepsEntries, StepKeepsLocalRooms DEF ExactnessInv
<1> QED BY <1>1, InitExact, PTL DEF Spec

(* Once no handler is running, the two registries and Redis agree. *)
THEOREM ExactAtRestCorrect == Spec => []ExactAtRest
<1>1. ExactnessInv => ExactAtRest
  <2> SUFFICES ASSUME ExactnessInv, AtRest, NEW i \in Instances, NEW r \in Rooms
               PROVE  /\ localRooms[i][r].peers = LocalPeers(i, r)
                      /\ \A p \in Peers : rooms[i][r][p] # NoSocket <=> redis[r].peers[p] = i
    BY DEF ExactAtRest
  <2> USE DEF ExactnessInv, RegistrationInv, HandlerInv
  <2>1. ASSUME NEW p \in Peers, rooms[i][r][p] # NoSocket PROVE redis[r].peers[p] = i
    BY <2>1, PresentHolds DEF HoldersOwn, RegisteredArePresent, Asks
  <2>2. ASSUME NEW p \in Peers, redis[r].peers[p] = i PROVE rooms[i][r][p] # NoSocket
    <3>1. PICK j \in Joins : Holds(j) /\ Asks(j, r, p)
      BY <2>2, NoInstanceIsNone DEF EntriesAreHeld
    <3>2. Present(j)
      BY <3>1 DEF AtRest, Holds, Present
    <3>3. InstanceOf(j) = i /\ request[j].room = r /\ request[j].peer = p
      BY <2>2, <3>1 DEF HoldersOwn, Asks
    <3>4. request[j].socket \in Sockets
      BY <3>1, HolderRequest
    <3> QED BY <3>2, <3>3, <3>4, NoneIsNothing DEF PresentAreRegistered
  <2> QED BY <2>1, <2>2 DEF LocalRoomsAgree
<1> QED BY <1>1, EntriesHeld, PTL
-----------------------------------------------------------------------------
(***************************************************************************)
(* At rest, the store of an instance believes subscribed exactly the       *)
(* channels Redis pushes to it.  A handler that has sent SUBSCRIBE or      *)
(* UNSUBSCRIBE waits on one queue after the other: its call is on its way, *)
(* then the acknowledgement is.  Both are first in, first out, so that the *)
(* channel in Redis is what the last acknowledgement still unread says, or *)
(* what the store believes when there is none.                             *)
(***************************************************************************)

(* A handler that awaits the acknowledgement of a call it has sent. *)
Awaits(h) ==
  IF h.kind = "join" THEN joinPc[h.join] \in {"subscribing", "unsubscribing"}
                     ELSE leavePc[h.join] = "unsubscribing"
Waits(i, h) == h \in Handlers /\ Awaits(h) /\ InstanceOf(h.join) = i

(* What it has asked for, and of which channel. *)
Subscribes(h) == h.kind = "join" /\ joinPc[h.join] = "subscribing"
RoomOf(h) == request[h.join].room

AckAt(s, n) == n \in 1..Len(s) /\ s[n].type = "ack"
AckOf(i, n, r) == AckAt(inbox[i], n) /\ RoomOf(inbox[i][n].handler) = r

CallsAreAwaited(i) ==
  \A n \in 1..Len(subscriptionCalls[i]) : Waits(i, subscriptionCalls[i][n])

AcksAreAwaited(i) ==
  \A n \in Nat : AckAt(inbox[i], n) => Waits(i, inbox[i][n].handler)

CalledOnce(i) ==
  \A m, n \in 1..Len(subscriptionCalls[i]) :
    subscriptionCalls[i][m] = subscriptionCalls[i][n] => m = n

AnsweredOnce(i) ==
  \A m, n \in Nat :
    AckAt(inbox[i], m) /\ AckAt(inbox[i], n) /\ inbox[i][m] = inbox[i][n] => m = n

AnsweredOrCalled(i) ==
  \A m \in Nat, n \in 1..Len(subscriptionCalls[i]) :
    AckAt(inbox[i], m) => inbox[i][m].handler # subscriptionCalls[i][n]

BelievedWhenRead(i) ==
  \A r \in Rooms :
    (\A n \in Nat : ~AckOf(i, n, r)) => (i \in channel[r] <=> r \in subscribedChannels[i])

LastAckCounts(i) ==
  \A r \in Rooms, n \in Nat :
    /\ AckOf(i, n, r)
    /\ \A m \in Nat : AckOf(i, m, r) => m <= n
    => (i \in channel[r] <=> Subscribes(inbox[i][n].handler))

CallsOK(i) ==
  /\ CallsAreAwaited(i) /\ AcksAreAwaited(i)
  /\ CalledOnce(i) /\ AnsweredOnce(i) /\ AnsweredOrCalled(i)
  /\ BelievedWhenRead(i) /\ LastAckCounts(i)

(* The acknowledgements of t are those of s from place d on. *)
Shifted(s, t, d) ==
  \A n \in Nat \ {0} :
    /\ AckAt(t, n) <=> AckAt(s, n + d)
    /\ AckAt(s, n + d) => t[n] = s[n + d]

(* A message taken or a notice pushed moves acknowledgements, if at all,
   together.                                                               *)
LEMMA TailShifts ==
  ASSUME NEW S, NEW s \in Seq(S), s # <<>>
  PROVE  Shifted(s, Tail(s), 1)
<1> USE DEF Shifted, AckAt
<1>1. /\ Len(s) \in Nat \ {0} /\ Len(Tail(s)) = Len(s) - 1
      /\ \A n \in 1..Len(Tail(s)) : Tail(s)[n] = s[n + 1]
  BY HeadTailProperties, EmptySeq
<1> QED BY <1>1

(* A notice goes behind every acknowledgement. *)
LEMMA NoticeShiftsNothing ==
  ASSUME NEW S, NEW s \in Seq(S), NEW e \in S, e.type # "ack"
  PROVE  Shifted(s, Append(s, e), 0)
<1>1. /\ Len(s) \in Nat /\ Len(Append(s, e)) = Len(s) + 1
      /\ \A n \in 1..Len(s) : Append(s, e)[n] = s[n]
      /\ Append(s, e)[Len(s) + 1] = e
  BY AppendProperties, LenProperties
<1> QED BY <1>1 DEF Shifted, AckAt

(* An acknowledgement names a handler. *)
LEMMA AckHandler ==
  ASSUME TypeOK, NEW i \in Instances, NEW n, AckAt(inbox[i], n)
  PROVE  /\ inbox[i][n] \in Acks /\ inbox[i][n].handler \in Handlers
         /\ inbox[i][n] = Ack(inbox[i][n].handler)
<1>1. inbox[i] \in Seq(Notices \cup Acks)
  BY DEF TypeOK
<1>2. inbox[i][n] \in Notices \cup Acks
  BY <1>1, ElementOfSeq DEF AckAt
<1> QED BY <1>2 DEF AckAt, Notices, Acks, Ack

(* The handler goes on waiting for what it has asked for. *)
GoesOnWaiting(i, h) ==
  Waits(i, h) => Waits(i, h)' /\ (Subscribes(h)' <=> Subscribes(h)) /\ RoomOf(h)' = RoomOf(h)

(* No call is sent or answered, and whoever waits goes on waiting. *)
Undisturbed(i) ==
  /\ subscriptionCalls'[i] = subscriptionCalls[i]
  /\ subscribedChannels'[i] = subscribedChannels[i]
  /\ \A r \in Rooms : i \in channel'[r] <=> i \in channel[r]
  /\ \A h \in Handlers : GoesOnWaiting(i, h)

(* Calls and their handlers stay matched while only messages that acknowledge nothing
   leave the inbox. *)
LEMMA UndisturbedCalls ==
  ASSUME TypeOK, NEW i \in Instances, CallsOK(i), Undisturbed(i),
         NEW d \in Nat, Shifted(inbox[i], inbox'[i], d),
         \A n \in 1..d : ~AckAt(inbox[i], n)
  PROVE  CallsOK(i)'
<1> USE DEF CallsOK
<1>0. \A n : AckAt(inbox[i], n) => Waits(i, inbox[i][n].handler) /\ n \in Nat \ {0}
  BY DEF AcksAreAwaited, AckAt
<1>1. ASSUME NEW n \in Nat, AckAt(inbox[i], n)'
      PROVE  /\ n + d \in Nat /\ AckAt(inbox[i], n + d) /\ inbox'[i][n] = inbox[i][n + d]
             /\ \E h \in Handlers :
                  /\ h = inbox[i][n + d].handler /\ Waits(i, h)
                  /\ Waits(i, h)' /\ RoomOf(h)' = RoomOf(h) /\ (Subscribes(h)' <=> Subscribes(h))
  <2>1. n \in Nat \ {0} /\ n + d \in Nat
    BY <1>1 DEF AckAt
  <2>2. AckAt(inbox[i], n + d) /\ inbox'[i][n] = inbox[i][n + d]
    BY <1>1, <2>1 DEF Shifted, AckAt
  <2>3. PICK h \in Handlers : h = inbox[i][n + d].handler /\ Waits(i, h)
    BY <1>0, <2>2 DEF Waits
  <2>4. Waits(i, h)' /\ RoomOf(h)' = RoomOf(h) /\ (Subscribes(h)' <=> Subscribes(h))
    BY <2>3 DEF Undisturbed, GoesOnWaiting
  <2> QED BY <2>1, <2>2, <2>3, <2>4
<1>2. ASSUME NEW n \in Nat, AckAt(inbox[i], n)
      PROVE  n - d \in Nat /\ AckAt(inbox[i], n - d)'
  <2>1. n \in Nat \ {0} /\ n - d \in Nat \ {0} /\ (n - d) + d = n
    BY <1>2 DEF AckAt
  <2> QED BY <1>2, <2>1 DEF Shifted, AckAt
<1>3. CallsAreAwaited(i)' /\ CalledOnce(i)'
  <2>1. ASSUME NEW n \in 1..Len(subscriptionCalls[i])
        PROVE  Waits(i, subscriptionCalls[i][n])'
    <3>1. PICK h \in Handlers : h = subscriptionCalls[i][n] /\ Waits(i, h)
      BY DEF CallsAreAwaited, Waits
    <3>2. subscriptionCalls'[i][n] = h /\ Waits(i, h)'
      BY <3>1 DEF Undisturbed, GoesOnWaiting
    <3> QED BY <3>2 DEF Waits, Awaits, InstanceOf
  <2> QED BY <2>1 DEF CallsAreAwaited, CalledOnce, Undisturbed
<1>4. AcksAreAwaited(i)'
  BY <1>1 DEF AcksAreAwaited, Waits, Awaits, InstanceOf
<1>5. AnsweredOnce(i)'
  BY <1>1 DEF AnsweredOnce
<1>6. AnsweredOrCalled(i)'
  BY <1>1 DEF AnsweredOrCalled, Undisturbed
<1>7. ASSUME NEW r \in Rooms, NEW n \in Nat
      PROVE  /\ AckOf(i, n, r)' => AckOf(i, n + d, r)
             /\ AckOf(i, n, r) => n - d \in Nat /\ AckOf(i, n - d, r)'
  <2>1. AckOf(i, n, r)' => AckOf(i, n + d, r)
    BY <1>1 DEF AckOf, RoomOf
  <2>2. ASSUME AckOf(i, n, r) PROVE n - d \in Nat /\ AckOf(i, n - d, r)'
    <3>1. n - d \in Nat /\ AckAt(inbox[i], n - d)' /\ (n - d) + d = n
      BY <1>2, <2>2 DEF AckOf
    <3> QED BY <1>1, <2>2, <3>1 DEF AckOf, RoomOf
  <2> QED BY <2>1, <2>2
<1>8. BelievedWhenRead(i)'
  <2> SUFFICES ASSUME NEW r \in Rooms, \A n \in Nat : ~AckOf(i, n, r)'
               PROVE  i \in channel'[r] <=> r \in subscribedChannels'[i]
    BY DEF BelievedWhenRead
  <2>1. \A n \in Nat : ~AckOf(i, n, r)
    BY <1>7
  <2> QED BY <2>1 DEF BelievedWhenRead, Undisturbed
<1>9. LastAckCounts(i)'
  <2> SUFFICES ASSUME NEW r \in Rooms, NEW n \in Nat, AckOf(i, n, r)',
                      \A m \in Nat : AckOf(i, m, r)' => m <= n
               PROVE  i \in channel'[r] <=> Subscribes(inbox[i][n].handler)'
    BY DEF LastAckCounts
  <2>1. n + d \in Nat /\ AckOf(i, n + d, r)
    BY <1>7
  <2>2. \A m \in Nat : AckOf(i, m, r) => m <= n + d
    BY <1>7
  <2>3. i \in channel[r] <=> Subscribes(inbox[i][n + d].handler)
    BY <2>1, <2>2 DEF LastAckCounts
  <2> QED BY <1>1, <2>3 DEF Undisturbed, AckOf, Subscribes
<1> QED BY <1>3, <1>4, <1>5, <1>6, <1>8, <1>9

(* A handler that was not waiting sends a call and waits from now on. *)
LEMMA SentCall ==
  ASSUME TypeOK, NEW i \in Instances, CallsOK(i), NEW h \in Handlers,
         ~Awaits(h), Waits(i, h)',
         subscriptionCalls'[i] = Append(subscriptionCalls[i], h),
         inbox'[i] = inbox[i], subscribedChannels'[i] = subscribedChannels[i],
         \A r \in Rooms : i \in channel'[r] <=> i \in channel[r],
         \A g \in Handlers : GoesOnWaiting(i, g)
  PROVE  CallsOK(i)'
<1> USE DEF CallsOK
<1> DEFINE n0 == Len(subscriptionCalls[i])
<1>0. /\ n0 \in Nat /\ Len(subscriptionCalls'[i]) = n0 + 1
      /\ \A n \in 1..n0 : subscriptionCalls'[i][n] = subscriptionCalls[i][n]
      /\ subscriptionCalls'[i][n0 + 1] = h
  <2>1. subscriptionCalls[i] \in Seq(Handlers)
    BY DEF TypeOK
  <2> HIDE DEF CallsOK
  <2> QED BY <2>1, AppendProperties, LenProperties
<1>1. ASSUME NEW n \in 1..n0
      PROVE  \E g \in Handlers : g = subscriptionCalls[i][n] /\ g # h /\ Waits(i, g)'
  <2>1. PICK g \in Handlers : g = subscriptionCalls[i][n] /\ Waits(i, g)
    BY <1>0 DEF CallsAreAwaited, Waits
  <2>2. g # h
    BY <2>1 DEF Waits
  <2> QED BY <2>1, <2>2 DEF GoesOnWaiting
<1>2. ASSUME NEW n \in Nat, AckAt(inbox[i], n)
      PROVE  \E g \in Handlers :
               /\ g = inbox[i][n].handler /\ g # h
               /\ Waits(i, g)' /\ (Subscribes(g)' <=> Subscribes(g)) /\ RoomOf(g)' = RoomOf(g)
  <2>1. PICK g \in Handlers : g = inbox[i][n].handler /\ Waits(i, g)
    BY <1>2, AckHandler DEF AcksAreAwaited
  <2>2. g # h
    BY <2>1 DEF Waits
  <2> QED BY <2>1, <2>2 DEF GoesOnWaiting
<1>3. CallsAreAwaited(i)' /\ CalledOnce(i)'
  <2>1. ASSUME NEW n \in 1..Len(subscriptionCalls'[i])
        PROVE  Waits(i, subscriptionCalls[i][n])'
    <3>1. n = n0 + 1 \/ n \in 1..n0
      BY <1>0
    <3>2. CASE n = n0 + 1
      BY <1>0, <3>2 DEF Waits, Awaits, InstanceOf
    <3>3. CASE n \in 1..n0
      BY <1>0, <1>1, <3>3 DEF Waits, Awaits, InstanceOf
    <3> QED BY <3>1, <3>2, <3>3
  <2>2. ASSUME NEW m \in 1..(n0 + 1), NEW n \in 1..(n0 + 1),
               subscriptionCalls'[i][m] = subscriptionCalls'[i][n]
        PROVE  m = n
    <3>1. (m = n0 + 1 \/ m \in 1..n0) /\ (n = n0 + 1 \/ n \in 1..n0)
      BY <1>0
    <3> QED BY <1>0, <1>1, <2>2, <3>1 DEF CalledOnce
  <2> QED BY <1>0, <2>1, <2>2 DEF CallsAreAwaited, CalledOnce
<1>4. AcksAreAwaited(i)' /\ AnsweredOnce(i)'
  <2>1. AcksAreAwaited(i)'
    BY <1>2 DEF AcksAreAwaited, Waits, Awaits, InstanceOf
  <2> QED BY <2>1 DEF AnsweredOnce
<1>5. AnsweredOrCalled(i)'
  <2> SUFFICES ASSUME NEW m \in Nat, NEW n \in 1..(n0 + 1), AckAt(inbox[i], m)
               PROVE  inbox[i][m].handler # subscriptionCalls'[i][n]
    BY <1>0 DEF AnsweredOrCalled
  <2>1. CASE n = n0 + 1
    BY <1>0, <1>2, <2>1
  <2>2. CASE n \in 1..n0
    BY <1>0, <2>2 DEF AnsweredOrCalled
  <2> QED BY <1>0, <2>1, <2>2
<1>6. ASSUME NEW r \in Rooms, NEW n \in Nat PROVE AckOf(i, n, r)' <=> AckOf(i, n, r)
  <2>1. AckAt(inbox[i], n)' <=> AckAt(inbox[i], n)
    BY DEF AckAt
  <2>2. AckAt(inbox[i], n) => (RoomOf(inbox[i][n].handler)' = RoomOf(inbox[i][n].handler))
    BY <1>2 DEF RoomOf
  <2> QED BY <2>1, <2>2 DEF AckOf
<1>7. BelievedWhenRead(i)'
  BY <1>6 DEF BelievedWhenRead
<1>8. LastAckCounts(i)'
  <2> SUFFICES ASSUME NEW r \in Rooms, NEW n \in Nat, AckOf(i, n, r)',
                      \A m \in Nat : AckOf(i, m, r)' => m <= n
               PROVE  i \in channel'[r] <=> Subscribes(inbox[i][n].handler)'
    BY DEF LastAckCounts
  <2>1. i \in channel[r] <=> Subscribes(inbox[i][n].handler)
    BY <1>6 DEF LastAckCounts
  <2>2. Subscribes(inbox[i][n].handler)' <=> Subscribes(inbox[i][n].handler)
    BY <1>2, <1>6 DEF AckOf, Subscribes
  <2> QED BY <2>1, <2>2
<1> QED BY <1>3, <1>4, <1>5, <1>7, <1>8

(* Its oldest acknowledgement read, a handler settles what it asked for. *)
LEMMA SettledCall ==
  ASSUME TypeOK, NEW i \in Instances, CallsOK(i), NEW h \in Handlers,
         AckAt(inbox[i], 1), inbox[i][1] = Ack(h), Shifted(inbox[i], inbox'[i], 1),
         subscriptionCalls'[i] = subscriptionCalls[i],
         subscribedChannels'[i] = IF Subscribes(h) THEN subscribedChannels[i] \cup {RoomOf(h)}
                                                   ELSE subscribedChannels[i] \ {RoomOf(h)},
         \A r \in Rooms : i \in channel'[r] <=> i \in channel[r],
         \A g \in Handlers \ {h} : GoesOnWaiting(i, g)
  PROVE  CallsOK(i)'
<1> USE DEF CallsOK
<1>0. inbox[i][1].handler = h
  BY DEF Ack
<1>1. ASSUME NEW n \in Nat, AckAt(inbox[i], n)'
      PROVE  /\ n + 1 \in Nat /\ AckAt(inbox[i], n + 1) /\ inbox'[i][n] = inbox[i][n + 1]
             /\ \E g \in Handlers \ {h} :
                  /\ g = inbox[i][n + 1].handler /\ Waits(i, g)
                  /\ Waits(i, g)' /\ RoomOf(g)' = RoomOf(g) /\ (Subscribes(g)' <=> Subscribes(g))
  <2>1. n \in Nat \ {0} /\ n + 1 \in Nat /\ n + 1 # 1
    BY <1>1 DEF AckAt
  <2>2. AckAt(inbox[i], n + 1) /\ inbox'[i][n] = inbox[i][n + 1]
    BY <1>0, <1>1, <2>1 DEF Shifted, AckAt
  <2>3. PICK g \in Handlers : g = inbox[i][n + 1].handler /\ Waits(i, g)
    BY <2>1, <2>2, AckHandler DEF AcksAreAwaited
  <2>4. g # h
    <3>1. inbox[i][n + 1] = Ack(g)
      BY <2>2, <2>3, AckHandler
    <3> QED BY <1>0, <2>1, <2>2, <3>1 DEF AnsweredOnce
  <2>5. Waits(i, g)' /\ RoomOf(g)' = RoomOf(g) /\ (Subscribes(g)' <=> Subscribes(g))
    BY <2>3, <2>4 DEF GoesOnWaiting
  <2> QED BY <2>1, <2>2, <2>3, <2>4, <2>5
<1>2. ASSUME NEW n \in Nat, n > 1, AckAt(inbox[i], n)
      PROVE  n - 1 \in Nat /\ AckAt(inbox[i], n - 1)'
  <2>1. n - 1 \in Nat \ {0} /\ (n - 1) + 1 = n
    BY <1>2
  <2> QED BY <1>0, <1>2, <2>1 DEF Shifted, AckAt
<1>3. CallsAreAwaited(i)' /\ CalledOnce(i)'
  <2>1. ASSUME NEW n \in 1..Len(subscriptionCalls[i])
        PROVE  Waits(i, subscriptionCalls[i][n])'
    <3>1. PICK g \in Handlers : g = subscriptionCalls[i][n] /\ Waits(i, g)
      BY DEF CallsAreAwaited, Waits
    <3>2. g # h
      BY <1>0, <3>1 DEF AnsweredOrCalled
    <3>3. subscriptionCalls'[i][n] = g /\ Waits(i, g)'
      BY <3>1, <3>2 DEF GoesOnWaiting
    <3> QED BY <3>3 DEF Waits, Awaits, InstanceOf
  <2> QED BY <2>1 DEF CallsAreAwaited, CalledOnce
<1>4. AcksAreAwaited(i)'
  BY <1>1 DEF AcksAreAwaited, Waits, Awaits, InstanceOf
<1>5. AnsweredOnce(i)'
  BY <1>1 DEF AnsweredOnce
<1>6. AnsweredOrCalled(i)'
  BY <1>1 DEF AnsweredOrCalled
<1>7. ASSUME NEW r \in Rooms, NEW n \in Nat
      PROVE  /\ AckOf(i, n, r)' => n + 1 \in Nat /\ AckOf(i, n + 1, r)
             /\ AckOf(i, n, r) /\ n > 1 => n - 1 \in Nat /\ AckOf(i, n - 1, r)'
             /\ AckOf(i, n, r) => n >= 1
  <2>1. AckOf(i, n, r)' => n + 1 \in Nat /\ AckOf(i, n + 1, r)
    BY <1>1 DEF AckOf, RoomOf
  <2>2. ASSUME AckOf(i, n, r), n > 1 PROVE n - 1 \in Nat /\ AckOf(i, n - 1, r)'
    <3>1. n - 1 \in Nat /\ AckAt(inbox[i], n - 1)' /\ (n - 1) + 1 = n
      BY <1>2, <2>2 DEF AckOf
    <3> QED BY <1>1, <2>2, <3>1 DEF AckOf, RoomOf
  <2>3. AckOf(i, n, r) => n >= 1
    BY DEF AckOf, AckAt
  <2> QED BY <2>1, <2>2, <2>3
<1>8. BelievedWhenRead(i)'
  <2> SUFFICES ASSUME NEW r \in Rooms, \A n \in Nat : ~AckOf(i, n, r)'
               PROVE  i \in channel'[r] <=> r \in subscribedChannels'[i]
    BY DEF BelievedWhenRead
  <2>1. \A n \in Nat : AckOf(i, n, r) => n = 1
    BY <1>7
  <2>2. CASE RoomOf(h) = r
    <3>1. AckOf(i, 1, r)
      BY <1>0, <2>2 DEF AckOf
    <3>2. i \in channel[r] <=> Subscribes(inbox[i][1].handler)
      BY <2>1, <3>1 DEF LastAckCounts
    <3> QED BY <1>0, <2>2, <3>2
  <2>3. CASE RoomOf(h) # r
    <3>1. \A n \in Nat : ~AckOf(i, n, r)
      BY <1>0, <2>1, <2>3 DEF AckOf
    <3>2. i \in channel[r] <=> r \in subscribedChannels[i]
      BY <3>1 DEF BelievedWhenRead
    <3> QED BY <2>3, <3>2
  <2> QED BY <2>2, <2>3
<1>9. LastAckCounts(i)'
  <2> SUFFICES ASSUME NEW r \in Rooms, NEW n \in Nat, AckOf(i, n, r)',
                      \A m \in Nat : AckOf(i, m, r)' => m <= n
               PROVE  i \in channel'[r] <=> Subscribes(inbox[i][n].handler)'
    BY DEF LastAckCounts
  <2>1. n + 1 \in Nat /\ AckOf(i, n + 1, r)
    BY <1>7
  <2>2. \A m \in Nat : AckOf(i, m, r) => m <= n + 1
    BY <1>7, <2>1
  <2>3. i \in channel[r] <=> Subscribes(inbox[i][n + 1].handler)
    BY <2>1, <2>2 DEF LastAckCounts
  <2> QED BY <1>1, <2>3 DEF AckOf, Subscribes
<1> QED BY <1>3, <1>4, <1>5, <1>6, <1>8, <1>9

(* Redis runs the oldest call: its channel is now as the call asks, and the
   acknowledgement goes behind all others.                                 *)
LEMMA RunCall ==
  ASSUME TypeOK, NEW i \in Instances, CallsOK(i), RedisSubscription(i)
  PROVE  CallsOK(i)'
<1> USE DEF CallsOK
<1> DEFINE c == subscriptionCalls[i]
           s == inbox[i]
<1>0. c \in Seq(Handlers) /\ s \in Seq(Notices \cup Acks) /\ c # <<>>
  BY DEF TypeOK, RedisSubscription
<1>1. PICK h \in Handlers : h = Head(c)
  BY <1>0, HeadTailProperties
<1>2. /\ subscriptionCalls'[i] = Tail(c) /\ inbox'[i] = Append(s, Ack(h))
      /\ subscribedChannels' = subscribedChannels
      /\ request' = request /\ joinPc' = joinPc /\ leavePc' = leavePc
  BY <1>1 DEF RedisSubscription, TypeOK, coordinatorVars, handlerVars
<1>3. h = c[1] /\ Waits(i, h)
  <2>1. h = c[1] /\ 1 \in 1..Len(c)
    BY <1>0, <1>1, EmptySeq
  <2> QED BY <2>1 DEF CallsAreAwaited
<1>4. \A r \in Rooms : i \in channel'[r] <=> IF r = RoomOf(h) THEN Subscribes(h) ELSE i \in channel[r]
  BY <1>1 DEF RedisSubscription, TypeOK, RoomOf, Subscribes
<1>5. \A g : (Waits(i, g)' <=> Waits(i, g)) /\ (Subscribes(g)' <=> Subscribes(g)) /\ RoomOf(g)' = RoomOf(g)
  BY <1>2 DEF Waits, Awaits, InstanceOf, Subscribes, RoomOf
<1>6. PICK last \in Nat :
        /\ last = Len(s) + 1 /\ Len(inbox'[i]) = last /\ inbox'[i][last] = Ack(h)
        /\ \A n \in 1..Len(s) : inbox'[i][n] = s[n]
  <2>1. Ack(h) \in Notices \cup Acks
    BY DEF Ack, Acks
  <2>2. Len(s) \in Nat
    BY <1>0, LenProperties
  <2> HIDE DEF CallsOK
  <2> QED BY <1>0, <1>2, <2>1, <2>2, AppendProperties
<1>7. /\ Len(c) \in Nat /\ Len(Tail(c)) = Len(c) - 1
      /\ \A n \in 1..Len(Tail(c)) : Tail(c)[n] = c[n + 1] /\ n + 1 \in 1..Len(c) /\ n + 1 # 1
  <2> HIDE DEF CallsOK
  <2>1. /\ Len(c) \in Nat \ {0} /\ Len(Tail(c)) = Len(c) - 1
        /\ \A n \in 1..Len(Tail(c)) : Tail(c)[n] = c[n + 1]
    BY <1>0, HeadTailProperties, EmptySeq
  <2> QED BY <2>1
<1>8. \A n \in Nat : AckAt(inbox[i], n)' <=> AckAt(s, n) \/ n = last
  BY <1>6 DEF AckAt, Ack
<1>9. \A n \in Nat : AckAt(s, n) => n < last /\ inbox'[i][n] = s[n]
  BY <1>6 DEF AckAt
<1>10. Ack(h).handler = h
  BY DEF Ack
<1>11. ASSUME NEW n \in Nat, AckAt(s, n) PROVE s[n] # Ack(h)
  <2>1. s[n].handler # h
    BY <1>3, <1>7, <1>11 DEF AnsweredOrCalled
  <2> QED BY <1>10, <2>1
<1>12. CallsAreAwaited(i)'
  BY <1>2, <1>5, <1>7 DEF CallsAreAwaited, Waits, Awaits, InstanceOf
<1>13. CalledOnce(i)'
  BY <1>2, <1>7 DEF CalledOnce
<1>14. AcksAreAwaited(i)'
  BY <1>2, <1>3, <1>6, <1>8, <1>9, <1>10 DEF AcksAreAwaited, Waits, Awaits, InstanceOf
<1>15. AnsweredOnce(i)'
  BY <1>6, <1>8, <1>9, <1>11 DEF AnsweredOnce
<1>16. AnsweredOrCalled(i)'
  <2>1. \A n \in 1..Len(Tail(c)) : Tail(c)[n] # h
    BY <1>3, <1>7 DEF CalledOnce
  <2> SUFFICES ASSUME NEW m \in Nat, NEW n \in 1..Len(Tail(c)), AckAt(inbox[i], m)'
               PROVE  inbox'[i][m].handler # Tail(c)[n]
    BY <1>2 DEF AnsweredOrCalled
  <2>2. CASE m = last
    BY <1>6, <1>10, <2>1, <2>2
  <2>3. CASE m # last
    <3>1. AckAt(s, m) /\ inbox'[i][m] = s[m]
      BY <1>8, <1>9, <2>3
    <3> QED BY <1>7, <3>1 DEF AnsweredOrCalled
  <2> QED BY <2>2, <2>3
<1>17. ASSUME NEW r \in Rooms, NEW n \in Nat
       PROVE  AckOf(i, n, r)' <=> AckOf(i, n, r) \/ (n = last /\ r = RoomOf(h))
  <2>1. ~AckAt(s, last)
    BY <1>6, <1>9
  <2> QED BY <1>2, <1>6, <1>8, <1>9, <1>10, <2>1 DEF AckOf, RoomOf
<1>18. BelievedWhenRead(i)'
  <2> SUFFICES ASSUME NEW r \in Rooms, \A n \in Nat : ~AckOf(i, n, r)'
               PROVE  i \in channel'[r] <=> r \in subscribedChannels'[i]
    BY DEF BelievedWhenRead
  <2>1. r # RoomOf(h) /\ \A n \in Nat : ~AckOf(i, n, r)
    BY <1>6, <1>17
  <2> QED BY <1>2, <1>4, <2>1 DEF BelievedWhenRead
<1>19. LastAckCounts(i)'
  <2> SUFFICES ASSUME NEW r \in Rooms, NEW n \in Nat, AckOf(i, n, r)',
                      \A m \in Nat : AckOf(i, m, r)' => m <= n
               PROVE  i \in channel'[r] <=> Subscribes(inbox[i][n].handler)'
    BY DEF LastAckCounts
  <2>1. CASE r = RoomOf(h)
    <3>1. n = last
      <4>1. AckOf(i, last, r)'
        BY <1>6, <1>17, <2>1
      <4>2. n <= last
        BY <1>6, <1>8, <1>9 DEF AckOf
      <4> QED BY <1>6, <4>1, <4>2
    <3> QED BY <1>2, <1>4, <1>6, <1>10, <2>1, <3>1 DEF Subscribes
  <2>2. CASE r # RoomOf(h)
    <3>1. AckOf(i, n, r) /\ \A m \in Nat : AckOf(i, m, r) => m <= n
      BY <1>17, <2>2
    <3>2. i \in channel[r] <=> Subscribes(s[n].handler)
      BY <3>1 DEF LastAckCounts
    <3>3. inbox'[i][n] = s[n]
      BY <1>9, <3>1 DEF AckOf
    <3> QED BY <1>2, <1>4, <2>2, <3>2, <3>3 DEF Subscribes
  <2> QED BY <2>1, <2>2
<1> QED BY <1>12, <1>13, <1>14, <1>15, <1>16, <1>18, <1>19

(* The step in which a handler reads its acknowledgement. *)
Settles(h) ==
  IF h.kind = "join" THEN Subscribed(h.join) \/ RefuseJoin(h.join) ELSE ChannelLeft(h.join)

(* Nothing but its own acknowledgement ends a handler's wait. *)
LEMMA KeepsWaiting ==
  ASSUME HandlerInv, [Next]_vars, NEW i \in Instances, NEW h \in Handlers, ~Settles(h)
  PROVE  GoesOnWaiting(i, h)
<1> USE DEF HandlerInv
<1> SUFFICES ASSUME Waits(i, h)
             PROVE  Waits(i, h)' /\ (Subscribes(h)' <=> Subscribes(h)) /\ RoomOf(h)' = RoomOf(h)
  BY DEF GoesOnWaiting
<1>1. PICK k \in Joins : k = h.join
  BY DEF Handlers
<1>2. h.kind \in {"join", "leave"}
  BY DEF Handlers
<1>3. joinPc[k] # "idle" /\ (h.kind = "leave" => answer[k] = "joined" /\ leavePc[k] = "unsubscribing")
  BY <1>1, <1>2 DEF Waits, Awaits, HandlersAgree, JoinPcs
<1>4. /\ request'[k] = request[k]
      /\ h.kind = "join" => joinPc'[k] = joinPc[k]
      /\ h.kind = "leave" => leavePc'[k] = leavePc[k]
  <2>1. CASE \E j \in Joins, q \in Requests : RefuseSecondJoin(j, q) \/ ReceiveJoin(j, q)
    BY <1>3, <2>1 DEF RefuseSecondJoin, ReceiveJoin, Finish, TypeOK
  <2>2. CASE \E j \in Joins : AuthorizationFails(j) \/ JoinStep(j)
    <3>1. PICK j \in Joins : AuthorizationFails(j) \/ JoinStep(j)
      BY <2>2
    <3>2. request' = request /\ leavePc' = leavePc
      BY <3>1 DEF JoinStep, AuthorizationFails, RefuseNewRoom, ShareSubscription, SendSubscribe,
         Subscribed, Install, GiveBackSubscription, RefuseJoin, RedisJoin, RedisPublishJoined
    <3>3. CASE k # j
      <4>1. joinPc'[k] = joinPc[k]
        BY <3>1, <3>3 DEF JoinStep, AuthorizationFails, RefuseNewRoom, ShareSubscription, SendSubscribe,
           Subscribed, Install, GiveBackSubscription, RefuseJoin, RedisJoin, RedisPublishJoined,
           Finish, TypeOK
      <4> QED BY <3>2, <4>1
    <3>4. CASE k = j /\ h.kind = "join"
      <4>1. joinPc[k] \in {"subscribing", "unsubscribing"} /\ ~Subscribed(k) /\ ~RefuseJoin(k)
        BY <1>1, <3>4 DEF Waits, Awaits, Settles
      <4> QED BY <3>1, <3>4, <4>1 DEF JoinStep, AuthorizationFails, RefuseNewRoom, ShareSubscription,
                 SendSubscribe, Install, GiveBackSubscription, RedisJoin, RedisPublishJoined
    <3> QED BY <1>2, <3>2, <3>3, <3>4
  <2>3. CASE \E j \in Joins : LeaveStep(j)
    <3>1. PICK j \in Joins : LeaveStep(j)
      BY <2>3
    <3>2. /\ request' = request /\ joinPc' = joinPc
          /\ \A l \in Joins \ {j} : leavePc'[l] = leavePc[l]
      BY <3>1 DEF LeaveStep, AnnounceDeparture, LeaveChannel, ChannelLeft, RedisLeave,
         RedisPublishLeft, TypeOK
    <3>3. ASSUME k = j, h.kind = "leave" PROVE FALSE
      <4>1. leavePc[k] = "unsubscribing" /\ ~ChannelLeft(k)
        BY <1>1, <1>3, <3>3 DEF Settles
      <4> QED BY <3>1, <3>3, <4>1 DEF LeaveStep, AnnounceDeparture, LeaveChannel, RedisLeave, RedisPublishLeft
    <3> QED BY <1>2, <3>2, <3>3
  <2>4. CASE \E s \in Sockets : Leave(s) \/ CloseJoined(s) \/ CloseUnjoined(s)
    <3>1. PICK s \in Sockets : Leave(s) \/ CloseJoined(s) \/ CloseUnjoined(s)
      BY <2>4
    <3>2. request' = request /\ joinPc' = joinPc
      BY <3>1 DEF Leave, CloseJoined, CloseUnjoined, LeaveUnchanged
    <3>3. h.kind = "leave" => leavePc'[k] = leavePc[k]
      <4>1. CASE CloseUnjoined(s)
        BY <4>1 DEF CloseUnjoined
      <4>2. CASE Leave(s) \/ CloseJoined(s)
        <5>1. contexts[s] \in Joins /\ leavePc[contexts[s]] = "none"
          BY <4>2 DEF Leave, CloseJoined, TypeOK, ContextsArePresent, Present
        <5>2. h.kind = "leave" => k # contexts[s]
          BY <1>3, <5>1
        <5> QED BY <4>2, <5>1, <5>2 DEF Leave, CloseJoined, RemovePeerFromRoom, TypeOK
      <4> QED BY <3>1, <4>1, <4>2
    <3> QED BY <3>2, <3>3
  <2>5. CASE UNCHANGED vars \/ \E l \in Instances : RedisSubscription(l) \/ Deliver(l)
    BY <2>5 DEF vars, handlerVars, RedisSubscription, Deliver
  <2> QED BY <2>1, <2>2, <2>3, <2>4, <2>5 DEF Next
<1> QED BY <1>1, <1>2, <1>4 DEF Waits, Awaits, InstanceOf, Subscribes, RoomOf

(* A handler that settles is the one whose acknowledgement is the oldest. *)
LEMMA SettlesByReading ==
  ASSUME TypeOK, NEW i \in Instances, NEW h \in Handlers, Waits(i, h), Settles(h)
  PROVE  /\ Head(inbox[i]) = Ack(h)
         /\ Len(inbox[i]) \in Nat /\ Len(inbox'[i]) = Len(inbox[i]) - 1
<1>1. h.kind \in {"join", "leave"} /\ h.join \in Joins
  BY DEF Handlers
<1>2. h = JoinHandler(h.join) \/ h = LeaveHandler(h.join)
  BY DEF Handlers, JoinHandler, LeaveHandler
<1>3. inbox[i] # <<>> /\ Head(inbox[i]) = Ack(h) /\ inbox'[i] = Tail(inbox[i])
  BY <1>1, <1>2 DEF Settles, Subscribed, RefuseJoin, ChannelLeft, Waits, JoinHandler, LeaveHandler, TypeOK
<1>4. inbox[i] \in Seq(Notices \cup Acks)
  BY DEF TypeOK
<1>5. Len(inbox[i]) \in Nat /\ Len(Tail(inbox[i])) = Len(inbox[i]) - 1
  BY <1>3, <1>4, HeadTailProperties, LenProperties
<1> QED BY <1>3, <1>5

(* What the ways to leave a subscriber connection alone have in common. *)
LEMMA InboxUnread ==
  ASSUME TypeOK, NEW i \in Instances,
         \/ inbox'[i] = inbox[i]
         \/ \E e \in Notices : inbox'[i] = Append(inbox[i], e)
  PROVE  Shifted(inbox[i], inbox'[i], 0)
<1>1. inbox[i] \in Seq(Notices \cup Acks)
  BY DEF TypeOK
<1>2. CASE inbox'[i] = inbox[i]
  BY <1>2 DEF Shifted, AckAt
<1>3. CASE \E e \in Notices : inbox'[i] = Append(inbox[i], e)
  <2>1. PICK e \in Notices : inbox'[i] = Append(inbox[i], e)
    BY <1>3
  <2>2. e.type # "ack" /\ e \in Notices \cup Acks
    BY DEF Notices
  <2> QED BY <1>1, <2>1, <2>2, NoticeShiftsNothing
<1> QED BY <1>2, <1>3

(* A step that neither sends, runs nor settles a call on the connection of
   an instance.                                                            *)
LEMMA UnreadCalls ==
  ASSUME HandlerInv, [Next]_vars, NEW i \in Instances, CallsOK(i),
         subscriptionCalls'[i] = subscriptionCalls[i],
         subscribedChannels'[i] = subscribedChannels[i],
         \A r \in Rooms : i \in channel'[r] <=> i \in channel[r],
         \/ inbox'[i] = inbox[i]
         \/ \E e \in Notices : inbox'[i] = Append(inbox[i], e)
  PROVE  CallsOK(i)'
<1>0. TypeOK /\ inbox[i] \in Seq(Notices \cup Acks)
  BY DEF HandlerInv, TypeOK
<1>1. ASSUME NEW h \in Handlers PROVE GoesOnWaiting(i, h)
  <2>1. Len(inbox'[i]) = Len(inbox[i]) \/ Len(inbox'[i]) = Len(inbox[i]) + 1
    BY <1>0, AppendProperties
  <2>2. Waits(i, h) => ~Settles(h)
    BY <1>0, <2>1, SettlesByReading
  <2> QED BY <2>2, KeepsWaiting DEF GoesOnWaiting
<1>2. Undisturbed(i)
  BY <1>1 DEF Undisturbed
<1>3. Shifted(inbox[i], inbox'[i], 0)
  BY <1>0, InboxUnread
<1>4. \A n \in 1..0 : ~AckAt(inbox[i], n)
  OBVIOUS
<1> QED BY <1>0, <1>2, <1>3, <1>4, UndisturbedCalls

(* An acknowledgement at the head of an instance's inbox is read by the
   handler that waits for it, and the others go on waiting.                *)
LEMMA ReadCall ==
  ASSUME HandlerInv, [Next]_vars, NEW i \in Instances, CallsOK(i), NEW h \in Handlers,
         inbox[i] # <<>>, Head(inbox[i]) = Ack(h), inbox'[i] = Tail(inbox[i]),
         subscriptionCalls'[i] = subscriptionCalls[i],
         subscribedChannels'[i] = IF Subscribes(h) THEN subscribedChannels[i] \cup {RoomOf(h)}
                                                   ELSE subscribedChannels[i] \ {RoomOf(h)},
         \A r \in Rooms : i \in channel'[r] <=> i \in channel[r]
  PROVE  CallsOK(i)'
<1>0. TypeOK
  BY DEF HandlerInv
<1>1. ASSUME NEW g \in Handlers \ {h} PROVE GoesOnWaiting(i, g)
  <2>1. Ack(g) # Ack(h)
    BY DEF Ack
  <2>2. Waits(i, g) => ~Settles(g)
    BY <1>0, <2>1, SettlesByReading
  <2> QED BY <2>2, KeepsWaiting DEF GoesOnWaiting
<1>2. inbox[i] \in Seq(Notices \cup Acks)
  BY <1>0 DEF TypeOK
<1>3. AckAt(inbox[i], 1) /\ inbox[i][1] = Ack(h)
  <2>1. 1 \in 1..Len(inbox[i]) /\ Head(inbox[i]) = inbox[i][1]
    BY <1>2, EmptySeq
  <2> QED BY <2>1 DEF AckAt, Ack
<1>4. Shifted(inbox[i], inbox'[i], 1)
  BY <1>2, TailShifts
<1> QED BY <1>0, <1>1, <1>3, <1>4, SettledCall

(* The stretches that begin a wait. *)
SendsCall(j) ==
  \/ SendSubscribe(j)
  \/ GiveBackSubscription(j) /\ SendsUnsubscribe(InstanceOf(j), request[j].room)
  \/ LeaveChannel(j) /\ emptied[j] /\ SendsUnsubscribe(InstanceOf(j), request[j].room)

(* SUBSCRIBE or UNSUBSCRIBE is sent by a handler that did not wait. *)
LEMMA SendsCallKeepsCalls ==
  ASSUME HandlerInv, [Next]_vars, NEW i \in Instances, CallsOK(i), NEW j \in Joins, SendsCall(j)
  PROVE  CallsOK(i)'
<1> USE DEF HandlerInv
<1>1. /\ inbox' = inbox /\ subscribedChannels' = subscribedChannels /\ channel' = channel
      /\ request' = request
  BY DEF SendsCall, SendSubscribe, GiveBackSubscription, LeaveChannel, redisVars, coordinatorVars
<1>2. PICK h \in {JoinHandler(j), LeaveHandler(j)} :
        /\ ~Awaits(h) /\ Awaits(h)'
        /\ subscriptionCalls' = [subscriptionCalls EXCEPT ![InstanceOf(j)] = Append(@, h)]
  <2>1. CASE SendSubscribe(j)
    BY <2>1 DEF SendSubscribe, JoinHandler, Awaits, TypeOK
  <2>2. CASE GiveBackSubscription(j) /\ SendsUnsubscribe(InstanceOf(j), request[j].room)
    BY <2>2 DEF GiveBackSubscription, Unsubscribe, JoinHandler, Awaits, TypeOK
  <2>3. CASE LeaveChannel(j) /\ emptied[j] /\ SendsUnsubscribe(InstanceOf(j), request[j].room)
    BY <2>3 DEF LeaveChannel, Unsubscribe, LeaveHandler, Awaits, TypeOK
  <2> QED BY <2>1, <2>2, <2>3 DEF SendsCall
<1>3. h \in Handlers /\ h.join = j
  BY DEF Handlers, JoinHandler, LeaveHandler
<1>4. CASE i = InstanceOf(j)
  <2>1. Waits(i, h)'
    BY <1>1, <1>2, <1>3, <1>4 DEF Waits, InstanceOf
  <2>2. subscriptionCalls'[i] = Append(subscriptionCalls[i], h)
    BY <1>2, <1>4 DEF TypeOK
  <2>3. ASSUME NEW g \in Handlers PROVE GoesOnWaiting(i, g)
    <3>1. Waits(i, g) => ~Settles(g)
      BY <1>1, SettlesByReading
    <3> QED BY <3>1, KeepsWaiting DEF GoesOnWaiting
  <2> HIDE DEF HandlerInv
  <2> QED BY <1>1, <1>2, <1>3, <2>1, <2>2, <2>3, SentCall DEF HandlerInv
<1>5. CASE i # InstanceOf(j)
  <2>1. subscriptionCalls'[i] = subscriptionCalls[i]
    BY <1>2, <1>5 DEF TypeOK
  <2> QED BY <1>1, <2>1, UnreadCalls
<1> QED BY <1>4, <1>5

(* The stretches that end a wait. *)
LEMMA SettlesKeepsCalls ==
  ASSUME HandlerInv, [Next]_vars, NEW i \in Instances, CallsOK(i), NEW j \in Joins,
         Subscribed(j) \/ RefuseJoin(j) \/ ChannelLeft(j)
  PROVE  CallsOK(i)'
<1> USE DEF HandlerInv
<1>0. subscriptionCalls' = subscriptionCalls /\ channel' = channel
  BY DEF Subscribed, RefuseJoin, ChannelLeft, redisVars
<1>1. PICK h \in {JoinHandler(j), LeaveHandler(j)} :
        LET k == InstanceOf(j)
        IN  /\ inbox[k] # <<>> /\ Head(inbox[k]) = Ack(h)
            /\ inbox' = [inbox EXCEPT ![k] = Tail(@)]
            /\ subscribedChannels' = [subscribedChannels EXCEPT ![k] =
                 IF Subscribes(h) THEN @ \cup {RoomOf(h)} ELSE @ \ {RoomOf(h)}]
  <2>1. CASE Subscribed(j)
    BY <2>1 DEF Subscribed, JoinHandler, Subscribes, RoomOf
  <2>2. CASE RefuseJoin(j)
    BY <2>2 DEF RefuseJoin, JoinHandler, Subscribes, RoomOf
  <2>3. CASE ChannelLeft(j)
    BY <2>3 DEF ChannelLeft, LeaveHandler, Subscribes, RoomOf
  <2> QED BY <2>1, <2>2, <2>3
<1>2. h \in Handlers /\ h.join = j
  BY DEF Handlers, JoinHandler, LeaveHandler
<1>3. CASE i = InstanceOf(j)
  <2>1. /\ inbox[i] # <<>> /\ Head(inbox[i]) = Ack(h) /\ inbox'[i] = Tail(inbox[i])
        /\ subscribedChannels'[i] = IF Subscribes(h) THEN subscribedChannels[i] \cup {RoomOf(h)}
                                                     ELSE subscribedChannels[i] \ {RoomOf(h)}
    BY <1>1, <1>3 DEF TypeOK
  <2> QED BY <1>0, <1>2, <2>1, ReadCall
<1>4. CASE i # InstanceOf(j)
  <2>1. inbox'[i] = inbox[i] /\ subscribedChannels'[i] = subscribedChannels[i]
    BY <1>1, <1>4 DEF TypeOK
  <2> QED BY <1>0, <2>1, UnreadCalls
<1> QED BY <1>3, <1>4

(* A pushed notice is not an acknowledgement: whoever waits goes on waiting. *)
LEMMA DeliverKeepsCalls ==
  ASSUME HandlerInv, [Next]_vars, NEW i \in Instances, CallsOK(i), NEW k \in Instances, Deliver(k)
  PROVE  CallsOK(i)'
<1> USE DEF HandlerInv
<1>0. subscriptionCalls' = subscriptionCalls /\ channel' = channel /\ subscribedChannels' = subscribedChannels
  BY DEF Deliver, redisVars, coordinatorVars
<1>1. CASE i # k
  <2>1. inbox'[i] = inbox[i]
    BY <1>1 DEF Deliver, TypeOK
  <2> QED BY <1>0, <2>1, UnreadCalls
<1>2. CASE i = k
  <2>1. inbox[i] \in Seq(Notices \cup Acks) /\ inbox[i] # <<>> /\ inbox'[i] = Tail(inbox[i])
        /\ Head(inbox[i]).type # "ack"
    BY <1>2 DEF Deliver, TypeOK
  <2>2. ASSUME NEW h \in Handlers PROVE GoesOnWaiting(i, h)
    <3>1. TypeOK /\ Ack(h).type = "ack"
      BY DEF Ack
    <3>2. Waits(i, h) => ~Settles(h)
      BY <2>1, <3>1, SettlesByReading
    <3> QED BY <3>2, KeepsWaiting DEF GoesOnWaiting
  <2>3. Undisturbed(i)
    BY <1>0, <2>2 DEF Undisturbed
  <2>4. Shifted(inbox[i], inbox'[i], 1)
    BY <2>1, TailShifts
  <2>5. \A n \in 1..1 : ~AckAt(inbox[i], n)
    BY <2>1, EmptySeq DEF AckAt
  <2> QED BY <2>3, <2>4, <2>5, UndisturbedCalls
<1> QED BY <1>1, <1>2

(* Every step keeps the calls of every instance in order. *)
LEMMA StepKeepsCalls ==
  ASSUME HandlerInv, [Next]_vars, NEW i \in Instances, CallsOK(i)
  PROVE  CallsOK(i)'
<1>1. CASE \E j \in Joins : SendsCall(j) \/ Subscribed(j) \/ RefuseJoin(j) \/ ChannelLeft(j)
  BY <1>1, SendsCallKeepsCalls, SettlesKeepsCalls
<1>2. CASE \E k \in Instances : Deliver(k)
  BY <1>2, DeliverKeepsCalls
<1>3. CASE \E k \in Instances : RedisSubscription(k)
  <2>1. PICK k \in Instances : RedisSubscription(k)
    BY <1>3
  <2>2. CASE i = k
    BY <2>1, <2>2, RunCall DEF HandlerInv
  <2>3. CASE i # k
    <3>1. /\ subscriptionCalls'[i] = subscriptionCalls[i] /\ inbox'[i] = inbox[i]
          /\ subscribedChannels'[i] = subscribedChannels[i]
          /\ \A r \in Rooms : i \in channel'[r] <=> i \in channel[r]
      BY <2>1, <2>3 DEF RedisSubscription, HandlerInv, TypeOK, coordinatorVars
    <3> QED BY <3>1, UnreadCalls
  <2> QED BY <2>2, <2>3
<1>4. CASE \E j \in Joins : RedisPublishJoined(j) \/ RedisPublishLeft(j)
  <2>1. PICK j \in Joins : RedisPublishJoined(j) \/ RedisPublishLeft(j)
    BY <1>4
  <2>2. subscriptionCalls' = subscriptionCalls /\ subscribedChannels' = subscribedChannels /\ channel' = channel
    BY <2>1 DEF RedisPublishJoined, RedisPublishLeft, redisVars, coordinatorVars
  <2>3. request[j].room \in Rooms /\ request[j].peer \in Peers
    BY <2>1, HandlerRequest DEF RedisPublishJoined, RedisPublishLeft
  <2>4. PeerJoined(j) \in Notices /\ PeerLeft(j) \in Notices
    BY <2>3 DEF PeerJoined, PeerLeft, Notices
  <2>5. inbox'[i] = inbox[i] \/ \E e \in Notices : inbox'[i] = Append(inbox[i], e)
    BY <2>1, <2>4 DEF RedisPublishJoined, RedisPublishLeft, FanOut
  <2> QED BY <2>2, <2>5, UnreadCalls
<1>5. CASE /\ subscriptionCalls' = subscriptionCalls /\ subscribedChannels' = subscribedChannels
           /\ channel' = channel /\ inbox' = inbox
  BY <1>5, UnreadCalls
<1>6. \/ \E j \in Joins : \/ SendsCall(j) \/ Subscribed(j) \/ RefuseJoin(j) \/ ChannelLeft(j)
                          \/ RedisPublishJoined(j) \/ RedisPublishLeft(j)
      \/ \E k \in Instances : Deliver(k) \/ RedisSubscription(k)
      \/ /\ subscriptionCalls' = subscriptionCalls /\ subscribedChannels' = subscribedChannels
         /\ channel' = channel /\ inbox' = inbox
  <2>1. ASSUME NEW j \in Joins,
               (GiveBackSubscription(j) \/ LeaveChannel(j)) /\ ~SendsCall(j)
        PROVE  /\ subscriptionCalls' = subscriptionCalls /\ subscribedChannels' = subscribedChannels
               /\ channel' = channel /\ inbox' = inbox
    BY <2>1 DEF SendsCall, GiveBackSubscription, LeaveChannel, Unsubscribe, redisVars
  <2> QED
    BY <2>1 DEF SendsCall, Next, vars, redisVars, wireVars, coordinatorVars, JoinStep, LeaveStep,
       RefuseSecondJoin, ReceiveJoin, AuthorizationFails, RefuseNewRoom, ShareSubscription, Install,
       RedisJoin, AnnounceDeparture, RedisLeave, Leave, CloseJoined, CloseUnjoined, LeaveUnchanged
<1> QED BY <1>1, <1>2, <1>3, <1>4, <1>5, <1>6

(* With no handler running nothing is on its way, and what the store
   believes is what Redis does.                                            *)
THEOREM SubscriptionsAgreeCorrect == Spec => []SubscriptionsAgree
<1> DEFINE Inv == HandlerInv /\ \A i \in Instances : CallsOK(i)
<1>1. Init => Inv
  <2> SUFFICES ASSUME Init, NEW i \in Instances PROVE CallsOK(i)
    BY HandlerInvInit
  <2>1. /\ subscriptionCalls[i] = <<>> /\ inbox[i] = <<>> /\ subscribedChannels[i] = {}
        /\ \A r \in Rooms : channel[r] = {}
    BY DEF Init
  <2> QED BY <2>1 DEF CallsOK, CallsAreAwaited, AcksAreAwaited, CalledOnce, AnsweredOnce,
          AnsweredOrCalled, BelievedWhenRead, LastAckCounts, AckOf, AckAt
<1>2. Inv /\ [Next]_vars => Inv'
  BY StepKeepsHandlerInv, StepKeepsCalls
<1>3. Inv => SubscriptionsAgree
  <2> SUFFICES ASSUME Inv, AtRest, NEW i \in Instances
               PROVE  subscribedChannels[i] = {r \in Rooms : i \in channel[r]}
    BY DEF SubscriptionsAgree
  <2>1. ASSUME NEW r \in Rooms, NEW n \in Nat, AckOf(i, n, r) PROVE FALSE
    <3>1. Waits(i, inbox[i][n].handler)
      BY <2>1 DEF CallsOK, AcksAreAwaited, AckOf
    <3> QED BY <3>1 DEF Waits, Awaits, AtRest, Handlers
  <2>2. \A r \in Rooms : i \in channel[r] <=> r \in subscribedChannels[i]
    BY <2>1 DEF CallsOK, BelievedWhenRead
  <2>3. subscribedChannels[i] \subseteq Rooms
    BY DEF HandlerInv, TypeOK
  <2> QED BY <2>2, <2>3
<1> QED BY <1>1, <1>2, <1>3, PTL DEF Spec
=============================================================================
