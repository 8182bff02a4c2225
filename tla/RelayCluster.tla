---------------------------- MODULE RelayCluster ----------------------------
(***************************************************************************)
(* A cluster of relay servers that share room membership through Redis:    *)
(* server.ts (WebSocket joins, leaves and closes), the Redis coordinator   *)
(* and the Redis store under it, and Redis itself.                         *)
(*                                                                         *)
(* A relay is one JavaScript thread, so a handler runs without             *)
(* interruption from one await on the network to the next; an action below *)
(* is one such stretch.  Between two stretches of a handler any other      *)
(* handler, Redis and the clients may take steps.  A relay talks to Redis  *)
(* over two connections, both first in, first out: one for commands, one   *)
(* for SUBSCRIBE, UNSUBSCRIBE, their acknowledgements and the messages     *)
(* pushed to it.                                                           *)
(*                                                                         *)
(* Redis stays reachable here, so coordinator.isReady() is true and no     *)
(* command fails.                                                          *)
(***************************************************************************)
EXTENDS RelayRedis, Sequences

CONSTANTS
  Rooms,       \* room ids
  Sockets,     \* WebSocket connections, all opened before the behaviour starts
  Home,        \* the instance each socket is connected to
  Joins,       \* join requests: each is sent once, which bounds a behaviour
  Capacities,  \* the maxPeers a request may ask for, NoCapacity for none
  MaxRooms,    \* the maxRooms option, the same on every instance
  AuthEnabled, \* whether the relays have an authorization handler
  NoSocket, NoJoin, NoRequest

ASSUME HomeIsAnInstance == Home \in [Sockets -> Instances]
ASSUME CapacitiesAreNumbers == Capacities \subseteq Nat
ASSUME MaxRoomsIsPositive == MaxRooms \in Nat \ {0}
ASSUME AuthIsAnOption == AuthEnabled \in BOOLEAN
ASSUME NoneIsNothing ==
  NoSocket \notin Sockets /\ NoJoin \notin Joins

VARIABLES
  (* Redis *)
  redis,              \* per room: the hash and the capacity key
  channel,            \* per room: the instances subscribed to its channel
  (* the two connections of each instance *)
  commands,           \* handlers whose command Redis has not executed yet
  subscriptionCalls,  \* handlers whose SUBSCRIBE or UNSUBSCRIBE is on its way
  inbox,              \* what Redis sent back on the subscriber connection
  (* RelayServerImpl *)
  socket,             \* per socket: "open", "closing" or "closed"
  contexts,           \* per socket: the join that made its context
  rooms,              \* per instance, room and peer: the socket
  (* RedisRelayRoomCoordinator and RelayRedisStoreImpl *)
  localRooms,         \* per instance and room: own peers and first capacity
  roomSubscriptions,  \* per instance and room: the reference count
  subscribedChannels, \* per instance: channels the store believes subscribed
  (* handlers: the locals of handleJoinMessage and removePeerFromRoom *)
  request,            \* per join: what the message asked for
  joinPc,             \* per join: the await its join handler is at
  leavePc,            \* per join: the await of the leave that undoes it
  reply,              \* per join: the result of coordinator.join
  emptied,            \* per join: its leave's room object has no peer left
  answer              \* per join: what the client was told, once it was

redisVars == <<redis, channel>>
wireVars == <<commands, subscriptionCalls, inbox>>
serverVars == <<socket, contexts, rooms>>
coordinatorVars == <<localRooms, roomSubscriptions, subscribedChannels>>
handlerVars == <<request, joinPc, leavePc, reply, emptied>>
vars == <<redisVars, wireVars, serverVars, coordinatorVars, handlerVars, answer>>
-----------------------------------------------------------------------------
Requests == [socket : Sockets, room : Rooms, peer : Peers, maxPeers : Capacities]

JoinPcs == {"idle", "authorizing", "subscribing", "joining", "replied",
            "publishing", "unsubscribing", "done"}
LeavePcs == {"none", "leaving", "left", "publishing", "published",
             "unsubscribing", "done"}
Errors == {"ALREADY_JOINED", "AUTH_FAILED", "ROOM_LIMIT", "PEER_EXISTS", "ROOM_FULL"}
Replies == [code : {"none", "joined", "PEER_EXISTS", "ROOM_FULL"}, peers : SUBSET Peers]
NoReply == [code |-> "none", peers |-> {}]

(* A command or a subscription call, by the handler that awaits it. *)
Handlers == [kind : {"join", "leave"}, join : Joins]
JoinHandler(j) == [kind |-> "join", join |-> j]
LeaveHandler(j) == [kind |-> "leave", join |-> j]

(* What a subscriber connection carries to an instance. *)
Notices == [type : {"peer-joined", "peer-left"}, room : Rooms, peer : Peers]
Acks == [type : {"ack"}, handler : Handlers]
PeerJoined(j) == [type |-> "peer-joined", room |-> request[j].room, peer |-> request[j].peer]
PeerLeft(j) == [type |-> "peer-left", room |-> request[j].room, peer |-> request[j].peer]
Ack(handler) == [type |-> "ack", handler |-> handler]

InstanceOf(j) == Home[request[j].socket]
LocalPeers(i, r) == {p \in Peers : rooms[i][r][p] # NoSocket}
HostedRooms(i) == {r \in Rooms : LocalPeers(i, r) # {}}

TypeOK ==
  /\ redis \in [Rooms -> RedisRoom]
  /\ channel \in [Rooms -> SUBSET Instances]
  /\ commands \in [Instances -> Seq(Handlers)]
  /\ subscriptionCalls \in [Instances -> Seq(Handlers)]
  /\ inbox \in [Instances -> Seq(Notices \cup Acks)]
  /\ socket \in [Sockets -> {"open", "closing", "closed"}]
  /\ contexts \in [Sockets -> Joins \cup {NoJoin}]
  /\ rooms \in [Instances -> [Rooms -> [Peers -> Sockets \cup {NoSocket}]]]
  /\ localRooms \in [Instances -> [Rooms -> [peers : SUBSET Peers, capacity : Nat]]]
  /\ roomSubscriptions \in [Instances -> [Rooms -> Nat]]
  /\ subscribedChannels \in [Instances -> SUBSET Rooms]
  /\ request \in [Joins -> Requests \cup {NoRequest}]
  /\ joinPc \in [Joins -> JoinPcs]
  /\ leavePc \in [Joins -> LeavePcs]
  /\ reply \in [Joins -> Replies]
  /\ emptied \in [Joins -> BOOLEAN]
  /\ answer \in [Joins -> {"none", "joined"} \cup Errors]

Init ==
  /\ redis = [r \in Rooms |-> EmptyRoom]
  /\ channel = [r \in Rooms |-> {}]
  /\ commands = [i \in Instances |-> <<>>]
  /\ subscriptionCalls = [i \in Instances |-> <<>>]
  /\ inbox = [i \in Instances |-> <<>>]
  /\ socket = [s \in Sockets |-> "open"]
  /\ contexts = [s \in Sockets |-> NoJoin]
  /\ rooms = [i \in Instances |-> [r \in Rooms |-> [p \in Peers |-> NoSocket]]]
  /\ localRooms = [i \in Instances |-> [r \in Rooms |-> [peers |-> {}, capacity |-> NoCapacity]]]
  /\ roomSubscriptions = [i \in Instances |-> [r \in Rooms |-> 0]]
  /\ subscribedChannels = [i \in Instances |-> {}]
  /\ request = [j \in Joins |-> NoRequest]
  /\ joinPc = [j \in Joins |-> "idle"]
  /\ leavePc = [j \in Joins |-> "none"]
  /\ reply = [j \in Joins |-> NoReply]
  /\ emptied = [j \in Joins |-> FALSE]
  /\ answer = [j \in Joins |-> "none"]
-----------------------------------------------------------------------------
(* coordinator.unsubscribe: the count goes down; with the last reference the
   store, if it believes the channel subscribed, sends UNSUBSCRIBE and the
   handler awaits the acknowledgement.                                     *)
SendsUnsubscribe(i, r) == roomSubscriptions[i][r] = 1 /\ r \in subscribedChannels[i]

(* Slips to detect: a count that goes below zero, and a call that is awaited
   but made one reference too late.                                        *)
UnsubscribeBelowZero(i, r, handler) ==
  /\ roomSubscriptions' = [roomSubscriptions EXCEPT ![i][r] = @ - 1]
  /\ subscriptionCalls' =
       IF SendsUnsubscribe(i, r)
         THEN [subscriptionCalls EXCEPT ![i] = Append(@, handler)]
         ELSE subscriptionCalls

UnsubscribeTooLate(i, r, handler) ==
  /\ roomSubscriptions' =
       [roomSubscriptions EXCEPT ![i][r] = IF @ > 0 THEN @ - 1 ELSE 0]
  /\ subscriptionCalls' =
       IF roomSubscriptions[i][r] = 0 /\ r \in subscribedChannels[i]
         THEN [subscriptionCalls EXCEPT ![i] = Append(@, handler)]
         ELSE subscriptionCalls

Unsubscribe(i, r, handler) ==
  /\ roomSubscriptions' =
       [roomSubscriptions EXCEPT ![i][r] = IF @ > 0 THEN @ - 1 ELSE 0]
  /\ subscriptionCalls' =
       IF SendsUnsubscribe(i, r)
         THEN [subscriptionCalls EXCEPT ![i] = Append(@, handler)]
         ELSE subscriptionCalls

Finish(j, code) ==
  /\ joinPc' = [joinPc EXCEPT ![j] = "done"]
  /\ answer' = [answer EXCEPT ![j] = code]
-----------------------------------------------------------------------------
(* A join message on a socket that has a context already. *)
RefuseSecondJoin(j, q) ==
  /\ joinPc[j] = "idle"
  /\ socket[q.socket] # "closed"
  /\ contexts[q.socket] # NoJoin
  /\ request' = [request EXCEPT ![j] = q]
  /\ Finish(j, "ALREADY_JOINED")
  /\ UNCHANGED <<redisVars, wireVars, serverVars, coordinatorVars, leavePc, reply, emptied>>

(* A join message on a socket without one: authorization is awaited. *)
ReceiveJoin(j, q) ==
  /\ joinPc[j] = "idle"
  /\ socket[q.socket] # "closed"
  /\ contexts[q.socket] = NoJoin
  /\ request' = [request EXCEPT ![j] = q]
  /\ joinPc' = [joinPc EXCEPT ![j] = "authorizing"]
  /\ UNCHANGED <<redisVars, wireVars, serverVars, coordinatorVars, leavePc, reply, emptied, answer>>

(* The authorization handler refuses: the relay starts to close the socket. *)
AuthorizationFails(j) ==
  LET s == request[j].socket
  IN  /\ AuthEnabled
      /\ joinPc[j] = "authorizing"
      /\ socket' = [socket EXCEPT ![s] = IF @ = "open" THEN "closing" ELSE @]
      /\ Finish(j, "AUTH_FAILED")
      /\ UNCHANGED <<redisVars, wireVars, contexts, rooms, coordinatorVars,
                     request, leavePc, reply, emptied>>

(* wouldExceedRoomLimit *)
ExceedsRoomLimit(i, r) ==
  /\ r \notin HostedRooms(i)
  /\ Cardinality(HostedRooms(i)) >= MaxRooms

RefuseNewRoom(j) ==
  /\ joinPc[j] = "authorizing"
  /\ ExceedsRoomLimit(InstanceOf(j), request[j].room)
  /\ Finish(j, "ROOM_LIMIT")
  /\ UNCHANGED <<redisVars, wireVars, serverVars, coordinatorVars,
                 request, leavePc, reply, emptied>>

(* coordinator.subscribe, the channel in use or known to the store: the
   count goes up and the join script is sent.                              *)
ShareSubscription(j) ==
  LET i == InstanceOf(j)
      r == request[j].room
  IN  /\ joinPc[j] = "authorizing"
      /\ ~ExceedsRoomLimit(i, r)
      /\ roomSubscriptions[i][r] > 0 \/ r \in subscribedChannels[i]
      /\ roomSubscriptions' = [roomSubscriptions EXCEPT ![i][r] = @ + 1]
      /\ commands' = [commands EXCEPT ![i] = Append(@, JoinHandler(j))]
      /\ joinPc' = [joinPc EXCEPT ![j] = "joining"]
      /\ UNCHANGED <<redisVars, subscriptionCalls, inbox, serverVars, localRooms,
                     subscribedChannels, request, leavePc, reply, emptied, answer>>

(* coordinator.subscribe, first reference: SUBSCRIBE is sent and awaited. *)
SendSubscribe(j) ==
  LET i == InstanceOf(j)
      r == request[j].room
  IN  /\ joinPc[j] = "authorizing"
      /\ ~ExceedsRoomLimit(i, r)
      /\ roomSubscriptions[i][r] = 0 /\ r \notin subscribedChannels[i]
      /\ subscriptionCalls' = [subscriptionCalls EXCEPT ![i] = Append(@, JoinHandler(j))]
      /\ joinPc' = [joinPc EXCEPT ![j] = "subscribing"]
      /\ UNCHANGED <<redisVars, commands, inbox, serverVars, coordinatorVars,
                     request, leavePc, reply, emptied, answer>>

(* The acknowledgement: the count is set to 1, whatever other handlers made
   of it in the meantime, and the join script is sent.                     *)
Subscribed(j) ==
  LET i == InstanceOf(j)
      r == request[j].room
  IN  /\ joinPc[j] = "subscribing"
      /\ inbox[i] # <<>> /\ Head(inbox[i]) = Ack(JoinHandler(j))
      /\ inbox' = [inbox EXCEPT ![i] = Tail(@)]
      /\ subscribedChannels' = [subscribedChannels EXCEPT ![i] = @ \cup {r}]
      /\ roomSubscriptions' = [roomSubscriptions EXCEPT ![i][r] = 1]
      /\ commands' = [commands EXCEPT ![i] = Append(@, JoinHandler(j))]
      /\ joinPc' = [joinPc EXCEPT ![j] = "joining"]
      /\ UNCHANGED <<redisVars, subscriptionCalls, serverVars, localRooms,
                     request, leavePc, reply, emptied, answer>>

(* The script admitted the peer: both registries and the context are set,
   without a look at the socket, the client is answered, local peers are
   told and the announcement for the other instances is sent.              *)
Install(j) ==
  LET i == InstanceOf(j)
      r == request[j].room
      p == request[j].peer
      s == request[j].socket
  IN  /\ joinPc[j] = "replied" /\ reply[j].code = "joined"
      /\ localRooms' = [localRooms EXCEPT ![i][r] =
           [peers    |-> @.peers \cup {p},
            capacity |-> IF @.peers = {} THEN request[j].maxPeers ELSE @.capacity]]
      /\ rooms' = [rooms EXCEPT ![i][r][p] = s]
      /\ contexts' = [contexts EXCEPT ![s] = j]
      /\ answer' = [answer EXCEPT ![j] = "joined"]
      /\ commands' = [commands EXCEPT ![i] = Append(@, JoinHandler(j))]
      /\ joinPc' = [joinPc EXCEPT ![j] = "publishing"]
      /\ reply' = [reply EXCEPT ![j] = NoReply]
      /\ UNCHANGED <<redisVars, subscriptionCalls, inbox, socket, roomSubscriptions,
                     subscribedChannels, request, leavePc, emptied>>

(* The script refused it: the subscription is given back, and the client is
   answered after that.                                                    *)
GiveBackSubscription(j) ==
  LET i == InstanceOf(j)
      r == request[j].room
  IN  /\ joinPc[j] = "replied" /\ reply[j].code # "joined"
      /\ Unsubscribe(i, r, JoinHandler(j))
      /\ IF SendsUnsubscribe(i, r)
           THEN /\ joinPc' = [joinPc EXCEPT ![j] = "unsubscribing"]
                /\ UNCHANGED <<answer, reply>>
           ELSE /\ Finish(j, reply[j].code)
                /\ reply' = [reply EXCEPT ![j] = NoReply]
      /\ UNCHANGED <<redisVars, commands, inbox, serverVars, localRooms, subscribedChannels,
                     request, leavePc, emptied>>

RefuseJoin(j) ==
  LET i == InstanceOf(j)
      r == request[j].room
  IN  /\ joinPc[j] = "unsubscribing"
      /\ inbox[i] # <<>> /\ Head(inbox[i]) = Ack(JoinHandler(j))
      /\ inbox' = [inbox EXCEPT ![i] = Tail(@)]
      /\ subscribedChannels' = [subscribedChannels EXCEPT ![i] = @ \ {r}]
      /\ Finish(j, reply[j].code)
      /\ reply' = [reply EXCEPT ![j] = NoReply]
      /\ UNCHANGED <<redisVars, commands, subscriptionCalls, serverVars, localRooms,
                     roomSubscriptions, request, leavePc, emptied>>
-----------------------------------------------------------------------------
(* removePeerFromRoom up to its first await: the context and both registry
   entries go, and the leave script is sent.  A leave whose room object has
   lost its last peer, by its own doing or by another leave's, will give the
   subscription back.                                                      *)
RemovePeerFromRoom(j) ==
  LET i == InstanceOf(j)
      r == request[j].room
      p == request[j].peer
      isLast == LocalPeers(i, r) \subseteq {p}
      SharesRoom(k) ==
        /\ leavePc[k] \in {"leaving", "left", "publishing", "published"}
        /\ InstanceOf(k) = i /\ request[k].room = r
  IN  IF LocalPeers(i, r) = {}
        THEN UNCHANGED <<rooms, localRooms, commands, leavePc, emptied>>
        ELSE /\ rooms' = [rooms EXCEPT ![i][r][p] = NoSocket]
             /\ emptied' = [k \in Joins |-> emptied[k] \/ (isLast /\ (k = j \/ SharesRoom(k)))]
             /\ localRooms' = [localRooms EXCEPT ![i][r] =
                  [peers    |-> @.peers \ {p},
                   capacity |-> IF @.peers \subseteq {p} THEN NoCapacity ELSE @.capacity]]
             /\ commands' = [commands EXCEPT ![i] = Append(@, LeaveHandler(j))]
             /\ leavePc' = [leavePc EXCEPT ![j] = "leaving"]

LeaveUnchanged ==
  UNCHANGED <<redisVars, subscriptionCalls, inbox, roomSubscriptions, subscribedChannels,
              request, joinPc, reply, answer>>

(* Slips to detect: the context outlives the leave, or the socket. *)
LeaveKeepingContext(s) ==
  /\ socket[s] # "closed" /\ contexts[s] # NoJoin
  /\ RemovePeerFromRoom(contexts[s])
  /\ UNCHANGED <<socket, contexts>>
  /\ LeaveUnchanged

(* A leave message that names the socket's room and peer. *)
Leave(s) ==
  /\ socket[s] # "closed" /\ contexts[s] # NoJoin
  /\ contexts' = [contexts EXCEPT ![s] = NoJoin]
  /\ RemovePeerFromRoom(contexts[s])
  /\ UNCHANGED socket
  /\ LeaveUnchanged

(* The socket's close event, with and without a context to undo. *)
CloseJoined(s) ==
  /\ socket[s] # "closed" /\ contexts[s] # NoJoin
  /\ socket' = [socket EXCEPT ![s] = "closed"]
  /\ contexts' = [contexts EXCEPT ![s] = NoJoin]
  /\ RemovePeerFromRoom(contexts[s])
  /\ LeaveUnchanged

CloseUnjoined(s) ==
  /\ socket[s] # "closed" /\ contexts[s] = NoJoin
  /\ socket' = [socket EXCEPT ![s] = "closed"]
  /\ UNCHANGED <<contexts, rooms, localRooms, commands, leavePc, emptied>>
  /\ LeaveUnchanged

(* The leave script is done: local peers are told and the announcement for
   the other instances is sent.                                            *)
AnnounceDeparture(j) ==
  LET i == InstanceOf(j)
  IN  /\ leavePc[j] = "left"
      /\ commands' = [commands EXCEPT ![i] = Append(@, LeaveHandler(j))]
      /\ leavePc' = [leavePc EXCEPT ![j] = "publishing"]
      /\ UNCHANGED <<redisVars, subscriptionCalls, inbox, serverVars, coordinatorVars,
                     request, joinPc, reply, emptied, answer>>

(* Then the subscription is given back, if the room object is empty. *)
LeaveChannel(j) ==
  LET i == InstanceOf(j)
      r == request[j].room
  IN  /\ leavePc[j] = "published"
      /\ IF emptied[j]
           THEN Unsubscribe(i, r, LeaveHandler(j))
           ELSE UNCHANGED <<roomSubscriptions, subscriptionCalls>>
      /\ leavePc' = [leavePc EXCEPT ![j] =
           IF emptied[j] /\ SendsUnsubscribe(i, r) THEN "unsubscribing" ELSE "done"]
      /\ emptied' = [emptied EXCEPT ![j] = FALSE]
      /\ UNCHANGED <<redisVars, commands, inbox, serverVars, localRooms, subscribedChannels,
                     request, joinPc, reply, answer>>

(* A slip to detect: the store goes on believing it is subscribed. *)
ChannelLeftUnnoticed(j) ==
  LET i == InstanceOf(j)
  IN  /\ leavePc[j] = "unsubscribing"
      /\ inbox[i] # <<>> /\ Head(inbox[i]) = Ack(LeaveHandler(j))
      /\ inbox' = [inbox EXCEPT ![i] = Tail(@)]
      /\ leavePc' = [leavePc EXCEPT ![j] = "done"]
      /\ UNCHANGED <<redisVars, commands, subscriptionCalls, serverVars, coordinatorVars,
                     request, joinPc, reply, emptied, answer>>

ChannelLeft(j) ==
  LET i == InstanceOf(j)
      r == request[j].room
  IN  /\ leavePc[j] = "unsubscribing"
      /\ inbox[i] # <<>> /\ Head(inbox[i]) = Ack(LeaveHandler(j))
      /\ inbox' = [inbox EXCEPT ![i] = Tail(@)]
      /\ subscribedChannels' = [subscribedChannels EXCEPT ![i] = @ \ {r}]
      /\ leavePc' = [leavePc EXCEPT ![j] = "done"]
      /\ UNCHANGED <<redisVars, commands, subscriptionCalls, serverVars, localRooms,
                     roomSubscriptions, request, joinPc, reply, emptied, answer>>
-----------------------------------------------------------------------------
(* Redis executes the oldest command of an instance's connection. *)
IsNextCommand(i, handler) == commands[i] # <<>> /\ Head(commands[i]) = handler
TakeCommand(i) == commands' = [commands EXCEPT ![i] = Tail(@)]

RedisJoin(j) ==
  LET i == InstanceOf(j)
      r == request[j].room
      p == request[j].peer
      max == request[j].maxPeers
  IN  /\ joinPc[j] = "joining" /\ IsNextCommand(i, JoinHandler(j))
      /\ TakeCommand(i)
      /\ redis' = [redis EXCEPT ![r] = JoinRoom(@, p, i, max)]
      /\ reply' = [reply EXCEPT ![j] =
           LET verdict == JoinVerdict(redis[r], p, max)
           IN  [code  |-> verdict,
                peers |-> IF verdict = "joined" THEN Members(redis[r]) ELSE {}]]
      /\ joinPc' = [joinPc EXCEPT ![j] = "replied"]
      /\ UNCHANGED <<channel, subscriptionCalls, inbox, serverVars, coordinatorVars,
                     request, leavePc, emptied, answer>>

RedisLeave(j) ==
  LET i == InstanceOf(j)
      r == request[j].room
  IN  /\ leavePc[j] = "leaving" /\ IsNextCommand(i, LeaveHandler(j))
      /\ TakeCommand(i)
      /\ redis' = [redis EXCEPT ![r] = LeaveRoom(@, request[j].peer)]
      /\ leavePc' = [leavePc EXCEPT ![j] = "left"]
      /\ UNCHANGED <<channel, subscriptionCalls, inbox, serverVars, coordinatorVars,
                     request, joinPc, reply, emptied, answer>>

(* PUBLISH reaches the channel's subscribers.  The publisher's own copy is
   not queued: onMessage drops an envelope with its own sourceInstanceId.  *)
FanOut(i, notice) ==
  inbox' = [k \in Instances |-> IF k \in channel[notice.room] \ {i}
                                  THEN Append(inbox[k], notice)
                                  ELSE inbox[k]]

RedisPublishJoined(j) ==
  LET i == InstanceOf(j)
  IN  /\ joinPc[j] = "publishing" /\ IsNextCommand(i, JoinHandler(j))
      /\ TakeCommand(i)
      /\ FanOut(i, PeerJoined(j))
      /\ joinPc' = [joinPc EXCEPT ![j] = "done"]
      /\ UNCHANGED <<redisVars, subscriptionCalls, serverVars, coordinatorVars,
                     request, leavePc, reply, emptied, answer>>

RedisPublishLeft(j) ==
  LET i == InstanceOf(j)
  IN  /\ leavePc[j] = "publishing" /\ IsNextCommand(i, LeaveHandler(j))
      /\ TakeCommand(i)
      /\ FanOut(i, PeerLeft(j))
      /\ leavePc' = [leavePc EXCEPT ![j] = "published"]
      /\ UNCHANGED <<redisVars, subscriptionCalls, serverVars, coordinatorVars,
                     request, joinPc, reply, emptied, answer>>

(* Redis executes the oldest SUBSCRIBE or UNSUBSCRIBE of an instance. *)
RedisSubscription(i) ==
  /\ subscriptionCalls[i] # <<>>
  /\ LET handler == Head(subscriptionCalls[i])
         j == handler.join
         r == request[j].room
         subscribes == handler.kind = "join" /\ joinPc[j] = "subscribing"
     IN  /\ channel' = [channel EXCEPT ![r] = IF subscribes THEN @ \cup {i} ELSE @ \ {i}]
         /\ inbox' = [inbox EXCEPT ![i] = Append(@, Ack(handler))]
  /\ subscriptionCalls' = [subscriptionCalls EXCEPT ![i] = Tail(@)]
  /\ UNCHANGED <<redis, commands, serverVars, coordinatorVars, handlerVars, answer>>

(* handleCoordinatorMessage: a pushed notice is told to the local peers. *)
Deliver(i) ==
  /\ inbox[i] # <<>> /\ Head(inbox[i]).type # "ack"
  /\ inbox' = [inbox EXCEPT ![i] = Tail(@)]
  /\ UNCHANGED <<redisVars, commands, subscriptionCalls, serverVars, coordinatorVars,
                 handlerVars, answer>>
-----------------------------------------------------------------------------
(* The steps a join handler and the leave that undoes it take by themselves. *)
JoinStep(j) ==
  \/ RefuseNewRoom(j) \/ ShareSubscription(j) \/ SendSubscribe(j) \/ Subscribed(j)
  \/ Install(j) \/ GiveBackSubscription(j) \/ RefuseJoin(j)
  \/ RedisJoin(j) \/ RedisPublishJoined(j)

LeaveStep(j) ==
  \/ AnnounceDeparture(j) \/ LeaveChannel(j) \/ ChannelLeft(j)
  \/ RedisLeave(j) \/ RedisPublishLeft(j)

Next ==
  \/ \E j \in Joins, q \in Requests : RefuseSecondJoin(j, q) \/ ReceiveJoin(j, q)
  \/ \E j \in Joins : AuthorizationFails(j) \/ JoinStep(j) \/ LeaveStep(j)
  \/ \E s \in Sockets : Leave(s) \/ CloseJoined(s) \/ CloseUnjoined(s)
  \/ \E i \in Instances : RedisSubscription(i) \/ Deliver(i)

(* Awaited promises settle and Redis answers; nothing makes a client send,
   leave or close.                                                         *)
Fairness ==
  /\ \A j \in Joins : WF_vars(JoinStep(j)) /\ WF_vars(LeaveStep(j))
  /\ \A i \in Instances : WF_vars(RedisSubscription(i)) /\ WF_vars(Deliver(i))

Spec == Init /\ [][Next]_vars
FairSpec == Spec /\ Fairness
-----------------------------------------------------------------------------
(* The join's own entry is in Redis: from the script that wrote it to the
   script that will remove it.                                             *)
Holds(j) ==
  \/ joinPc[j] = "replied" /\ reply[j].code = "joined"
  \/ answer[j] = "joined" /\ leavePc[j] \in {"none", "leaving"}

(* The join was admitted and nothing has begun to undo it. *)
Present(j) == answer[j] = "joined" /\ leavePc[j] = "none"

Asks(j, r, p) == request[j].room = r /\ request[j].peer = p

AtRest == \A j \in Joins : joinPc[j] \in {"idle", "done"} /\ leavePc[j] \in {"none", "done"}

(* A peer id of a room is never held by two instances at once, whatever
   joins, leaves and closes overlap on whichever instances.                *)
HolderUnique ==
  \A r \in Rooms, p \in Peers, i, k \in Instances :
    rooms[i][r][p] # NoSocket /\ rooms[k][r][p] # NoSocket => i = k

(* A socket in a relay's registry is backed by a Redis entry of that relay:
   a late leave, its own or another instance's, never takes it away.       *)
RegistryBacked ==
  \A i \in Instances, r \in Rooms, p \in Peers :
    rooms[i][r][p] # NoSocket => redis[r].peers[p] = i

(* A socket's context always has its entry in the registry, so the early
   return of removePeerFromRoom never skips a leave that Redis waits for.  *)
ContextRegistered ==
  \A s \in Sockets :
    contexts[s] # NoJoin =>
      LET q == request[contexts[s]]
      IN  q.socket = s /\ rooms[Home[s]][q.room][q.peer] = s

(* Once no handler is running, the server's registry, the coordinator's and
   Redis name the same members: nothing leaked, nothing lost.              *)
ExactAtRest ==
  AtRest =>
    \A i \in Instances, r \in Rooms :
      /\ localRooms[i][r].peers = LocalPeers(i, r)
      /\ \A p \in Peers : rooms[i][r][p] # NoSocket <=> redis[r].peers[p] = i

(* Once no handler is running, the store believes subscribed exactly the
   channels Redis pushes to the instance.                                  *)
SubscriptionsAgree ==
  AtRest => \A i \in Instances : subscribedChannels[i] = {r \in Rooms : i \in channel[r]}

(* A room with a capacity never has more members than that. *)
CapacityHeld ==
  \A r \in Rooms :
    redis[r].capacity # NoCapacity => Cardinality(Members(redis[r])) <= redis[r].capacity

(* The first occupant's capacity stays for as long as the room has members:
   a later join neither changes nor introduces one.                        *)
CapacityFixed ==
  [][\A r \in Rooms :
       Members(redis[r]) # {} /\ Members(redis'[r]) # {}
         => redis'[r].capacity = redis[r].capacity]_vars

(* A room nobody is in keeps no capacity for whoever opens it next. *)
EmptyRoomIsFresh == \A r \in Rooms : Members(redis[r]) = {} => redis[r] = EmptyRoom

(* An instance with a member in a room receives what other instances
   publish to the room's channel, as the documentation of the Redis-backed
   relay says.  Two first subscriptions at once are counted as one.        *)
MemberHearsRoom ==
  AtRest => \A i \in Instances, r \in Rooms : LocalPeers(i, r) # {} => i \in channel[r]
-----------------------------------------------------------------------------
(* The inductive invariant behind HolderUnique, RegistryBacked and
   ContextRegistered: an entry in Redis has one join that holds it, and a
   registry entry belongs to a join that is present.                       *)
HandlersAgree ==
  \A j \in Joins :
    /\ joinPc[j] # "idle" => request[j] \in Requests
    /\ joinPc[j] \in JoinPcs \ {"publishing", "done"} => answer[j] = "none"
    /\ joinPc[j] = "publishing" => answer[j] = "joined"
    /\ joinPc[j] = "unsubscribing" => reply[j].code # "joined"
    /\ leavePc[j] # "none" => answer[j] = "joined"

HoldersOwn ==
  \A j \in Joins : Holds(j) => redis[request[j].room].peers[request[j].peer] = InstanceOf(j)

HoldersDiffer ==
  \A j, k \in Joins :
    /\ Holds(j) /\ Holds(k)
    /\ request[j].room = request[k].room /\ request[j].peer = request[k].peer
    => j = k

RegisteredArePresent ==
  \A i \in Instances, r \in Rooms, p \in Peers :
    rooms[i][r][p] # NoSocket =>
      \E j \in Joins : /\ Present(j) /\ Asks(j, r, p)
                       /\ request[j].socket = rooms[i][r][p] /\ InstanceOf(j) = i

PresentAreRegistered ==
  \A j \in Joins :
    Present(j) => rooms[InstanceOf(j)][request[j].room][request[j].peer] = request[j].socket

ContextsArePresent ==
  \A s \in Sockets :
    contexts[s] # NoJoin => Present(contexts[s]) /\ request[contexts[s]].socket = s

(* Every entry Redis keeps, every registry entry and every context has the
   one join it comes from, in every state the handlers pass through.       *)
Registration ==
  /\ HandlersAgree
  /\ HoldersOwn
  /\ HoldersDiffer
  /\ RegisteredArePresent
  /\ PresentAreRegistered
  /\ ContextsArePresent
=============================================================================
